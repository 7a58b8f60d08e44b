------------------------------ MODULE LiveCall ------------------------------
(***************************************************************************)
(* Voice calls to the oracle (packages/oracles-client-sdk/src/live-agent,     *)
(* apps/app/src/calls): the hook of a page creates a call as an event of the  *)
(* Matrix room, registers it, connects to the call's LiveKit room with the     *)
(* call's key, and keeps the status of the call in replacements of the event.  *)
(* LiveKit, the token server and the homeserver are external.                 *)
(***************************************************************************)
EXTENDS Integers, Sequences, SequencesExt, FiniteSets

CONSTANTS
  Calls,        (* the calls a user makes                                     *)
  Impatient,    (* the user may end a call that is still being started         *)
  Repeats,        (* a page makes a second call                                 *)
  Leaves,       (* the page may drop the hook during a call                    *)
  StatusFails,  (* the request that reports the start may fail                 *)
  MaxFails,     (* bound: failures                                            *)
  MaxReloads    (* bound: reloads of the page                                 *)

LiveCallAssumption ==
  {Impatient, Repeats, Leaves, StatusFails} \subseteq BOOLEAN /\ {MaxFails, MaxReloads} \subseteq Nat

None == "none"
Off == [started |-> FALSE, connecting |-> FALSE, visible |-> FALSE]
NoRoom == [of |-> None, key |-> None]
NoEvent == [status |-> None, startedAt |-> None, endedAt |-> None]

VARIABLES
  event,      (* the content of a call's event, NoEvent before                *)
  changes,    (* the new contents that replace it, in the homeserver's order   *)
  rows,       (* table calls                                                 *)
  requests,   (* updates on their way: [id, call, status, at]                 *)
  ref,        (* currentCallRef                                              *)
  key,        (* the call whose key the key provider holds                     *)
  details,    (* the call the connection details were fetched for              *)
  fetching,   (* calls whose details onDisconnected fetches                    *)
  room,       (* the LiveKit room: [of, key]                                  *)
  shown,      (* sessionStarted, isConnecting, sessionViewVisible              *)
  start,      (* callAgent and startCall: [pc, call, known]                    *)
  end,        (* endCall                                                     *)
  fails, reloads

stored == <<event, changes, rows>>
hook == <<ref, key, details, fetching, room, shown, start, end>>
callsVars == <<stored, requests, hook, fails, reloads>>
bounds == <<fails, reloads>>

Fail == fails < MaxFails /\ fails' = fails + 1 /\ UNCHANGED reloads

-----------------------------------------------------------------------------
(* The server (calls.service).                                               *)

ValidTransition(from, to) ==
  \/ from = "pending" /\ to \in {"active", "ended"}
  \/ from = "active" /\ to = "ended"

(* buildUpdatedCallContent for what the client sends: the status with its time. *)
BuildUpdatedCallContent(content, status) ==
  [content EXCEPT !.status = status,
                  !.startedAt = IF status = "active" THEN "joined" ELSE @,
                  !.endedAt = IF status = "ended" THEN "left" ELSE @]
TimestampsAreValid(content) ==
  /\ content.status \in {"active", "ended"} => content.startedAt # None
  /\ content.status = "ended" => content.endedAt # None

(* updateCall: the event is the one the call was created with, whatever has      *)
(* replaced it since.                                                         *)
UpdateCall(r) ==
  LET new == BuildUpdatedCallContent(event[r.call], r.status) IN
  /\ r.at = "server" /\ event[r.call] # NoEvent
  /\ IF ValidTransition(event[r.call].status, r.status) /\ TimestampsAreValid(new)
     THEN /\ changes' = [changes EXCEPT ![r.call] = Append(@, new)]
          /\ requests' = (requests \ {r}) \cup {[r EXCEPT !.at = "done"]}
     ELSE UNCHANGED changes /\ requests' = (requests \ {r}) \cup {[r EXCEPT !.at = "failed"]}
  /\ UNCHANGED <<event, rows, hook, bounds>>
RequestFails(r) ==
  /\ r.at \in {"server", "done"} /\ (r.status = "active" => StatusFails) /\ Fail
  /\ requests' = (requests \ {r}) \cup {[r EXCEPT !.at = "failed"]}
  /\ UNCHANGED <<stored, hook>>

(* listCalls shows an event with its latest replacement.                       *)
ListCalls(c) == IF changes[c] = << >> THEN event[c] ELSE Last(changes[c])

-----------------------------------------------------------------------------
(* onDisconnected of the room, by either side.                                *)
OnDisconnected ==
  /\ shown' = Off
  /\ IF ref = None THEN UNCHANGED <<details, fetching>>
     ELSE details' = None /\ fetching' = fetching \cup {ref}

Disconnected ==
  /\ room # NoRoom /\ room' = NoRoom /\ OnDisconnected
  /\ UNCHANGED <<stored, requests, ref, key, start, end, bounds>>
Fetched(c) ==
  /\ c \in fetching /\ fetching' = fetching \ {c}
  /\ \/ details' = c /\ UNCHANGED bounds
     \/ Fail /\ UNCHANGED details
  /\ UNCHANGED <<stored, requests, ref, key, room, shown, start, end>>

(* callAgent: the details its startCall will use are those of the last render.  *)
CallAgent(c) ==
  /\ start.pc = "idle" /\ end = "idle" /\ room = NoRoom /\ event[c] = NoEvent
  /\ ~Repeats => key = None /\ ref = None
  /\ start' = [pc |-> "create", call |-> c, known |-> details]
  /\ UNCHANGED <<stored, requests, ref, key, details, fetching, room, shown, end, bounds>>

Goto(pc) == start' = [start EXCEPT !.pc = pc]
CreateCallMxEvent ==
  /\ start.pc = "create" /\ Goto("sync")
  /\ event' = [event EXCEPT ![start.call] =
       [status |-> "pending", startedAt |-> "created", endedAt |-> None]]
  /\ UNCHANGED <<changes, rows, requests, ref, key, details, fetching, room, shown, end, bounds>>
SyncCall ==
  /\ start.pc = "sync" /\ Goto("start") /\ rows' = rows \cup {start.call}
  /\ UNCHANGED <<event, changes, requests, ref, key, details, fetching, room, shown, end, bounds>>
CallFails ==
  /\ start.pc \in {"create", "sync"} /\ Fail /\ Goto("idle")
  /\ UNCHANGED <<stored, requests, ref, key, details, fetching, room, shown, end>>

StartCall ==
  /\ start.pc = "start" /\ Goto("key") /\ ref' = start.call
  /\ shown' = [shown EXCEPT !.started = TRUE, !.connecting = TRUE]
  /\ UNCHANGED <<stored, requests, key, details, fetching, room, end, bounds>>
SetKey ==
  /\ start.pc = "key" /\ key' = start.call
  /\ IF start.known = None THEN Goto("fetch") /\ details' = None
     ELSE Goto("connect") /\ UNCHANGED details
  /\ UNCHANGED <<stored, requests, ref, fetching, room, shown, end, bounds>>
FetchConnectionDetails ==
  /\ start.pc = "fetch" /\ details' = start.call
  /\ start' = [start EXCEPT !.pc = "connect", !.known = start.call]
  /\ UNCHANGED <<stored, requests, ref, key, fetching, room, shown, end, bounds>>
(* The microphone is set up next; it may fail, and the call goes on.           *)
Connect ==
  /\ start.pc = "connect" /\ Goto("report")
  /\ room' = [of |-> start.known, key |-> key]
  /\ shown' = [shown EXCEPT !.visible = TRUE, !.connecting = FALSE]
  /\ UNCHANGED <<stored, requests, ref, key, details, fetching, end, bounds>>
Report ==
  /\ start.pc = "report" /\ Goto("reporting")
  /\ requests' = requests \cup {[id |-> "start", call |-> start.call,
                                 status |-> "active", at |-> "server"]}
  /\ UNCHANGED <<stored, ref, key, details, fetching, room, shown, end, bounds>>

(* catch: the page shows no call; the room is left as it is.                   *)
Catch == shown' = Off /\ ref' = None /\ Goto("idle")
StepFails ==
  /\ start.pc \in {"key", "fetch", "connect"} /\ Fail /\ Catch
  /\ UNCHANGED <<stored, requests, key, details, fetching, room, end>>
Reported ==
  \E r \in requests :
    /\ start.pc = "reporting" /\ r.id = "start" /\ r.at \in {"done", "failed"}
    /\ requests' = requests \ {r}
    /\ IF r.at = "failed" THEN Catch ELSE Goto("idle") /\ UNCHANGED <<shown, ref>>
    /\ UNCHANGED <<stored, key, details, fetching, room, end, bounds>>

-----------------------------------------------------------------------------
(* endCall: the room first, then the status of the call in the ref.            *)
EndCall ==
  /\ end = "idle" /\ (ref # None \/ room # NoRoom) /\ (Impatient \/ start.pc = "idle")
  /\ end' = "leave"
  /\ IF room = NoRoom THEN shown' = Off /\ UNCHANGED <<details, fetching, room>>
     ELSE room' = NoRoom /\ OnDisconnected
  /\ UNCHANGED <<stored, requests, ref, key, start, bounds>>
Left ==
  /\ end = "leave"
  /\ IF ref = None THEN end' = "idle" /\ UNCHANGED requests
     ELSE /\ end' = "report"
          /\ requests' = requests \cup {[id |-> "end", call |-> ref,
                                         status |-> "ended", at |-> "server"]}
  /\ UNCHANGED <<stored, ref, key, details, fetching, room, shown, start, bounds>>
Ended ==
  \E r \in requests :
    /\ end = "report" /\ r.id = "end" /\ r.at \in {"done", "failed"}
    /\ requests' = requests \ {r} /\ end' = "idle"
    /\ ref' = IF r.at = "failed" THEN ref ELSE None
    /\ UNCHANGED <<stored, key, details, fetching, room, shown, start, bounds>>

(* The page is loaded again: the hook begins anew, its requests go on.  Another    *)
(* view that takes its place disconnects nothing.                             *)
Reload ==
  /\ reloads < MaxReloads /\ reloads' = reloads + 1
  /\ ref' = None /\ key' = None /\ details' = None /\ fetching' = {} /\ shown' = Off
  /\ start' = [pc |-> "idle", call |-> None, known |-> None] /\ end' = "idle"
  /\ requests' = {[r EXCEPT !.id = "gone"] : r \in requests}
  /\ room' \in {NoRoom} \cup (IF Leaves THEN {room} ELSE {})
  /\ UNCHANGED <<stored, fails>>

-----------------------------------------------------------------------------
Init ==
  /\ event = [c \in Calls |-> NoEvent] /\ changes = [c \in Calls |-> << >>] /\ rows = {}
  /\ requests = {} /\ ref = None /\ key = None /\ details = None /\ fetching = {}
  /\ room = NoRoom /\ shown = Off /\ end = "idle" /\ fails = 0 /\ reloads = 0
  /\ start = [pc |-> "idle", call |-> None, known |-> None]

Next ==
  \/ \E c \in Calls : CallAgent(c) \/ Fetched(c)
  \/ CreateCallMxEvent \/ SyncCall \/ CallFails \/ StartCall \/ SetKey
  \/ FetchConnectionDetails \/ Connect \/ Report \/ StepFails \/ Reported
  \/ Disconnected \/ EndCall \/ Left \/ Ended \/ Reload
  \/ \E r \in requests : UpdateCall(r) \/ RequestFails(r)

Spec == Init /\ [][Next]_callsVars

-----------------------------------------------------------------------------
TypeOK ==
  /\ ref \in Calls \cup {None} /\ room.of \in Calls \cup {None} /\ fetching \subseteq Calls
  /\ \A c \in Calls : \A i \in DOMAIN changes[c] : changes[c][i].status \in {"active", "ended"}

(* A call that ended stays ended (validTransitions: "Cannot transition from       *)
(* ended state"), and nobody is in its room.                                   *)
EndedStays ==
  \A c \in Calls : \A i, j \in DOMAIN changes[c] :
    i < j /\ changes[c][i].status = "ended" => changes[c][j].status = "ended"
EndedIsLeft ==
  \A c \in Calls : changes[c] # << >> /\ ListCalls(c).status = "ended" => room.of # c

(* The caller is in the room of the call whose key it holds, and a microphone     *)
(* that is heard belongs to a call that the page shows or is about to end.       *)
OwnRoom == room # NoRoom => room.of = room.key
HeardIsShown ==
  room # NoRoom => shown.started \/ shown.visible \/ start.pc # "idle" \/ end # "idle"

(* A call with a status is one the server lists.                              *)
ChangedIsListed == \A c \in Calls : changes[c] # << >> => c \in rows
=============================================================================
