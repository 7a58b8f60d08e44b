----------------------------- MODULE ChatClient -----------------------------
(***************************************************************************)
(* The chat of the client SDK: useChat, useSendMessage and OracleChat      *)
(* (packages/oracles-client-sdk/src/hooks/use-chat/v2).  One hook shows    *)
(* one session at a time.  A message is shown at once, its answer is read  *)
(* from a stream chunk by chunk, and when the stream ends the session's    *)
(* messages are fetched again; what the fetch brings replaces what is      *)
(* shown, unless a message is being sent.  The user can stop an answer     *)
(* and can change to another session.                                      *)
(***************************************************************************)
EXTENDS Naturals, FiniteSets, SequencesExt

CONSTANTS
  Sessions,     \* the user's sessions
  Requests,     \* the messages the user may send
  None,         \* no request, no list
  Chunks,       \* the chunks of a whole answer
  Stops,        \* the user may stop an answer
  MaxEvents     \* bound: changes of session, stops and failures

VARIABLES
  session,      \* the session on the screen (the hook's sessionId)
  status,       \* OracleChat's status: ready, busy (submitted, streaming), error
  shown,        \* OracleChat's messages
  send,         \* request -> what its mutation waits for, and its session
  read,         \* request -> chunks read from its stream
  cut,          \* requests whose stream was given up by the client
  controller,   \* abortControllerRef: the request it belongs to
  aborting,     \* the stop whose call to the oracle is in flight
  thrown,       \* a stop that failed with a TypeError
  server,       \* session -> messages the oracle has stored
  run,          \* request -> the oracle's run: none, on, stored, stopped
  fetch,        \* session -> the fetch in flight: none, asked, or what it read
  cache,        \* session -> the query's data
  failed,       \* sessions whose last fetch failed (the query's status)
  events,
  hasty         \* history: "sent" before isSending had cleared or the history was
                \* loaded, "left" a session before its answer was in, or "no"

vars == <<session, status, shown, send, read, cut, controller, aborting, thrown,
          server, run, fetch, cache, failed, events, hasty>>

Human(r) == [who |-> "human", req |-> r, size |-> 1]
Answer(r, n) == [who |-> "answer", req |-> r, size |-> n]
Live(r, n) == [who |-> "stream", req |-> r, size |-> n]   \* while it is read

Same(m, n) == m.who = n.who /\ m.req = n.req
At(list, m) == {i \in DOMAIN list : Same(list[i], m)}

NoFetch == [pc |-> "none", list |-> <<>>]
Asked == [pc |-> "asked", list |-> <<>>]
Mutations == {"new", "delegation", "asking", "reading", "closing", "refetching", "over"}

(***************************************************************************)
(* The hook mounts on one of the sessions and fetches its messages.        *)
(***************************************************************************)
Init ==
  /\ session \in Sessions
  /\ status = "ready"
  /\ shown = <<>>
  /\ send = [r \in Requests |-> [pc |-> "new", in |-> session]]
  /\ read = [r \in Requests |-> 0]
  /\ cut = {}
  /\ controller = None
  /\ aborting = None
  /\ thrown = FALSE
  /\ server = [s \in Sessions |-> <<>>]
  /\ run = [r \in Requests |-> "none"]
  /\ fetch = [s \in Sessions |-> IF s = session THEN Asked ELSE NoFetch]
  /\ cache = [s \in Sessions |-> None]
  /\ failed = {}
  /\ events = 0 /\ hasty = "no"

Count == hasty = "no" /\ events < MaxEvents /\ events' = events + 1
Step(r, pc) == send' = [send EXCEPT ![r].pc = pc]
Pending == \E r \in Requests : send[r].pc \notin {"new", "over"}
Busy == status = "busy"

(***************************************************************************)
(* refetchMessages: a fetch in flight is dropped for a new one, or joined  *)
(* while the query has no data yet.                                        *)
(***************************************************************************)
Refetched(s) ==
  IF fetch[s].pc # "none" /\ cache[s] = None THEN fetch ELSE [fetch EXCEPT ![s] = Asked]

------------------------------------------------------------------------------
(* Sending.                                                                 *)

MaySend == ~Pending /\ ~Busy /\ cache[session] # None /\ session \notin failed

(* sendMessage: the message is pushed to what is shown before it is sent.   *)
Send(r) ==
  /\ send[r].pc = "new"
  /\ hasty = "no"    \* bound: nothing is sent, opened or broken once the user was hasty
  /\ hasty' = IF MaySend THEN "no" ELSE "sent"
  /\ send' = [send EXCEPT ![r] = [pc |-> "delegation", in |-> session]]
  /\ shown' = Append(shown, Human(r))
  /\ status' = "busy"
  /\ UNCHANGED <<session, read, cut, controller, aborting, thrown, server, run, fetch,
                 cache, failed, events>>

(* The delegation is there: the request gets its abort controller.          *)
Ask(r) ==
  /\ send[r].pc = "delegation"
  /\ Step(r, "asking")
  /\ controller' = r
  /\ UNCHANGED <<session, status, shown, read, cut, aborting, thrown, server, run, fetch,
                 cache, failed, events, hasty>>

(* The oracle accepts the message, stores it and answers with a stream.     *)
Serve(r) ==
  /\ send[r].pc = "asking" /\ r \notin cut
  /\ Step(r, "reading")
  /\ run' = [run EXCEPT ![r] = "on"]
  /\ server' = [server EXCEPT ![send[r].in] = Append(@, Human(r))]
  /\ UNCHANGED <<session, status, shown, read, cut, controller, aborting, thrown, fetch,
                 cache, failed, events, hasty>>

(***************************************************************************)
(* upsertAIMessage: the chunk is added to the message that has the         *)
(* request's id, or starts it at the end of what is shown.  Answers that   *)
(* were fetched have ids of their own.                                     *)
(***************************************************************************)
UpsertAIMessage(r) ==
  LET mine == At(shown, Live(r, 0)) IN
  IF mine = {} THEN Append(shown, Live(r, 1))
  ELSE [i \in DOMAIN shown |-> IF i \in mine THEN Live(r, shown[i].size + 1) ELSE shown[i]]

OnMessage(r) ==
  /\ send[r].pc = "reading" /\ r \notin cut
  /\ read[r] < Chunks
  /\ run[r] \in {"on", "stored"}
  /\ read' = [read EXCEPT ![r] = @ + 1]
  /\ shown' = UpsertAIMessage(r)
  /\ UNCHANGED <<session, status, send, cut, controller, aborting, thrown, server, run,
                 fetch, cache, failed, events, hasty>>

(* The oracle stores the whole answer before it ends the stream.            *)
StoreAnswer(r) ==
  /\ run[r] = "on"
  /\ run' = [run EXCEPT ![r] = "stored"]
  /\ server' = [server EXCEPT ![send[r].in] = Append(@, Answer(r, Chunks))]
  /\ UNCHANGED <<session, status, shown, send, read, cut, controller, aborting, thrown,
                 fetch, cache, failed, events, hasty>>

(* The done event, after the last chunk or after the oracle stopped the run. *)
OnDone(r) ==
  /\ send[r].pc = "reading" /\ r \notin cut
  /\ \/ run[r] = "stored" /\ read[r] = Chunks
     \/ run[r] = "stopped"
  /\ Step(r, "closing")
  /\ status' = "ready"
  /\ controller' = None
  /\ UNCHANGED <<session, shown, read, cut, aborting, thrown, server, run, fetch, cache,
                 failed, events, hasty>>

(* The stream is closed: finally clears the controller and refetches.       *)
Finally(r) ==
  /\ Step(r, "refetching")
  /\ controller' = None
  /\ fetch' = Refetched(session)
  /\ UNCHANGED <<session, shown, read, aborting, thrown, server, run, cache, failed, hasty>>

Close(r) ==
  /\ send[r].pc = "closing"
  /\ status' = "ready"
  /\ Finally(r)
  /\ UNCHANGED <<cut, events>>

(* The controller of the request was aborted.                               *)
Stopped(r) ==
  /\ send[r].pc \in {"asking", "reading"} /\ r \in cut
  /\ status' = "ready"
  /\ Finally(r)
  /\ UNCHANGED <<cut, events>>

(* A delegation that cannot be had, a claim to be paid, a lost connection.  *)
Fail(r) ==
  /\ send[r].pc \in {"delegation", "asking", "reading"} /\ r \notin cut
  /\ Count
  /\ status' \in (IF send[r].pc = "asking" THEN {"ready", "error"} ELSE {"error"})
  /\ cut' = cut \cup {r}
  /\ Finally(r)

(* The refetch the mutation waits for has ended.                            *)
Settle(r) ==
  /\ send[r].pc = "refetching"
  /\ fetch[session].pc = "none"
  /\ Step(r, "over")
  /\ UNCHANGED <<session, status, shown, read, cut, controller, aborting, thrown, server,
                 run, fetch, cache, failed, events, hasty>>

------------------------------------------------------------------------------
(* Stopping.                                                                *)

(* abortStream: the oracle is told first.                                   *)
Abort ==
  /\ Stops /\ Count
  /\ controller # None /\ aborting = None
  /\ aborting' = controller
  /\ UNCHANGED <<session, status, shown, send, read, cut, controller, thrown, server, run,
                 fetch, cache, failed, hasty>>

(* The oracle stops the run of the session, or finds that the client left.  *)
StopRun(r) ==
  /\ run[r] = "on"
  /\ (aborting # None /\ send[r].in = session) \/ r \in cut
  /\ run' = [run EXCEPT ![r] = "stopped"]
  /\ UNCHANGED <<session, status, shown, send, read, cut, controller, aborting, thrown,
                 server, fetch, cache, failed, events, hasty>>

(***************************************************************************)
(* The call has returned, or failed: the controller that is current by     *)
(* then is aborted.  There may be none any more, which is not looked at.   *)
(***************************************************************************)
AbortReturns ==
  /\ aborting # None
  /\ aborting' = None
  /\ IF controller = None
     THEN thrown' = TRUE /\ UNCHANGED <<cut, controller, status>>
     ELSE /\ cut' = cut \cup {controller}
          /\ controller' = None
          /\ status' = "ready"
          /\ UNCHANGED thrown
  /\ UNCHANGED <<session, shown, send, read, server, run, fetch, cache, failed, events, hasty>>

------------------------------------------------------------------------------
(* The query of the session's messages.                                     *)

FetchRead(s) ==
  /\ fetch[s].pc = "asked"
  /\ fetch' = [fetch EXCEPT ![s] = [pc |-> "read", list |-> server[s]]]
  /\ UNCHANGED <<session, status, shown, send, read, cut, controller, aborting, thrown,
                 server, run, cache, failed, events, hasty>>

(* Plausible bugs of what follows, for the mutation runs. *)
Synced_busy(s, list) == IF s = session /\ (cache[s] # list \/ s \in failed) THEN list ELSE shown

(***************************************************************************)
(* The effect of useChat runs when the data or the status of the shown     *)
(* session's query has changed: equal data keeps its identity.  It leaves  *)
(* what is shown alone while a message is being sent.                      *)
(***************************************************************************)
Synced(s, list) ==
  IF s = session /\ ~Busy /\ (cache[s] # list \/ s \in failed) THEN list ELSE shown

FetchArrives(s) ==
  /\ fetch[s].pc = "read"
  /\ fetch' = [fetch EXCEPT ![s] = NoFetch]
  /\ cache' = [cache EXCEPT ![s] = fetch[s].list]
  /\ failed' = failed \ {s}
  /\ shown' = Synced(s, fetch[s].list)
  /\ UNCHANGED <<session, status, send, read, cut, controller, aborting, thrown, server,
                 run, events, hasty>>

FetchFails(s) ==
  /\ fetch[s].pc = "asked"
  /\ Count
  /\ fetch' = [fetch EXCEPT ![s] = NoFetch]
  /\ failed' = failed \cup {s}
  /\ UNCHANGED <<session, status, shown, send, read, cut, controller, aborting, thrown,
                 server, run, cache, hasty>>

(***************************************************************************)
(* The hook is rendered with another session: a new OracleChat, which      *)
(* starts with the data the query still has, and a fetch of its own.       *)
(***************************************************************************)
Opened(s) == IF cache[s] = None \/ s \in failed THEN <<>> ELSE cache[s]

Switch(s) ==
  /\ s # session
  /\ hasty' = IF Pending THEN "left" ELSE "no"
  /\ Count
  /\ session' = s
  /\ status' = "ready"
  /\ shown' = Opened(s)
  /\ fetch' = IF fetch[s].pc = "none" THEN [fetch EXCEPT ![s] = Asked] ELSE fetch
  /\ UNCHANGED <<send, read, cut, controller, aborting, thrown, server, run, cache, failed>>

------------------------------------------------------------------------------
Next ==
  \/ \E r \in Requests :
       \/ Send(r) \/ Ask(r) \/ Serve(r) \/ OnMessage(r) \/ StoreAnswer(r) \/ OnDone(r)
       \/ Close(r) \/ Stopped(r) \/ Fail(r) \/ Settle(r) \/ StopRun(r)
  \/ Abort \/ AbortReturns
  \/ \E s \in Sessions :
       FetchRead(s) \/ FetchArrives(s) \/ FetchFails(s) \/ Switch(s)

Spec == Init /\ [][Next]_vars

------------------------------------------------------------------------------
(* The chat's state.                                                        *)
Items == {Human(r) : r \in Requests} \cup {Answer(r, Chunks) : r \in Requests}
         \cup {Live(r, n) : r \in Requests, n \in 1..Chunks}

TypeOK ==
  /\ session \in Sessions
  /\ status \in {"ready", "busy", "error"}
  /\ Range(shown) \subseteq Items
  /\ send \in [Requests -> [pc : Mutations, in : Sessions]]
  /\ read \in [Requests -> 0..Chunks]
  /\ cut \subseteq Requests
  /\ {controller, aborting} \subseteq Requests \cup {None}
  /\ thrown \in BOOLEAN /\ hasty \in {"no", "sent", "left"}
  /\ \A s \in Sessions :
       /\ Range(server[s]) \subseteq Items
       /\ cache[s] = None \/ Range(cache[s]) \subseteq Items
       /\ Range(fetch[s].list) \subseteq Items
  /\ run \in [Requests -> {"none", "on", "stored", "stopped"}]
  /\ failed \subseteq Sessions

(***************************************************************************)
(* The answer that is being read is on the screen once, after its message, *)
(* and with every chunk that was read: no fetch that ends in the meantime  *)
(* takes it away or doubles it (the effect of useChat, upsertAIMessage).   *)
(* The user has not sent or left the session before an answer was in,      *)
(* which nothing in the hook prevents.                                     *)
(***************************************************************************)
StreamIsWhole ==
  \A r \in Requests :
    send[r].pc = "reading" /\ r \notin cut /\ read[r] > 0 =>
      \/ hasty # "no"
      \/ \E i, j \in DOMAIN shown :
           /\ i < j /\ shown[i] = Human(r) /\ shown[j] = Live(r, read[r])
           /\ At(shown, Live(r, 0)) = {j}

(***************************************************************************)
(* Only messages of the session on the screen are shown in it, whatever    *)
(* fetches of other sessions are still in flight, unless the user has left *)
(* one while its answer was read.                                          *)
(***************************************************************************)
OwnSession == hasty # "left" => \A i \in DOMAIN shown : send[shown[i].req].in = session

(***************************************************************************)
(* When nothing is being sent or fetched any more, every message the       *)
(* oracle has stored in the session is on the screen, in the order it was  *)
(* stored.  Left out are a session whose last fetch failed and the answer  *)
(* of a stream the client gave up, which may be stored after the fetch.    *)
(* An answer that was read whole may stay as the stream has left it; and   *)
(* the user did not send before the last answer was in.                    *)
(***************************************************************************)
Owed(s) == SelectSeq(server[s], LAMBDA m : m.who = "answer" => m.req \notin cut)

Stored == [i \in DOMAIN shown |->
             IF shown[i].who = "stream" THEN Answer(shown[i].req, shown[i].size) ELSE shown[i]]

NothingHidden ==
  hasty # "sent" /\ ~Pending /\ fetch[session].pc = "none" /\ session \notin failed =>
    SelectSeq(Stored, LAMBDA m : m \in Range(Owed(session))) = Owed(session)

(***************************************************************************)
(* A stop never fails in the client: abortStream calls the oracle and      *)
(* then the controller it was pressed for.                                 *)
(***************************************************************************)
StopIsClean == ~thrown

=============================================================================
