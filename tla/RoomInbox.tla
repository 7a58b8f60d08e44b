------------------------------ MODULE RoomInbox ------------------------------
(* How MessagesService takes the messages of one Matrix room: the thread of   *)
(* each event is looked up, the guard of group rooms decides whether the      *)
(* oracle answers, and events of a thread that follow each other within half  *)
(* a second become one question.  Handlers of events run side by side.        *)
EXTENDS Naturals, Sequences, FiniteSets, SequencesExt

CONSTANTS
    Users,          \* members of the room besides the oracle
    Bot,            \* the oracle
    MaxEvents,      \* bound: messages in the room
    MaxFaults       \* bound: calls that fail, entries that expire, joins of others, restarts

ASSUME InboxAssumption ==
    /\ Bot \notin Users /\ IsFiniteSet(Users)
    /\ {MaxEvents, MaxFaults} \subseteq Nat

VARIABLES
    log,            \* the room: [by, thread, reply, mention], in its order
    direct,         \* the room is a direct chat
    roomType,       \* roomTypeCache: "none", "direct" or "group"
    rootOf,         \* threadRootCache: event -> root, None when absent
    at,             \* event -> where its handler is
    asDirect,       \* events whose handler took the room for a direct chat
    buffer,         \* matrixEventBuffer: thread -> events, << >> when absent
    batches,        \* questions asked of the graph: [thread, events, group, done]
    active,         \* activeBotThreads
    welcomed,       \* welcomedRooms has the room
    greeting,       \* handlers of a join between their check and their message
    greetings,      \* messages they have sent
    misread,        \* an event could not be read
    restarts, faults

caches == <<roomType, rootOf, active>>
handling == <<at, asDirect, buffer, batches>>
welcome == <<welcomed, greeting, greetings>>
vars == <<log, direct, caches, handling, welcome, misread, restarts, faults>>

None == 0
Events == 1..MaxEvents
Posted == DOMAIN log

(* Every variable keeps its type, and a buffer holds events of its thread.    *)
TypeOK ==
    /\ Len(log) <= MaxEvents
    /\ \A e \in Posted : log[e].by \in Users \cup {Bot} /\ {log[e].thread, log[e].reply} \subseteq 0..e - 1
    /\ roomType \in {"none", "direct", "group"}
    /\ rootOf \in [Events -> Events \cup {None}]
    /\ at \in [Events -> {"none", "root", "room", "guard", "session", "buffered", "over"}]
    /\ \A t \in Events : \A e \in Range(buffer[t]) : at[e] = "buffered" /\ rootOf[e] = t
    /\ active \cup asDirect \subseteq Events
    /\ {restarts, faults} \subseteq 0..MaxFaults

Init ==
    /\ log = << >> /\ direct \in BOOLEAN
    /\ roomType = "none" /\ rootOf = [e \in Events |-> None] /\ active = {}
    /\ at = [e \in Events |-> "none"] /\ asDirect = {}
    /\ buffer = [t \in Events |-> << >>] /\ batches = {}
    /\ welcomed = FALSE /\ greeting = 0 /\ greetings = 0
    /\ misread = FALSE /\ restarts = 0 /\ faults = 0

Fault == faults < MaxFaults /\ faults' = faults + 1
Goto(e, place) == at' = [at EXCEPT ![e] = place]

-----------------------------------------------------------------------------
(* The room                                                                   *)

Post(by, thread, reply, mention) ==
    /\ Len(log) < MaxEvents
    /\ log' = Append(log, [by |-> by, thread |-> thread, reply |-> reply, mention |-> mention])

(* A user writes: a message of its own, a reply, or one in a thread, which    *)
(* names the last message there as the one it replies to.                     *)
Starts == {e \in Posted : log[e].thread = None /\ log[e].reply = None}
LastIn(t) == CHOOSE e \in Posted :
               /\ t \in {e, log[e].thread}
               /\ \A d \in Posted : t \in {d, log[d].thread} => d <= e

Say(u, mention) ==
    /\ \/ Post(u, None, None, mention)
       \/ \E p \in Posted : Post(u, None, p, mention)
       \/ \E t \in Starts : Post(u, t, LastIn(t), mention)
    /\ Goto(Len(log'), "root")
    /\ UNCHANGED <<direct, caches, asDirect, buffer, batches, welcome, misread, restarts, faults>>

(* Others join: the room is a group from now on.                              *)
OthersJoin ==
    /\ direct /\ direct' = FALSE
    /\ Fault
    /\ UNCHANGED <<log, caches, handling, welcome, misread, restarts>>

-----------------------------------------------------------------------------
(* handleMessage                                                              *)

(* The thread an event belongs to.                                            *)
Root[e \in Posted] ==
    IF log[e].thread # None THEN log[e].thread
    ELSE IF log[e].reply = None THEN e ELSE Root[log[e].reply]

(* getThreadRoot reads one replied-to event after the other, up to one whose  *)
(* root it knows.                                                             *)
Known(a) == rootOf[a] # None \/ log[a].thread # None \/ log[a].reply = None
Walk[a \in Posted] == IF Known(a) THEN {a} ELSE {a} \cup Walk[log[a].reply]
Top(S) == CHOOSE a \in S : \A b \in S : a <= b

(* Mutant: the event that is replied to counts as the root when it is cached. *)
RootAt_parent(a) == IF rootOf[a] # None THEN a ELSE IF log[a].thread # None THEN log[a].thread ELSE a
RootAt(a) ==
    IF rootOf[a] # None THEN rootOf[a] ELSE IF log[a].thread # None THEN log[a].thread ELSE a

Found(e, path, root) ==
    /\ rootOf' = [x \in Events |-> IF x \in path \cup {e} THEN root ELSE rootOf[x]]
    /\ Goto(e, "room")

(* An event that cannot be read counts as the root of those below it.         *)
GetThreadRoot(e) ==
    /\ at[e] = "root"
    /\ IF log[e].thread # None \/ log[e].reply = None
       THEN Found(e, {}, Root[e]) /\ UNCHANGED <<misread, faults>>
       ELSE LET path == Walk[log[e].reply] IN
            \/ Found(e, path, RootAt(Top(path))) /\ UNCHANGED <<misread, faults>>
            \/ \E a \in {b \in path : rootOf[b] = None} :
                  /\ Fault /\ misread' = TRUE
                  /\ Found(e, {b \in path : b >= a}, a)
    /\ UNCHANGED <<log, direct, roomType, active, asDirect, buffer, batches, welcome, restarts>>

(* The root is read for its session id, and an answer to a pending approval   *)
(* goes to the approval gate.                                                 *)
Leave(e) ==
    /\ at[e] \in {"room", "session"}
    /\ Fault \/ (at[e] = "room" /\ UNCHANGED faults)
    /\ Goto(e, "over")
    /\ UNCHANGED <<log, direct, caches, asDirect, buffer, batches, welcome, misread, restarts>>

(* getCachedRoomInfo: the copy while there is one; a failed look-up counts as *)
(* a direct chat and is not kept.                                             *)
Kind == IF direct THEN "direct" ELSE "group"
GetRoomInfo(kind) ==
    \/ kind = roomType /\ UNCHANGED <<roomType, faults>>
    \/ roomType = "none" /\ kind = Kind /\ roomType' = kind /\ UNCHANGED faults
    \/ roomType = "none" /\ kind = "direct" /\ Fault /\ UNCHANGED roomType

LookAtRoom(e) ==
    /\ at[e] = "room"
    /\ \E kind \in {"direct", "group"} :
          /\ GetRoomInfo(kind)
          /\ Goto(e, IF kind = "direct" THEN "session" ELSE "guard")
          /\ asDirect' = IF kind = "direct" THEN asDirect \cup {e} ELSE asDirect
    /\ UNCHANGED <<log, direct, rootOf, active, buffer, batches, welcome, misread, restarts>>

(* shouldAgentRespond; a look-up that fails counts as "no".                   *)
RepliesToBot(e) == log[e].reply # None /\ log[log[e].reply].by = Bot
BotSpoke(e) == rootOf[e] # e /\ \E d \in Posted :
    log[d].by = Bot /\ rootOf[e] = (IF log[d].thread # None THEN log[d].thread ELSE log[d].reply)

Called(e) == log[e].mention \/ RepliesToBot(e) \/ rootOf[e] \in active \/ BotSpoke(e)

ShouldAgentRespond(e) ==
    /\ at[e] = "guard"
    /\ \/ Goto(e, IF Called(e) THEN "session" ELSE "over") /\ UNCHANGED faults
       \/ ~log[e].mention /\ rootOf[e] \notin active /\ Fault /\ Goto(e, "over")
    /\ active' = IF Called(e) /\ ~log[e].mention /\ BotSpoke(e) /\ ~RepliesToBot(e) /\ faults' = faults
                 THEN active \cup {rootOf[e]} ELSE active
    /\ UNCHANGED <<log, direct, roomType, rootOf, asDirect, buffer, batches, welcome, misread, restarts>>

(* The session exists or is created, then the event joins the buffer of its   *)
(* thread, whose timer starts anew.                                          *)
Buffer(e) ==
    /\ at[e] = "session"
    /\ buffer' = [buffer EXCEPT ![rootOf[e]] = Append(@, e)]
    /\ Goto(e, "buffered")
    /\ UNCHANGED <<log, direct, caches, asDirect, batches, welcome, misread, restarts, faults>>

-----------------------------------------------------------------------------
(* flushMatrixEvents                                                          *)

(* The buffer becomes one question.                                          *)
Flush(t) ==
    /\ buffer[t] # << >>
    /\ buffer' = [buffer EXCEPT ![t] = << >>]
    /\ \E kind \in {"direct", "group"} :
          /\ GetRoomInfo(kind)
          /\ batches' = batches \cup {[thread |-> t, events |-> buffer[t],
                                       group |-> kind = "group", done |-> FALSE]}
    /\ UNCHANGED <<log, direct, rootOf, active, at, asDirect, welcome, misread, restarts>>

Finish(b) == batches' = (batches \ {b}) \cup {[b EXCEPT !.done = TRUE]}

(* The answer goes to the thread, which is active now in a group.             *)
Answer(b) ==
    /\ ~b.done
    /\ Finish(b)
    /\ Post(Bot, b.thread, b.thread, FALSE)
    /\ active' = IF b.group THEN active \cup {b.thread} ELSE active
    /\ Goto(Len(log'), "over")
    /\ UNCHANGED <<direct, roomType, rootOf, asDirect, buffer, welcome, misread, restarts, faults>>

FailAnswer(b) ==
    /\ ~b.done /\ Fault
    /\ Finish(b)
    /\ UNCHANGED <<log, direct, caches, at, asDirect, buffer, welcome, misread, restarts>>

-----------------------------------------------------------------------------
(* handleBotJoinedRoom; a join may be reported more than once.               *)
BotJoined ==
    /\ ~welcomed
    /\ welcomed' = TRUE
    /\ greeting' = greeting + 1
    /\ UNCHANGED <<log, direct, caches, handling, greetings, misread, restarts, faults>>

Greet ==
    /\ greeting > 0 /\ greeting' = greeting - 1
    /\ welcomed' = TRUE
    /\ \/ /\ Post(Bot, None, None, FALSE) /\ Goto(Len(log'), "over")
          /\ greetings' = greetings + 1
          /\ UNCHANGED faults
       \/ Fault /\ UNCHANGED <<log, at, greetings>>
    /\ UNCHANGED <<direct, caches, asDirect, buffer, batches, misread, restarts>>

-----------------------------------------------------------------------------
(* Time and restarts                                                          *)

Expire ==
    /\ Fault
    /\ \/ roomType # "none" /\ roomType' = "none" /\ UNCHANGED active
       \/ \E t \in active : active' = active \ {t} /\ UNCHANGED roomType
    /\ UNCHANGED <<log, direct, rootOf, handling, welcome, misread, restarts>>

Restart ==
    /\ Fault /\ restarts' = restarts + 1
    /\ roomType' = "none" /\ rootOf' = [e \in Events |-> None] /\ active' = {}
    /\ buffer' = [t \in Events |-> << >>]
    /\ at' = [e \in Events |-> IF at[e] \in {"none", "buffered"} THEN at[e] ELSE "over"]
    /\ batches' = {[b EXCEPT !.done = TRUE] : b \in batches}
    /\ welcomed' = FALSE /\ greeting' = 0
    /\ UNCHANGED <<log, direct, asDirect, greetings, misread>>

Handle(e) ==
    GetThreadRoot(e) \/ Leave(e) \/ LookAtRoom(e) \/ ShouldAgentRespond(e) \/ Buffer(e)

Next ==
    \/ \E u \in Users, mention \in BOOLEAN : Say(u, mention)
    \/ OthersJoin
    \/ \E e \in Posted : Handle(e)
    \/ \E t \in Events : Flush(t)
    \/ \E b \in batches : Answer(b) \/ FailAnswer(b)
    \/ BotJoined \/ Greet \/ Expire \/ Restart

Spec == Init /\ [][Next]_vars

-----------------------------------------------------------------------------
(* Whatever is read or cached first, and in whatever order replies, threads   *)
(* and answers are handled, the root of an event is that of its thread, as    *)
(* long as every event could be read.                                         *)
RootsAgree == ~misread => \A e \in Posted : rootOf[e] \in {None, Root[e]}

(* In a group the oracle takes part in a thread only when it was called there: *)
(* some event of the thread mentions it, answers it, or was handled when the  *)
(* room was (or was taken for) a direct chat.                                 *)
Asked(t) == (UNION {Range(b.events) : b \in {c \in batches : c.thread = t}}) \cup Range(buffer[t])
SpeaksWhenCalled ==
    \A t \in Events : Asked(t) # {} =>
        \E d \in Asked(t) : log[d].mention \/ RepliesToBot(d) \/ d \in asDirect

(* An event is part of one question, once: handlers, timers and restarts      *)
(* neither repeat nor (but for a restart) lose one that was buffered.         *)
BatchedOnce ==
    /\ \A b, c \in batches : b.thread = c.thread /\ Range(b.events) \cap Range(c.events) # {} => b = c
    /\ \A t \in Events : \A b \in batches : Range(b.events) \cap Range(buffer[t]) = {}
    /\ restarts = 0 => {e \in Posted : at[e] = "buffered"} = UNION {Asked(t) : t \in Events}

(* A room is greeted once while the process runs, however often its join is   *)
(* reported.                                                                  *)
GreetedOnce == greetings + greeting <= restarts + 1

(* Group rooms (handleMessage, shouldAgentRespond, flushMatrixEvents).         *)
RoomIsHeard == TypeOK /\ RootsAgree /\ SpeaksWhenCalled /\ BatchedOnce /\ GreetedOnce

(* A question is asked in the name of who asks it: "In group rooms, every     *)
(* HumanMessage carries additional_kwargs.senderDid".  The name is that of the *)
(* first event, the text that of the last.                                    *)
SpeakerIsAsker == \A b \in batches : b.group => log[Head(b.events)].by = log[b.events[Len(b.events)]].by
=============================================================================
