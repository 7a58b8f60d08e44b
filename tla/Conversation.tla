----------------------------- MODULE Conversation -----------------------------
(***************************************************************************)
(* Questions to one chat session: MessagesService.sendMessage with and     *)
(* without a stream, the abort controllers, and the checkpoints in which   *)
(* SqliteSaver keeps the conversation.                                     *)
(*                                                                         *)
(* The graph loads the thread's newest checkpoint, adds the question, and  *)
(* puts a new checkpoint after every step; a put starts when its id is     *)
(* drawn and lands an await later, in the order of its own run only.  The  *)
(* saver takes the messages out of a checkpoint and stores each in one row *)
(* of its own, keyed by the message id, so that a put moves the rows of    *)
(* the messages it shares with older checkpoints to the new one.           *)
(***************************************************************************)
EXTENDS Integers, Sequences, FiniteSets, Functions

CONSTANTS
    Requests,   \* the requests of the session, 1..N
    Keep,       \* messages a summary leaves as they are
    MaxFaults,  \* bound: aborts, disconnections, failures and restarts
    MaxAfter,   \* bound: the same, once questions overlapped
    Delegates   \* bound: requests that call a sub-agent, once questions overlapped

ConversationAssumption ==
    /\ Requests \subseteq Nat \ {0} /\ IsFiniteSet(Requests)
    /\ Keep \in Nat \ {0} /\ MaxFaults \in Nat /\ MaxAfter \in Nat

None == 0
Threads == {"session", "subagent"}

VARIABLES
    rows,       \* the messages table in the order of its rowids
    points,     \* thread -> the ids of its checkpoints
    clock,      \* checkpoint ids grow with the time they are drawn
    run,        \* request -> where it is, and the messages its graph holds
    puts,       \* request -> its puts that have not landed, the oldest first
    controller, \* abortControllers of the session: a request or None
    sent,       \* request -> the events its stream has written
    mirror,     \* the answers posted to the room
    faults,
    together,   \* history: a question was asked while the run of another went on
    second      \* history: the streams that began while another's went on

history == <<together, second>>
vars == <<rows, points, clock, run, puts, controller, sent, mirror, faults, history>>

Fault == faults < (IF together THEN MaxAfter ELSE MaxFaults) /\ faults' = faults + 1

(* Messages: the question of a request, its answer (a second one when it   *)
(* runs again after an error), the task and report of a sub-agent, and the *)
(* summary of what came before.                                            *)
Question(r) == 10 * r
Reply(r) == 10 * r + (IF run[r].again THEN 2 ELSE 1)
Report(r) == <<10 * r + 4, 10 * r + 5>>
SummaryOf(r) == 10 * r + 7
IsSummary(m) == m % 10 = 7

Init ==
    /\ rows = << >> /\ points = [t \in Threads |-> {}] /\ clock = 1
    /\ run = [r \in Requests |-> [at |-> "idle", stream |-> FALSE, again |-> FALSE,
                                  aborted |-> FALSE, messages |-> << >>]]
    /\ puts = [r \in Requests |-> << >>]
    /\ controller = None
    /\ sent = [r \in Requests |-> << >>]
    /\ mirror = {} /\ faults = 0
    /\ together = FALSE /\ second = {}

-----------------------------------------------------------------------------
(* SqliteSaver                                                             *)

Newest(t) == CHOOSE c \in points[t] : \A d \in points[t] : d <= c

(* getTuple without a checkpoint id: the messages of the newest one.       *)
GetTuple(t) ==
    LET ids[n \in 0..Len(rows)] ==
          IF n = 0 THEN << >>
          ELSE IF rows[n].thread = t /\ rows[n].point = Newest(t)
               THEN Append(ids[n - 1], rows[n].id) ELSE ids[n - 1]
    IN  IF points[t] = {} THEN << >> ELSE ids[Len(rows)]

(* The rows of a checkpoint, one of each of its messages.                  *)
RowsOf(t, c, messages) == [i \in DOMAIN messages |-> [id |-> messages[i], thread |-> t, point |-> c]]

(* The rows of a table without those of the given messages.                *)
Without(table, messages) ==
    LET upto[n \in 0..Len(table)] ==
          IF n = 0 THEN << >>
          ELSE IF table[n].id \in Range(messages)
               THEN upto[n - 1] ELSE Append(upto[n - 1], table[n])
    IN  upto[Len(table)]

Stored_ignored(table, t, c, messages) ==
    LET of == [i \in DOMAIN table |-> table[i].id]
    IN  table \o RowsOf(t, c, SelectSeq(messages, LAMBDA m : m \notin Range(of)))

(* put: one transaction stores the checkpoint and INSERTs OR REPLACEs the  *)
(* row of each of its messages, which takes it to the end of the table.    *)
Stored(table, t, c, messages) == Without(table, messages) \o RowsOf(t, c, messages)

Put(t, c, messages) ==
    /\ rows' = Stored(rows, t, c, messages)
    /\ points' = [points EXCEPT ![t] = @ \union {c}]

-----------------------------------------------------------------------------
(* sendMessage                                                             *)

At(r, at) == run[r].at = at
Running(r) == run[r].at \notin {"idle", "over"}
Quiet(r) == puts[r] = << >>

(* A stream has begun, and goes on.                                        *)
Streaming(r) == Running(r) /\ run[r].stream /\ ~At(r, "register")

(* A question arrives; everything up to the start of the graph or of the   *)
(* stream is awaited, so that other requests can come first.               *)
Ask(r, stream) ==
    /\ At(r, "idle")
    /\ \A q \in Requests : q < r => ~At(q, "idle")
    /\ run' = [run EXCEPT ![r].at = IF stream THEN "register" ELSE "load", ![r].stream = stream]
    /\ together' = (together \/ \E q \in Requests : Running(q) \/ ~Quiet(q))
    /\ UNCHANGED <<rows, points, clock, puts, controller, sent, mirror, faults, second>>

(* The stream begins: a request of the session that is still registered is *)
(* aborted, and this one takes its place.                                  *)
Register(r) ==
    /\ At(r, "register")
    /\ run' = [q \in Requests |-> IF q = r THEN [run[q] EXCEPT !.at = "load"]
                                  ELSE IF q = controller THEN [run[q] EXCEPT !.aborted = TRUE]
                                  ELSE run[q]]
    /\ controller' = r
    /\ second' = IF \E q \in Requests : Streaming(q) THEN second \union {r} ELSE second
    /\ UNCHANGED <<rows, points, clock, puts, sent, mirror, faults, together>>

(* A superstep ends: an id is drawn and the put of the state is started.   *)
Step(r, messages, at) ==
    /\ run' = [run EXCEPT ![r].messages = messages, ![r].at = at]
    /\ puts' = [puts EXCEPT ![r] = Append(@, [point |-> clock, messages |-> messages])]
    /\ clock' = clock + 1

(* The graph loads the thread and adds the question, in its old place if   *)
(* the thread has it already (the reducer goes by message ids).            *)
Load(r) ==
    /\ At(r, "load") /\ ~run[r].aborted
    /\ LET base == GetTuple("session") IN
       Step(r, IF Question(r) \in Range(base) THEN base ELSE Append(base, Question(r)), "model")
    /\ UNCHANGED <<rows, points, controller, sent, mirror, faults, history>>

(* The summarisation middleware replaces all but the last messages.        *)
Summarised(r) ==
    LET ms == run[r].messages IN <<SummaryOf(r)>> \o SubSeq(ms, Len(ms) - Keep + 1, Len(ms))

Summarise(r) ==
    /\ At(r, "model") /\ ~run[r].aborted
    /\ Len(run[r].messages) > Keep + 1 /\ SummaryOf(r) \notin Range(run[r].messages)
    /\ Step(r, Summarised(r), "model")
    /\ UNCHANGED <<rows, points, controller, sent, mirror, faults, history>>

(* A sub-agent is called: its messages go to a thread of its own in the    *)
(* same tables, one call after the other.                                  *)
CallSubagent(r) ==
    /\ At(r, "model") /\ ~run[r].aborted
    /\ Report(r)[1] \notin {x.id : x \in Range(rows)}
    /\ together => r \in Delegates
    /\ Put("subagent", clock, GetTuple("subagent") \o Report(r))
    /\ clock' = clock + 1
    /\ UNCHANGED <<run, puts, controller, sent, mirror, faults, history>>

(* The model answers; a stream writes the chunks as they come.             *)
Answer(r) ==
    /\ At(r, "model") /\ ~run[r].aborted
    /\ Step(r, Append(run[r].messages, Reply(r)), "end")
    /\ sent' = IF run[r].stream THEN [sent EXCEPT ![r] = Append(@, "message")] ELSE sent
    /\ UNCHANGED <<rows, points, controller, mirror, faults, history>>

(* A put lands.                                                            *)
Land(r) ==
    /\ ~Quiet(r)
    /\ Put("session", Head(puts[r]).point, Head(puts[r]).messages)
    /\ puts' = [puts EXCEPT ![r] = Tail(@)]
    /\ UNCHANGED <<clock, run, controller, sent, mirror, faults, history>>

(* The finally of a stream: whatever controller is registered is removed.  *)
Release(r) == controller' = IF run[r].stream THEN None ELSE controller

Complete_early(r) ==
    /\ At(r, "end") /\ ~run[r].aborted
    /\ mirror' = mirror \union {Reply(r)}
    /\ sent' = IF run[r].stream THEN [sent EXCEPT ![r] = Append(@, "done")] ELSE sent
    /\ run' = [run EXCEPT ![r].at = "over"]
    /\ Release(r)
    /\ UNCHANGED <<rows, points, clock, puts, faults, history>>

(* The run ends when its puts have landed.  The answer is posted to the    *)
(* room, and a stream is told that it is complete.                         *)
Complete(r) ==
    /\ At(r, "end") /\ Quiet(r) /\ ~run[r].aborted
    /\ mirror' = mirror \union {Reply(r)}
    /\ sent' = IF run[r].stream THEN [sent EXCEPT ![r] = Append(@, "done")] ELSE sent
    /\ run' = [run EXCEPT ![r].at = "over"]
    /\ Release(r)
    /\ UNCHANGED <<rows, points, clock, puts, faults, history>>

(* An aborted stream leaves its loop wherever it is, its puts still land;  *)
(* one whose graph had ended already is not told that it is complete.      *)
Leave(r) ==
    /\ Running(r) /\ run[r].aborted
    /\ \/ sent' = [sent EXCEPT ![r] = Append(@, "done")]
       \/ At(r, "end") /\ UNCHANGED sent
    /\ run' = [run EXCEPT ![r].at = "over"]
    /\ Release(r)
    /\ UNCHANGED <<rows, points, clock, puts, mirror, faults, history>>

(* The graph throws, once its puts have landed.  A stream is told so and   *)
(* ended, and then control falls through to the call of the graph without  *)
(* a stream.                                                               *)
Throw(r) ==
    /\ Running(r) /\ ~At(r, "register") /\ Quiet(r) /\ ~run[r].aborted
    /\ Fault
    /\ run' = [run EXCEPT ![r].at = IF run[r].stream THEN "load" ELSE "over",
                          ![r].stream = FALSE, ![r].again = TRUE]
    /\ sent' = IF run[r].stream THEN [sent EXCEPT ![r] = @ \o <<"error", "done">>] ELSE sent
    /\ Release(r)
    /\ UNCHANGED <<rows, points, clock, puts, mirror, history>>

-----------------------------------------------------------------------------
(* The client and the process                                              *)

(* POST /messages/abort                                                    *)
AbortRequest ==
    /\ Fault
    /\ controller # None
    /\ run' = [run EXCEPT ![controller].aborted = TRUE]
    /\ controller' = None
    /\ UNCHANGED <<rows, points, clock, puts, sent, mirror, history>>

(* The response of a stream is closed by the client.                       *)
Disconnect(r) ==
    /\ Fault
    /\ Running(r) /\ run[r].stream /\ ~At(r, "register") /\ ~run[r].aborted
    /\ run' = [run EXCEPT ![r].aborted = TRUE]
    /\ UNCHANGED <<rows, points, clock, puts, controller, sent, mirror, history>>

(* The process restarts: what has not landed is lost.                      *)
Restart ==
    /\ Fault
    /\ run' = [r \in Requests |-> IF Running(r) THEN [run[r] EXCEPT !.at = "over", !.stream = FALSE,
                                                                    !.messages = << >>]
                                                ELSE run[r]]
    /\ puts' = [r \in Requests |-> << >>]
    /\ controller' = None
    /\ UNCHANGED <<rows, points, clock, sent, mirror, history>>

-----------------------------------------------------------------------------

Next ==
    \/ \E r \in Requests :
        \/ \E stream \in BOOLEAN : Ask(r, stream)
        \/ Register(r) \/ Load(r) \/ Summarise(r) \/ CallSubagent(r) \/ Answer(r)
        \/ Land(r) \/ Complete(r) \/ Leave(r) \/ Throw(r) \/ Disconnect(r)
    \/ AbortRequest \/ Restart

Spec == Init /\ [][Next]_vars

-----------------------------------------------------------------------------
(* Properties                                                              *)

(* Messages have one row each, of a checkpoint that exists.                *)
TypeOK ==
    /\ \A x \in Range(rows) : x.thread \in Threads /\ x.point \in points[x.thread]
    /\ Cardinality({x.id : x \in Range(rows)}) = Len(rows)
    /\ clock \in Nat /\ controller \in Requests \union {None}
    /\ together \in BOOLEAN /\ second \subseteq Requests
    /\ DOMAIN run = Requests /\ DOMAIN puts = Requests /\ DOMAIN sent = Requests

(* What getTuple returns is a conversation as ThreadHistory promises it,   *)
(* until a question is asked while the run of another goes on (both build  *)
(* on the same checkpoint, and one of them is lost): although rows move    *)
(* between checkpoints, runs are aborted, fail and are repeated, and the   *)
(* process restarts, no message is lost or misplaced.                      *)
History == INSTANCE ThreadHistory WITH
              history <- [t \in Threads |-> GetTuple(t)], Summary <- IsSummary
KeepsHistory == History!Init /\ [][History!Next \/ together']_([t \in Threads |-> GetTuple(t)])

(* A stream that is working and has not been aborted can be aborted, as    *)
(* POST /messages/abort promises; all but one that began while another of  *)
(* the session went on.  It aborts that one, which when it leaves removes  *)
(* the controller that is registered by then.                              *)
AbortReaches ==
    \A r \in Requests : Streaming(r) /\ ~run[r].aborted => controller = r \/ r \in second

(* A controller that is registered belongs to a request that is running:   *)
(* an abort never reports success for a request that is over.              *)
NoStaleController == controller # None => Running(controller)

(* A stream is told once that it is complete, and nothing after that: not  *)
(* even when an aborted or failed run goes on or is repeated.              *)
DoneIsLast ==
    \A r \in Requests : \A i \in DOMAIN sent[r] : sent[r][i] = "done" => i = Len(sent[r])

(* An answer is posted to the room only when it is in the messages table:  *)
(* what the room shows, the next question can build on after a restart.    *)
PostedIsStored == mirror \subseteq {x.id : x \in Range(rows)}
=============================================================================
