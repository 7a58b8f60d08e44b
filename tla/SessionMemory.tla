---------------------------- MODULE SessionMemory ----------------------------
(***************************************************************************)
(* A user's chat sessions and the memory engine that learns from them.     *)
(* Three services share the user's `sessions' table: SessionsService       *)
(* creates and deletes rows, MessagesService writes a row back after every *)
(* answer (performPostMessageSync), and SessionHistoryProcessor sends the  *)
(* messages the memory engine has not seen and counts them in the row.     *)
(* Most of it is fire-and-forget, so that a request has returned while its *)
(* background tasks still read and write the row; each of them holds a     *)
(* reference (markUserActive) that keeps the user's database open.  Slack  *)
(* finds the session of a Slack thread through the same rows.              *)
(*                                                                         *)
(* A task is one asynchronous chain of calls; its steps are the stretches  *)
(* between two awaits.  A conversation is its number of messages.          *)
(***************************************************************************)
EXTENDS Integers, Sequences, FiniteSets, SequencesExt

CONSTANTS
    NoRow,          \* no such session
    MaxSessions,    \* bound: sessions ever created
    MaxEvents,      \* bound: requests of the user, failed calls and lapsed entries
    MaxTurns,       \* bound: answered questions of a session
    MaxRetries      \* attempts of the history processor (3 in the code)

SessionAssumption ==
    /\ {MaxSessions, MaxEvents, MaxTurns, MaxRetries} \subseteq Nat
    /\ MaxRetries > 0

VARIABLES
    table,      \* session -> its row, or NoRow
    recent,     \* the sessions by last_updated_at, the newest first
    talk,       \* session -> messages in its checkpoint
    memory,     \* session -> how often the memory engine got each message (0, 1, 2 = more)
    lock,       \* sessions with a processing:session:<id> entry in the cache
    refs,       \* the user's active count in the storage service
    tasks,      \* the tasks that run
    thread,     \* the cached session of the Slack thread, 0 if none
    events      \* requests and faults so far

vars == <<table, recent, talk, memory, lock, refs, tasks, thread, events>>

Ids == 1..MaxSessions
MaxLen == 2 * MaxTurns
Row == [done : 0..MaxLen, slack : BOOLEAN]
Exists(s) == table[s] # NoRow
(* A new session takes an id that nothing refers to.                       *)
Made == {s \in Ids : \/ Exists(s) \/ talk[s] > 0 \/ s \in lock \/ s = thread
                     \/ \E t \in tasks : t.s = s}

(* A task is named by the request it goes back to and by its kind.          *)
Task(op, kind, at, s) ==
    [op |-> op, kind |-> kind, at |-> at, s |-> s, seen |-> 0, upto |-> 0, tries |-> 1]
At(t, kind, at) == t.kind = kind /\ t.at = at

(* The state in which the model starts: one session, made by createSession, *)
(* with one answered question the memory engine has not seen.               *)
Init ==
    /\ table = [s \in Ids |-> IF s = 1 THEN [done |-> 0, slack |-> FALSE] ELSE NoRow]
    /\ recent = <<1>>
    /\ talk = [s \in Ids |-> IF s = 1 THEN 2 ELSE 0]
    /\ memory = [s \in Ids |-> [n \in 1..MaxLen |-> 0]]
    /\ lock = {} /\ refs = 0 /\ tasks = {} /\ thread = 0 /\ events = 0

-----------------------------------------------------------------------------
(* Bookkeeping of tasks and rows.                                           *)

Becomes(t, u) == tasks' = (tasks \ {t}) \union {u}
Goto(t, at) == Becomes(t, [t EXCEPT !.at = at])
Event == events < MaxEvents /\ events' = events + 1
(* The name of a new request: one that no running task goes back to.       *)
Op == CHOOSE n \in 1..(events + 1) : /\ \A t \in tasks : t.op # n
                                     /\ \A m \in 1..(n - 1) : \E t \in tasks : t.op = m
Newest(s) == <<s>> \o SelectSeq(recent, LAMBDA x : x # s)

(* markUserActive is called before a background task is started, and the   *)
(* task's finally calls markUserInactive.                                  *)
Launch(new) == /\ tasks' = tasks \union new
               /\ refs' = refs + Cardinality(new)
Retire(t) == /\ tasks' = tasks \ {t}
             /\ refs' = refs - 1
(* A task that ends by starting a background task of its own.              *)
HandOver(t, u) == /\ Becomes(t, u)
                  /\ refs' = refs + 1 - 1

-----------------------------------------------------------------------------
(* SessionsService                                                         *)

(* createSession: the history of the previous session is processed in the  *)
(* background while the new session is made.                               *)
CreateSession ==
    /\ Event
    /\ Launch({Task(Op, "create", "insert", 0), Task(Op, "previous", "list", 0)})
    /\ UNCHANGED <<table, recent, talk, memory, lock, thread>>

(* The id of a session is the event of its first message in the room; the  *)
(* row is inserted by syncSessionSet.                                      *)
Insert(s, slack) ==
    /\ s \in Ids \ Made
    /\ table' = [table EXCEPT ![s] = [done |-> 0, slack |-> slack]]
    /\ recent' = Newest(s)

InsertSession(t) ==
    /\ At(t, "create", "insert")
    /\ \E s \in Ids : /\ \A x \in 1..(s - 1) : x \in Made
                      /\ Insert(s, FALSE)
    /\ Retire(t)
    /\ UNCHANGED <<talk, memory, lock, thread, events>>

(* processPreviousSessionHistory takes the most recently updated session,  *)
(* whichever that is by the time the list is read.                         *)
ListPrevious(t) ==
    /\ At(t, "previous", "list")
    /\ IF recent = << >>
       THEN Retire(t)
       ELSE HandOver(t, Task(t.op, "history", "lock", Head(recent)))
    /\ UNCHANGED <<table, recent, talk, memory, lock, thread, events>>

(* deleteSession starts the processing of the session it then deletes.     *)
DeleteSession(s) ==
    /\ Event
    /\ Exists(s)
    /\ Launch({Task(Op, "delete", "delete", s), Task(Op, "history", "lock", s)})
    /\ UNCHANGED <<table, recent, talk, memory, lock, thread>>

DeleteRow(t) ==
    /\ At(t, "delete", "delete")
    /\ table' = [table EXCEPT ![t.s] = NoRow]
    /\ recent' = SelectSeq(recent, LAMBDA x : x # t.s)
    /\ Retire(t)
    /\ UNCHANGED <<talk, memory, lock, thread, events>>

-----------------------------------------------------------------------------
(* MessagesService: one question, and the write-back of its session's row. *)

SendMessage(s) ==
    /\ Event
    /\ Exists(s)
    /\ Launch({Task(Op, "chat", "prepare", s)})
    /\ UNCHANGED <<table, recent, talk, memory, lock, thread>>

(* prepareForQuery reads the row, and with it the count it will write back *)
PrepareForQuery(t) ==
    /\ At(t, "chat", "prepare")
    /\ LET s == t.s IN
       IF Exists(s)
       THEN /\ Becomes(t, [t EXCEPT !.seen = table[s].done, !.at = "answer"])
            /\ UNCHANGED refs
       ELSE Retire(t)                                     \* Session not found
    /\ UNCHANGED <<table, recent, talk, memory, lock, thread, events>>

(* The question and its answer are in the checkpoint; the background sync  *)
(* takes its own reference before the request gives up the one it holds.   *)
Answer(t) ==
    /\ At(t, "chat", "answer")
    /\ LET s == t.s IN
       /\ talk[s] + 2 <= MaxLen
       /\ talk' = [talk EXCEPT ![s] = @ + 2]
       /\ HandOver(t, [Task(t.op, "sync", "load", s) EXCEPT !.seen = t.seen])
    /\ UNCHANGED <<table, recent, memory, lock, thread, events>>

(* syncSessionSet reads the row, then waits for the model to make a title  *)
(* if it has none; tries = 0 marks that there was no row.                  *)
LoadSession(t) ==
    /\ At(t, "sync", "load")
    /\ Becomes(t, [t EXCEPT !.tries = IF Exists(t.s) THEN 1 ELSE 0, !.at = "save"])
    /\ UNCHANGED <<table, recent, talk, memory, lock, refs, thread, events>>

(* What the write-back stores: the count of the request it belongs to and  *)
(* no Slack thread, for performPostMessageSync passes none.                *)
Updated(seen) == [done |-> seen, slack |-> FALSE]

(* UPDATE if there was a row (no effect if it has been deleted since), an  *)
(* INSERT if there was none (it fails if there is one now).                *)
SaveSession(t) ==
    /\ At(t, "sync", "save")
    /\ LET s == t.s IN
       \/ /\ t.tries = 1 /\ Exists(s)
          /\ table' = [table EXCEPT ![s] = Updated(t.seen)]
          /\ recent' = Newest(s)
       \/ /\ t.tries = 0 /\ ~Exists(s)
          /\ table' = [table EXCEPT ![s] = [done |-> 0, slack |-> FALSE]]
          /\ recent' = Newest(s)
       \/ /\ (t.tries = 1) # Exists(s)
          /\ UNCHANGED <<table, recent>>
    /\ Retire(t)
    /\ UNCHANGED <<talk, memory, lock, thread, events>>

(* A request or a background sync fails before it has written anything:    *)
(* the room cannot be reached, the graph throws, no title can be made.     *)
StepFails(t) ==
    /\ <<t.kind, t.at>> \in {<<"create", "insert">>, <<"slack", "insert">>, <<"previous", "list">>,
                            <<"chat", "answer">>, <<"sync", "save">>}
    /\ Event
    /\ Retire(t)
    /\ UNCHANGED <<table, recent, talk, memory, lock, thread>>

-----------------------------------------------------------------------------
(* SessionHistoryProcessor                                                 *)

(* processSessionHistory looks for the lock and, an await later, takes it. *)
LookForLock(t) ==
    /\ At(t, "history", "lock")
    /\ IF t.s \in lock
       THEN Retire(t)
       ELSE Goto(t, "claim") /\ UNCHANGED refs
    /\ UNCHANGED <<table, recent, talk, memory, lock, thread, events>>

TakeLock(t) ==
    /\ At(t, "history", "claim")
    /\ lock' = lock \union {t.s}
    /\ Goto(t, "read")
    /\ UNCHANGED <<table, recent, talk, memory, refs, thread, events>>

ReadSession(t) ==
    /\ At(t, "history", "read")
    /\ LET s == t.s IN
       IF Exists(s) THEN Becomes(t, [t EXCEPT !.seen = table[s].done, !.at = "fetch"])
                    ELSE Goto(t, "unlock")       \* Session not found, skipping
    /\ UNCHANGED <<table, recent, talk, memory, lock, refs, thread, events>>

FetchMessages(t) ==
    /\ At(t, "history", "fetch")
    /\ LET n == talk[t.s] IN
       IF n > t.seen THEN Becomes(t, [t EXCEPT !.upto = n, !.at = "send"])
                     ELSE Goto(t, "unlock")
    /\ UNCHANGED <<table, recent, talk, memory, lock, refs, thread, events>>

(* processConversationHistory: the messages after the count are posted.    *)
Fresh(t) == (t.seen + 1)..t.upto

Send(t) ==
    /\ At(t, "history", "send")
    /\ LET s == t.s IN
       memory' = [memory EXCEPT ![s] =
                    [n \in 1..MaxLen |-> IF n \in Fresh(t) /\ @[n] < 2 THEN @[n] + 1 ELSE @[n]]]
    /\ Goto(t, "count")
    /\ UNCHANGED <<table, recent, talk, lock, refs, thread, events>>

(* lastProcessedCount := lastProcessedCount + newMessages.length           *)
Counted_all(t) == talk[t.s]
Counted(t) == t.upto

UpdateLastProcessedCount(t) ==
    /\ At(t, "history", "count")
    /\ LET s == t.s IN
       table' = IF Exists(s) THEN [table EXCEPT ![s].done = Counted(t)] ELSE table
    /\ Goto(t, "unlock")
    /\ UNCHANGED <<recent, talk, memory, lock, refs, thread, events>>

(* An attempt fails before it has sent, or after, when it counts;          *)
(* the next attempt starts over, and the last one's error ends the task.   *)
Retried(t) == IF t.tries < MaxRetries THEN [t EXCEPT !.tries = @ + 1, !.at = "read"]
                                      ELSE [t EXCEPT !.at = "unlock"]

AttemptFails(t) ==
    /\ t.kind = "history" /\ t.at \in {"read", "fetch", "send", "count"}
    /\ Event
    /\ Becomes(t, Retried(t))
    /\ UNCHANGED <<table, recent, talk, memory, lock, refs, thread>>

(* The finally: the lock is removed, whoever holds it by now.              *)
Unlock(t) ==
    /\ At(t, "history", "unlock")
    /\ lock' = lock \ {t.s}
    /\ Retire(t)
    /\ UNCHANGED <<table, recent, talk, memory, thread, events>>

(* The entry of the lock lives for 5 minutes.                              *)
LockLapses(s) ==
    /\ Event
    /\ s \in lock
    /\ lock' = lock \ {s}
    /\ UNCHANGED <<table, recent, talk, memory, refs, tasks, thread>>

-----------------------------------------------------------------------------
(* SlackService: getOrCreateSessionPerThread, then sendMessage.            *)

(* A message of the thread finds the cached session, or the row that names *)
(* the thread, or else makes a session of its own.  (It counts as two of   *)
(* MaxEvents.)                                                             *)
SlackMessage ==
    /\ events + 1 < MaxEvents /\ events' = events + 2
    /\ LET named == {s \in Ids : Exists(s) /\ table[s].slack} IN
       \/ /\ thread # 0
          /\ Launch({Task(Op, "chat", "prepare", thread)})
          /\ UNCHANGED thread
       \/ /\ thread = 0 /\ named # {}
          /\ \E s \in named : thread' = s /\ Launch({Task(Op, "chat", "prepare", s)})
       \/ /\ thread = 0 /\ named = {}
          /\ Launch({Task(Op, "slack", "insert", 0), Task(Op, "previous", "list", 0)})
          /\ UNCHANGED thread
    /\ UNCHANGED <<table, recent, talk, memory, lock>>

(* createSession for the thread, cached, and the message goes to it.       *)
SlackSession(t) ==
    /\ At(t, "slack", "insert")
    /\ \E s \in Ids : /\ \A x \in 1..(s - 1) : x \in Made
                      /\ Insert(s, TRUE)
                      /\ thread' = s
                      /\ Becomes(t, Task(t.op, "chat", "prepare", s))
    /\ UNCHANGED <<talk, memory, lock, refs, events>>

(* The cached session of a thread lives for 5 minutes.                     *)
ThreadLapses ==
    /\ thread # 0
    /\ Event
    /\ thread' = 0
    /\ UNCHANGED <<table, recent, talk, memory, lock, refs, tasks>>

-----------------------------------------------------------------------------

Next ==
    \/ CreateSession \/ SlackMessage \/ ThreadLapses
    \/ \E s \in Ids : DeleteSession(s) \/ SendMessage(s) \/ LockLapses(s)
    \/ \E t \in tasks :
        \/ InsertSession(t) \/ ListPrevious(t) \/ DeleteRow(t) \/ SlackSession(t)
        \/ PrepareForQuery(t) \/ Answer(t)
        \/ LoadSession(t) \/ SaveSession(t) \/ StepFails(t)
        \/ LookForLock(t) \/ TakeLock(t) \/ ReadSession(t) \/ FetchMessages(t)
        \/ Send(t) \/ UpdateLastProcessedCount(t) \/ AttemptFails(t) \/ Unlock(t)

Spec == Init /\ [][Next]_vars

-----------------------------------------------------------------------------
(* Properties                                                              *)

TypeOK ==
    /\ table \in [Ids -> Row \union {NoRow}]
    /\ Range(recent) = {s \in Ids : Exists(s)} /\ Len(recent) = Cardinality(Range(recent))
    /\ talk \in [Ids -> 0..MaxLen]
    /\ memory \in [Ids -> [1..MaxLen -> 0..2]]
    /\ lock \subseteq Ids /\ refs \in Nat /\ thread \in 0..MaxSessions

(* Every request and every background task holds one reference to the      *)
(* user's database for as long as it runs, and none is left over: the      *)
(* database is not closed under a task, and can be closed when all ended.  *)
HoldsDatabase == refs = Cardinality(tasks)

(* The count of a row never runs ahead of the memory engine: what it       *)
(* covers has been sent, so that no message is skipped for good, although  *)
(* stale counts are written back and attempts fail on either side of the   *)
(* post.                                                                   *)
NothingSkipped ==
    \A s \in Ids : Exists(s) => \A n \in 1..table[s].done : memory[s][n] > 0

(* A lock outlives no processing: when no task works on a session, the     *)
(* session can be processed again without waiting for the entry to lapse.  *)
LockIsReleased ==
    \A s \in lock : \E t \in tasks : t.kind = "history" /\ t.s = s

(* `Uses cache locking to prevent concurrent processing': at most one task *)
(* is between taking the lock of a session and releasing it.               *)
OneProcessor ==
    \A s \in Ids : Cardinality({t \in tasks : /\ t.kind = "history" /\ t.s = s
                                             /\ t.at \notin {"lock", "claim"}}) <= 1

=============================================================================
