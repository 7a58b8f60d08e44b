--------------------------- MODULE RecurringFlow ---------------------------
(***************************************************************************)
(* One recurring flow task (pattern B): a cron scheduler fires deliver     *)
(* jobs, each of which looks up the result of a one-shot work job through  *)
(* TaskMeta.currentWorkJobId, delivers it, and schedules the next work job *)
(* for the following tick.                                                 *)
(*                                                                         *)
(* The processes interleave at every await:                                *)
(*   - work jobs      (WorkProcessor; ids 1..MaxWork, in creation order);  *)
(*   - deliver jobs   (DeliverProcessor; a slot of Delivers per job);      *)
(*   - user operations (the agent's tools calling pauseTask, resumeTask,   *)
(*     cancelTask and updateTask with a new schedule);                     *)
(*   - the answer to an approval request, one atomic step here and         *)
(*     detailed in ApprovalGate.                                           *)
(* A TaskMeta update is one atomic write of the named fields (the task     *)
(* page's Y.Map, one register per field).  getTask answers from a cache of  *)
(* 30 s unless it is told to bypass it; an update invalidates the cache     *)
(* before and after it writes, but a read that overlaps the update may fill *)
(* it with the old metadata afterwards.                                     *)
(***************************************************************************)
EXTENDS Naturals

CONSTANTS
    Delivers,       \* deliver job slots
    Users,          \* processes running a user operation
    Ops,            \* operations a user may start
    MaxWork,        \* bound: work jobs created
    MaxPosts,       \* bound: results posted
    MaxFailures,    \* MAX_CONSECUTIVE_FAILURES
    WorkTries, DeliverTries,  \* BullMQ attempts of the two queues
    RequiresApproval,
    AgentFails,     \* TRUE: a work job's agent run may fail
    MayFail,        \* TRUE: any other awaited call may throw
    Overlap,        \* TRUE: the cron may fire while a deliver job is unfinished
    Stale           \* TRUE: a read may overlap an update and fill the cache

ASSUME FlowAssumption ==
    /\ Ops \subseteq {"pause", "resume", "cancel", "reschedule"}
    /\ {MaxWork, MaxPosts, MaxFailures, WorkTries, DeliverTries} \subseteq Nat \ {0}
    /\ {RequiresApproval, AgentFails, MayFail, Overlap, Stale} \subseteq BOOLEAN

VARIABLES
    meta,       \* TaskMeta: status, consecutiveFailures, currentWorkJobId
                \* (0 = null), bullmqRepeatKey (known or null), and the work job
                \* whose result awaits approval (0 = none); totals are left out
    copies,     \* earlier metadata that a cached read may still return
    cron,       \* the repeatable deliver job is registered in BullMQ
    made,       \* work jobs created so far
    work,       \* the work jobs
    deliver,    \* the deliver jobs
    user,       \* the user operations
    answer,     \* the approved result's delivery: none, or the step it is at
    delivered,  \* history: how often each result was posted to the user
    posted,     \* history: messages posted for the task
    expired,    \* history: results discarded by the approval expiry
    detected,   \* history: deliver attempts that found their work job failed
                \* since consecutiveFailures was last reset
    misled      \* history: what was decided on a copy that was out of date: a
                \* deliver job's lookup, or the key an operation removes

task == <<meta, copies>>
history == <<delivered, posted, expired, detected>>
vars == <<task, cron, made, work, deliver, user, answer, history, misled>>

WorkId == 1..MaxWork
Ref == 0..MaxWork
Live == {"delayed", "active", "counting"}   \* not finished, in BullMQ's eyes

IdleDeliver == [pc |-> "idle", child |-> 0, tries |-> 0, ref |-> 0, got |-> 0,
                sent |-> FALSE, next |-> 0, seen |-> 0]
IdleUser == [pc |-> "idle", op |-> "none", work |-> 0, repeat |-> FALSE]
NewDeliver(child) == [IdleDeliver EXCEPT !.pc = "waiting", !.child = child,
                                         !.tries = DeliverTries]

MetaState == [status : {"active", "paused", "cancelled"}, failures : Nat,
              work : Ref, repeat : BOOLEAN, pending : Ref]
WorkState == [state : Live \cup {"none", "completed", "failed", "removed"},
              tries : 0..WorkTries, skipped : BOOLEAN, seen : Nat]
DeliverState ==
    [pc : {"idle", "waiting", "result", "ask", "send", "mark", "book", "next",
           "add", "store", "failed", "count"},
     child : Ref, tries : 0..DeliverTries, ref : Ref, got : Ref,
     sent : BOOLEAN, next : Ref, seen : Nat]
UserState ==
    [pc : {"idle", "drop", "unschedule", "write", "activate", "reread",
           "schedule", "first", "refs"},
     op : Ops \cup {"none"}, work : Ref, repeat : BOOLEAN]

MetaOK == meta \in MetaState /\ meta.work <= made /\ meta.pending <= made
CopiesOK == \A m \in copies : m \in MetaState /\ m.work <= made /\ m.pending <= made
WorkOK ==
    /\ made \in Ref /\ work \in [WorkId -> WorkState]
    /\ \A w \in WorkId : w > made <=> work[w].state = "none"
DeliverOK ==
    /\ deliver \in [Delivers -> DeliverState]
    /\ \A d \in Delivers : /\ deliver[d].child <= made /\ deliver[d].ref <= made
                           /\ deliver[d].got <= made /\ deliver[d].next <= made
UserOK == user \in [Users -> UserState] /\ \A u \in Users : user[u].work <= made
HistoryOK ==
    /\ delivered \in [WorkId -> Nat] /\ posted \in Nat
    /\ expired \subseteq WorkId
    /\ detected \in Nat
StateOK == MetaOK /\ cron \in BOOLEAN /\ WorkOK /\ DeliverOK /\ UserOK /\ HistoryOK

(* Every variable keeps its type; a work job exists exactly when its number *)
(* was handed out, and the ids TaskMeta and the processes hold are of       *)
(* existing jobs.                                                           *)
TypeOK ==
    /\ StateOK /\ CopiesOK
    /\ answer \in {"none", "book", "clear"} /\ misled \subseteq {"lookup", "key"}

NoWork == [state |-> "none", tries |-> 0, skipped |-> FALSE, seen |-> 0]
FirstWork == [NoWork EXCEPT !.state = "delayed", !.tries = WorkTries]

(* createTask has scheduled the task and stored the scheduler references. *)
Init ==
    /\ meta = [status |-> "active", failures |-> 0, work |-> 1,
               repeat |-> TRUE, pending |-> 0]
    /\ copies = {}
    /\ cron = TRUE
    /\ made = 1
    /\ work = [w \in WorkId |-> IF w = 1 THEN FirstWork ELSE NoWork]
    /\ deliver = [d \in Delivers |-> IdleDeliver]
    /\ user = [u \in Users |-> IdleUser]
    /\ answer = "none" /\ misled = {}
    /\ delivered = [w \in WorkId |-> 0] /\ posted = 0
    /\ expired = {}
    /\ detected = 0

IsRunnable(m) == m.status = "active"
Runnable == IsRunnable(meta)

(* updateTask: the new metadata is stored, and a read under way meanwhile may  *)
(* put the old one back into the cache.                                        *)
Update(m) ==
    /\ meta' = m
    /\ copies' \in IF Stale THEN {{meta} \ {m}, copies \ {m}} ELSE {{}}

(* What getTask returns without bypassCache.  A deliver job or a user         *)
(* operation that acts on a copy with another work job, status or repeat key   *)
(* than the stored one is recorded.                                            *)
Readable == {meta} \cup copies
LookedUp(m) ==
    IF m.work = meta.work /\ m.status = meta.status THEN misled ELSE misled \cup {"lookup"}
KeyRead(m) == IF m.repeat = meta.repeat THEN misled ELSE misled \cup {"key"}

(* The 30 s of every cached copy are over. *)
Lapse ==
    /\ copies # {}
    /\ copies' = {}
    /\ UNCHANGED <<meta, cron, made, work, deliver, user, answer, history, misled>>

In(states) == {w \in WorkId : work[w].state \in states}

(* Results of jobs that found the task stopped.  Mutant: not told apart. *)
Skipped_ignored == {}
Skipped == {w \in In({"completed"}) : work[w].skipped}

(* A message with a result is posted to the task's room (or withheld by the *)
(* notification policy, which settles the result all the same).             *)
Post(w) ==
    /\ posted < MaxPosts
    /\ posted' = posted + 1
    /\ delivered' = [delivered EXCEPT ![w] = @ + 1]

(* scheduleNextWorkJob: workQueue.add under a fresh id.  Mutant: the id of the *)
(* last job is used again.                                                     *)
AddWork_again ==
    /\ made < MaxWork
    /\ made' = made + 1
    /\ work' = [work EXCEPT ![made] = FirstWork]
AddWork ==
    /\ made < MaxWork
    /\ made' = made + 1
    /\ work' = [work EXCEPT ![made'] = FirstWork]

(* Counts are only compared with the limit, so they stop there. *)
CountUp(n) == IF n < MaxFailures THEN n + 1 ELSE n

(* handleJobFailure, second half: the count read earlier is written back, and *)
(* at the limit the status with it.                                           *)
CountFailure(n) ==
    Update([meta EXCEPT !.failures = n,
                        !.status = IF n >= MaxFailures THEN "paused" ELSE @])

-----------------------------------------------------------------------------
(* WorkProcessor *)

StartWork(w) ==
    /\ work[w].state = "delayed"
    /\ \E m \in Readable :
          work' = [work EXCEPT ![w] = IF IsRunnable(m)
                       THEN [@ EXCEPT !.state = "active"]
                       ELSE [@ EXCEPT !.state = "completed", !.skipped = TRUE]]
    /\ UNCHANGED <<task, cron, made, deliver, user, answer, history, misled>>

FinishWork(w) ==
    /\ work[w].state = "active"
    /\ work' = [work EXCEPT ![w].state = "completed"]
    /\ Update([meta EXCEPT !.failures = 0])
    /\ detected' = 0
    /\ UNCHANGED <<cron, made, deliver, user, answer, delivered, posted, expired, misled>>

(* The agent run, or the update after it, throws; handleJobFailure reads. *)
FailWork(w) ==
    /\ AgentFails
    /\ work[w].state = "active"
    /\ work' = [work EXCEPT ![w].state = "counting", ![w].seen = CountUp(meta.failures)]
    /\ UNCHANGED <<task, cron, made, deliver, user, answer, history, misled>>

CountWorkFailure(w) ==
    /\ work[w].state = "counting"
    /\ CountFailure(work[w].seen)
    /\ work' = [work EXCEPT ![w].tries = @ - 1, ![w].seen = 0,
                            ![w].state = IF work[w].tries = 1 THEN "failed" ELSE "delayed"]
    /\ UNCHANGED <<cron, made, deliver, user, answer, history, misled>>

-----------------------------------------------------------------------------
(* DeliverProcessor *)

CronTick(d) ==
    /\ cron
    /\ deliver[d].pc = "idle"
    /\ Overlap \/ \A e \in Delivers : deliver[e].pc = "idle" \/ deliver[e].child # 0
    /\ deliver' = [deliver EXCEPT ![d] = NewDeliver(0)]
    /\ UNCHANGED <<task, cron, made, work, user, answer, history, misled>>

End(d) == deliver' = [deliver EXCEPT ![d] = IdleDeliver]
Goto(d, pc) == deliver' = [deliver EXCEPT ![d].pc = pc]

TriesLeft(d) == deliver[d].tries - 1

Exhausted(d) == TriesLeft(d) = 0

(* The job throws: BullMQ runs it again, with its progress, while tries last. *)
Again(d) ==
    [IdleDeliver EXCEPT !.pc = "waiting", !.child = deliver[d].child,
                        !.tries = TriesLeft(d), !.sent = deliver[d].sent]
Throw(d) ==
    deliver' = [deliver EXCEPT ![d] = IF Exhausted(d) THEN IdleDeliver ELSE Again(d)]

(* A worker takes the job (a parent only once its child has completed).  The  *)
(* metadata read here, from the cache, is used until the next-work step.      *)
StartDeliver(d) ==
    /\ deliver[d].pc = "waiting"
    /\ deliver[d].child # 0 => work[deliver[d].child].state = "completed"
    /\ \E m \in Readable :
          /\ misled' = LookedUp(m)
          /\ IF IsRunnable(m)
             THEN deliver' = [deliver EXCEPT ![d].pc = "result", ![d].ref = m.work]
             ELSE End(d)
    /\ UNCHANGED <<task, cron, made, work, user, answer, history>>

(* getWorkResult *)
Wanted(d) == IF deliver[d].child # 0 THEN deliver[d].child ELSE deliver[d].ref

WorkUnfinished(d) ==
    /\ deliver[d].pc = "result"
    /\ Wanted(d) \in In(Live)
    /\ Throw(d)
    /\ UNCHANGED <<task, cron, made, work, user, answer, history, misled>>

WorkFailed(d) ==
    /\ deliver[d].pc = "result"
    /\ Wanted(d) \in In({"failed"})
    /\ Throw(d)
    /\ detected' = CountUp(detected)
    /\ UNCHANGED <<task, cron, made, work, user, answer, delivered, posted, expired, misled>>

(* Mutant: a job that was removed is waited for. *)
NoResult_waits(d) ==
    /\ deliver[d].pc = "result"
    /\ Wanted(d) \in {0} \cup Skipped
    /\ Goto(d, "next")
    /\ UNCHANGED <<task, cron, made, work, user, answer, history, misled>>
NoResult(d) ==
    /\ deliver[d].pc = "result"
    /\ Wanted(d) \in {0} \cup In({"removed"}) \cup Skipped
    /\ Goto(d, "next")
    /\ UNCHANGED <<task, cron, made, work, user, answer, history, misled>>

GotResult(d) ==
    /\ deliver[d].pc = "result"
    /\ Wanted(d) \in In({"completed"}) \ Skipped
    /\ deliver' = [deliver EXCEPT
           ![d].got = Wanted(d),
           ![d].pc = IF RequiresApproval THEN "ask"
                     ELSE IF deliver[d].sent THEN "book" ELSE "send"]
    /\ UNCHANGED <<task, cron, made, work, user, answer, history, misled>>

(* requestApproval *)
Ask(d) ==
    /\ deliver[d].pc = "ask"
    /\ Update([meta EXCEPT !.pending = deliver[d].got])
    /\ Goto(d, "next")
    /\ UNCHANGED <<cron, made, work, user, answer, history, misled>>

Send(d) ==
    /\ deliver[d].pc = "send"
    /\ Post(deliver[d].got)
    /\ Goto(d, "mark")
    /\ UNCHANGED <<task, cron, made, work, user, answer, expired, detected, misled>>

(* The job's progress is updated after the message and its session are made. *)
Mark(d) ==
    /\ deliver[d].pc = "mark"
    /\ deliver' = [deliver EXCEPT ![d].pc = "book", ![d].sent = TRUE]
    /\ UNCHANGED <<task, cron, made, work, user, answer, history, misled>>

(* Page row, run event, and the totals; the failures are reset with them. *)
Book(d) ==
    /\ deliver[d].pc = "book"
    /\ Update([meta EXCEPT !.failures = 0])
    /\ detected' = 0
    /\ Goto(d, "next")
    /\ UNCHANGED <<cron, made, work, user, answer, delivered, posted, expired, misled>>

(* The fresh read: a stopped task gets no work job, and one whose result *)
(* awaits approval defers it.                                            *)
WantsNext == Runnable /\ meta.pending = 0

CheckNext(d) ==
    /\ deliver[d].pc = "next"
    /\ IF WantsNext THEN Goto(d, "add") ELSE End(d)
    /\ UNCHANGED <<task, cron, made, work, user, answer, history, misled>>

AddNext(d) ==
    /\ deliver[d].pc = "add"
    /\ AddWork
    /\ deliver' = [deliver EXCEPT ![d].pc = "store", ![d].next = made']
    /\ UNCHANGED <<task, cron, user, answer, history, misled>>

(* Mutant: the id of the new work job is not stored. *)
NextRef_forgotten(d) == meta.work
NextRef(d) == deliver[d].next

StoreNext(d) ==
    /\ deliver[d].pc = "store"
    /\ Update([meta EXCEPT !.work = NextRef(d)])
    /\ End(d)
    /\ UNCHANGED <<cron, made, work, user, answer, history, misled>>

(* An awaited call inside the try throws; handleJobFailure reads the count, *)
(* writes it, and the error is thrown again.                                *)
FailDeliver(d) ==
    /\ MayFail
    /\ deliver[d].pc \in {"ask", "send", "mark", "book", "next", "add", "store"}
    /\ Goto(d, "failed")
    /\ UNCHANGED <<task, cron, made, work, user, answer, history, misled>>

ReadFailures(d) ==
    /\ deliver[d].pc = "failed"
    /\ deliver' = [deliver EXCEPT ![d].pc = "count", ![d].seen = CountUp(meta.failures)]
    /\ UNCHANGED <<task, cron, made, work, user, answer, history, misled>>

CountDeliverFailure(d) ==
    /\ deliver[d].pc = "count"
    /\ CountFailure(deliver[d].seen)
    /\ Throw(d)
    /\ UNCHANGED <<cron, made, work, user, answer, history, misled>>

(* handleJobFailure swallows its own errors. *)
LoseFailure(d) ==
    /\ MayFail
    /\ deliver[d].pc \in {"failed", "count"}
    /\ Throw(d)
    /\ UNCHANGED <<task, cron, made, work, user, answer, history, misled>>

-----------------------------------------------------------------------------
(* The user's answer to an approval request (the lock and the steps of a      *)
(* rejection are detailed in ApprovalGate).  An approved result is sent, the  *)
(* run is booked, and the approval state is cleared whatever failed.          *)

Approve ==
    /\ answer = "none"
    /\ meta.pending # 0
    /\ Post(meta.pending)
    /\ answer' = "book"
    /\ UNCHANGED <<task, cron, made, work, deliver, user, expired, detected, misled>>

BookApproved ==
    /\ answer = "book"
    /\ Update([meta EXCEPT !.failures = 0])
    /\ detected' = 0
    /\ answer' = "clear"
    /\ UNCHANGED <<cron, made, work, deliver, user, delivered, posted, expired, misled>>

(* Sending or booking throws. *)
FailApproved ==
    /\ MayFail
    /\ answer = "book" \/ (answer = "none" /\ meta.pending # 0)
    /\ answer' = "clear"
    /\ UNCHANGED <<task, cron, made, work, deliver, user, history, misled>>

ClearApproved ==
    /\ answer = "clear"
    /\ Update([meta EXCEPT !.pending = 0])
    /\ answer' = "none"
    /\ UNCHANGED <<cron, made, work, deliver, user, history, misled>>

(* A rejection queues a retry flow, a deliver job waiting for its own child, *)
(* whose id becomes the current one.                                         *)
Reject(d) ==
    /\ answer = "none"
    /\ meta.pending # 0
    /\ deliver[d].pc = "idle"
    /\ AddWork
    /\ deliver' = [deliver EXCEPT ![d] = NewDeliver(made')]
    /\ Update([meta EXCEPT !.work = made', !.pending = 0])
    /\ UNCHANGED <<cron, user, answer, history, misled>>

(* The circuit breaker: the task is paused, its jobs are not cancelled. *)
RejectAndPause ==
    /\ answer = "none"
    /\ meta.pending # 0
    /\ Update([meta EXCEPT !.status = "paused", !.pending = 0])
    /\ UNCHANGED <<cron, made, work, deliver, user, answer, history, misled>>

(* The expiry takes no lock. *)
Expire ==
    /\ meta.pending # 0
    /\ expired' = expired \cup {meta.pending}
    /\ Update([meta EXCEPT !.pending = 0])
    /\ UNCHANGED <<cron, made, work, deliver, user, answer, delivered, posted, detected, misled>>

-----------------------------------------------------------------------------
(* User operations *)

UserGo(u, pc) == user' = [user EXCEPT ![u].pc = pc]

(* The status guard of pauseTask, resumeTask and cancelTask, and the         *)
(* references: both come from the cached read.                               *)
Begin(u, op, statuses, pc) ==
    /\ op \in Ops
    /\ user[u].pc = "idle"
    /\ \E m \in Readable :
          /\ misled' = KeyRead(m)
          /\ m.status \in statuses
          /\ user' = [user EXCEPT ![u] = [pc |-> pc, op |-> op, work |-> m.work,
                                          repeat |-> m.repeat]]
    /\ UNCHANGED <<task, cron, made, work, deliver, answer, history>>

PauseTask(u) == Begin(u, "pause", {"active"}, "drop")
CancelTask(u) == Begin(u, "cancel", {"active", "paused"}, "drop")
ResumeTask(u) == Begin(u, "resume", {"paused"}, "activate")
(* updateTaskSchedule tests no status. *)
UpdateTaskSchedule(u) ==
    Begin(u, "reschedule", {"active", "paused", "cancelled"}, "reread")

Activate(u) ==
    /\ user[u].pc = "activate"
    /\ Update([meta EXCEPT !.status = "active"])
    /\ UserGo(u, "reread")
    /\ UNCHANGED <<cron, made, work, deliver, answer, history, misled>>

Reread(u) ==
    /\ user[u].pc = "reread"
    /\ \E m \in Readable :
          /\ misled' = KeyRead(m)
          /\ user' = [user EXCEPT ![u].pc = "drop", ![u].work = m.work,
                                  ![u].repeat = m.repeat]
    /\ UNCHANGED <<task, cron, made, work, deliver, answer, history>>

(* cancelAllJobsForTask is best effort: an active job is locked and stays, a  *)
(* finished one is left alone, and an error is only logged.                   *)
DropWork(u) ==
    LET w == user[u].work IN
    /\ user[u].pc = "drop"
    /\ \/ /\ w \in In({"delayed"})
          /\ work' = [work EXCEPT ![w].state = "removed"]
       \/ /\ w \notin In({"delayed"}) \/ MayFail
          /\ UNCHANGED work
    /\ UserGo(u, "unschedule")
    /\ UNCHANGED <<task, cron, made, deliver, answer, history, misled>>

(* The scheduler is removed when its key is known.  Mutant: the key is not *)
(* passed on.                                                               *)
KnowsKey_never(u) == FALSE
KnowsKey(u) == user[u].repeat

DropCron(u) ==
    /\ user[u].pc = "unschedule"
    /\ \/ KnowsKey(u) /\ cron' = FALSE
       \/ ~KnowsKey(u) /\ UNCHANGED cron
       \/ MayFail /\ UNCHANGED cron
    /\ UserGo(u, IF user[u].op \in {"pause", "cancel"} THEN "write" ELSE "schedule")
    /\ UNCHANGED <<task, made, work, deliver, answer, history, misled>>

WriteStop(u) ==
    /\ user[u].pc = "write"
    /\ Update([meta EXCEPT !.status = IF user[u].op = "pause" THEN "paused" ELSE "cancelled",
                           !.repeat = FALSE, !.work = 0])
    /\ user' = [user EXCEPT ![u] = IdleUser]
    /\ UNCHANGED <<cron, made, work, deliver, answer, history, misled>>

(* scheduleRecurringFlow *)
ScheduleCron(u) ==
    /\ user[u].pc = "schedule"
    /\ cron' = TRUE
    /\ UserGo(u, "first")
    /\ UNCHANGED <<task, made, work, deliver, answer, history, misled>>

AddFirst(u) ==
    /\ user[u].pc = "first"
    /\ AddWork
    /\ user' = [user EXCEPT ![u].pc = "refs", ![u].work = made']
    /\ UNCHANGED <<task, cron, deliver, answer, history, misled>>

(* Mutant: the work job's id is not part of the update. *)
FirstRef_forgotten(u) == meta.work
FirstRef(u) == user[u].work

StoreRefs(u) ==
    /\ user[u].pc = "refs"
    /\ Update([meta EXCEPT !.work = FirstRef(u), !.repeat = TRUE])
    /\ user' = [user EXCEPT ![u] = IdleUser]
    /\ UNCHANGED <<cron, made, work, deliver, answer, history, misled>>

(* A call of the operation throws, and the tool reports the error. *)
FailUser(u) ==
    /\ MayFail
    /\ user[u].pc \in {"write", "activate", "reread", "schedule", "first", "refs"}
    /\ user' = [user EXCEPT ![u] = IdleUser]
    /\ UNCHANGED <<task, cron, made, work, deliver, answer, history, misled>>

-----------------------------------------------------------------------------
WorkNext == \E w \in WorkId :
    StartWork(w) \/ FinishWork(w) \/ FailWork(w) \/ CountWorkFailure(w)

DeliverStep(d) ==
    \/ StartDeliver(d) \/ WorkUnfinished(d) \/ WorkFailed(d) \/ NoResult(d)
    \/ GotResult(d) \/ Ask(d) \/ Send(d) \/ Mark(d) \/ Book(d) \/ CheckNext(d)
    \/ AddNext(d) \/ StoreNext(d) \/ FailDeliver(d) \/ ReadFailures(d)
    \/ CountDeliverFailure(d) \/ LoseFailure(d)

AnswerNext ==
    \/ Approve \/ BookApproved \/ FailApproved \/ ClearApproved
    \/ Expire \/ RejectAndPause \/ \E d \in Delivers : Reject(d)

UserStep(u) ==
    \/ PauseTask(u) \/ CancelTask(u) \/ ResumeTask(u) \/ UpdateTaskSchedule(u)
    \/ Activate(u) \/ Reread(u) \/ DropWork(u) \/ DropCron(u) \/ WriteStop(u)
    \/ ScheduleCron(u) \/ AddFirst(u) \/ StoreRefs(u) \/ FailUser(u)

Next ==
    \/ WorkNext
    \/ \E d \in Delivers : CronTick(d) \/ DeliverStep(d)
    \/ AnswerNext
    \/ \E u \in Users : UserStep(u)
    \/ Lapse

Spec == Init /\ [][Next]_vars

(* BullMQ runs every due job, the cron fires again and again, and an       *)
(* operation that has begun is carried on (none has to begin).              *)
FairSpec ==
    /\ Spec
    /\ \A w \in WorkId : WF_vars(StartWork(w)) /\ WF_vars(FinishWork(w))
    /\ \A d \in Delivers : WF_vars(CronTick(d)) /\ WF_vars(DeliverStep(d))
    /\ \A u \in Users : WF_vars(user[u].pc # "idle" /\ UserStep(u))

-----------------------------------------------------------------------------
(* Properties *)

UsersIdle == \A u \in Users : user[u].pc = "idle"
DeliversIdle == \A d \in Delivers : deliver[d].pc = "idle"

(* A result reaches the user at most once: the next occurrence looks up a   *)
(* newer work job, whatever pauses, resumes and reschedules come between    *)
(* the lookup and the update of currentWorkJobId, and whatever copies the   *)
(* operations read; only a deliver job that itself looked up a copy left in *)
(* the cache by a read that overlapped an update may deliver again.         *)
DeliveredOnce ==
    "lookup" \notin misled => \A w \in WorkId : delivered[w] <= 1

(* An active task is fed: when no deliver job or user operation is under    *)
(* way, currentWorkJobId names a job that was not cancelled and whose       *)
(* result was not delivered yet, so the next tick has something to deliver  *)
(* (again unless a deliver job looked up a copy that was out of date).      *)
NextRunIsFed ==
    (UsersIdle /\ DeliversIdle /\ Runnable /\ "lookup" \notin misled) =>
        /\ meta.work # 0
        /\ work[meta.work].state # "removed"
        /\ delivered[meta.work] = 0

(* The stored repeat key is the only handle on the cron: when no operation  *)
(* is under way a registered scheduler has its key in TaskMeta, so that a   *)
(* later pause or cancel can remove it, and a cancelled task has none left. *)
(* A status or work reference that is out of date when it is read does no   *)
(* harm; an operation that was shown another key than the stored one does.  *)
KeyIsKept ==
    (UsersIdle /\ cron /\ "key" \notin misled) => meta.repeat /\ meta.status # "cancelled"

(* No empty result: what is posted, or put up for approval, comes from a work *)
(* job that ran the agent, never from one that found the task stopped.        *)
NoEmptyResult ==
    \A w \in WorkId : (delivered[w] > 0 \/ meta.pending = w) =>
        work[w].state = "completed" /\ ~work[w].skipped

(* Runs go on: every work job that is scheduled has its result delivered in  *)
(* the end, unless the task is stopped (the last one only exists at the      *)
(* bound).                                                                   *)
RunsGoOn ==
    \A w \in 1..MaxWork - 1 : (made >= w) ~> (delivered[w] > 0 \/ ~Runnable)

(* A deliver job ends within its attempts, whatever fails, unless it waits   *)
(* for the child of a retry flow (or the bound stops it).                    *)
DeliverJobsEnd ==
    \A d \in Delivers : (deliver[d].pc # "idle" /\ deliver[d].child = 0)
        ~> (deliver[d].pc = "idle" \/ made = MaxWork)

(* What the texts of the repository say, and the code does not do. *)

(* "The next scheduled run will produce a new result" (approval.service.ts,  *)
(* 498): a result discarded on expiry is not put up for approval again.      *)
FreshResult == meta.pending \notin expired

(* ORA-165, 1216: every deliver attempt that detects a failed work job       *)
(* increments consecutiveFailures.                                           *)
FailedWorkCounted == detected <= meta.failures
=============================================================================
