---------------------------- MODULE ApprovalGate ----------------------------
(***************************************************************************)
(* The approval gate of the tasks module: a work result is held in Redis   *)
(* until the user answers "yes" or "no" in the task's room, or until the   *)
(* expiry job discards it.                                                 *)
(*                                                                         *)
(* Three kinds of process share the Redis keys, the TaskMeta sidecar and   *)
(* the BullMQ timeout jobs, and interleave at every await:                 *)
(*   - Delivers    : DeliverProcessor jobs inside requestApproval;         *)
(*   - Responders  : chat messages inside tryHandleApprovalResponse /      *)
(*                   handleApprovalResponse (Portal and Matrix alike);     *)
(*   - Expirers    : ApprovalProcessor workers running an expiry job.      *)
(* Only the responders take the Redis lock.                                *)
(***************************************************************************)
EXTENDS Naturals, FiniteSets

CONSTANTS
    Tasks,          \* tasks with requiresApproval = true
    OneShot,        \* those of them without a cron
    Rooms,          \* Matrix rooms
    RoomOf,         \* RoomOf[t]: the task's room (customRoomId or main room)
    Delivers, Responders, Expirers,
    NoTask,         \* absence of a task (a Redis miss)
    MaxRequests,    \* bound: approval requests per task
    MaxRejections,  \* MAX_REJECTION_COUNT
    MayFail,        \* TRUE: an awaited Matrix call or queue operation may throw
    LockMayExpire,  \* TRUE: a handler may outlive the 60 s TTL of its lock
    MaxCrashes      \* bound: process restarts

ASSUME GateAssumption ==
    /\ Tasks # {} /\ NoTask \notin Tasks /\ OneShot \subseteq Tasks
    /\ RoomOf \in [Tasks -> Rooms]
    /\ Responders \cap Expirers = {}
    /\ MaxRequests \in Nat /\ MaxRejections \in Nat \ {0} /\ MaxCrashes \in Nat
    /\ MayFail \in BOOLEAN /\ LockMayExpire \in BOOLEAN

VARIABLES
    meta,       \* TaskMeta: status, pendingApprovalEventId (0 = null), rejectionCount
    result,     \* task:approval:{t}: number of the request stored, 0 = absent
    roomKey,    \* task:approval-room:{room}
    roomRef,    \* task:approval-roomref:{t} present?
    lock,       \* task:approval-lock:{t} present?
    expiry,     \* BullMQ job {t}-approval-expiry (the reminder job only posts a
                \* message and is not represented)
    job,        \* deliver jobs inside requestApproval
    proc,       \* responders and expirers
    requests,   \* requests made so far: a request's number names its message and
                \* the result stored with it, so that a work result put up again by
                \* a retried or later deliver job is a request of its own
    due,        \* scheduled deliver jobs ready to ask for approval (0 or 1)
    retries,    \* retry flows waiting in the queues
    crashes,
    posted,     \* history: requests whose message reached the room
    joined,     \* history: requests put up while an earlier one was still open
    answered,   \* history: how often each stored result was approved or rejected
    retried     \* history: retry flows since the last booked delivery

gateVars == <<result, roomKey, roomRef>>
history == <<posted, joined, answered, retried>>
queues == <<due, retries>>
vars == <<meta, gateVars, lock, expiry, job, proc, requests, queues,
          crashes, history>>

Handlers == Responders \cup Expirers
Request == 0..MaxRequests
JobState == {"none", "delayed", "active", "finished"}

Inside == {"load", "fetch", "send", "book", "reject", "pause", "retry",
           "clear", "wipe", "unpend", "untime", "release"}
Pc == Inside \cup {"idle", "acquire", "discard", "finish"}

IdleJob == [pc |-> "idle", task |-> NoTask, req |-> 0]
(* A handler at pc whose other locals hold nothing that is read again. *)
Fresh(pc, t) == [pc |-> pc, task |-> t, yes |-> FALSE, seen |-> 0, req |-> 0,
                 ref |-> FALSE]
IdleProc == Fresh("idle", NoTask)

MetaState == [status : {"active", "paused", "cancelled", "completed"},
              pending : Request, rejections : Nat]
DeliverState == [pc : {"idle", "rooms", "post", "record", "timeouts", "end"},
                 task : Tasks \cup {NoTask}, req : Request]
HandlerState == [pc : Pc, task : Tasks \cup {NoTask}, yes : BOOLEAN,
                 seen : Nat, req : Request, ref : BOOLEAN]

MetaOK == meta \in [Tasks -> MetaState]

KeysOK ==
    /\ result \in [Tasks -> Request]
    /\ roomKey \in [Rooms -> Tasks \cup {NoTask}]
    /\ roomRef \in [Tasks -> BOOLEAN]
    /\ lock \in [Tasks -> BOOLEAN]

QueuesOK ==
    /\ expiry \in [Tasks -> JobState]
    /\ requests \in [Tasks -> Request]
    /\ due \in [Tasks -> 0..1] /\ retries \in [Tasks -> Nat]
    /\ crashes \in 0..MaxCrashes

JobOK ==
    /\ job \in [Delivers -> DeliverState]
    /\ \A d \in Delivers : job[d].pc # "idle" => job[d].task \in Tasks

ProcOK ==
    /\ proc \in [Handlers -> HandlerState]
    /\ \A p \in Handlers : proc[p].pc # "idle" => proc[p].task \in Tasks

HistoryOK ==
    /\ posted \in [Tasks -> SUBSET Request]
    /\ joined \in [Tasks -> SUBSET Request]
    /\ answered \in [Tasks -> [Request -> Nat]]
    /\ retried \in [Tasks -> Nat]

(* Every variable keeps its type, and a process that is not idle works on a *)
(* task: no handler runs with the locals of an earlier message.             *)
TypeOK == MetaOK /\ KeysOK /\ QueuesOK /\ JobOK /\ ProcOK /\ HistoryOK

Init ==
    /\ meta = [t \in Tasks |-> [status |-> "active", pending |-> 0, rejections |-> 0]]
    /\ result = [t \in Tasks |-> 0]
    /\ roomKey = [r \in Rooms |-> NoTask]
    /\ roomRef = [t \in Tasks |-> FALSE]
    /\ lock = [t \in Tasks |-> FALSE]
    /\ expiry = [t \in Tasks |-> "none"]
    /\ job = [d \in Delivers |-> IdleJob]
    /\ proc = [p \in Handlers |-> IdleProc]
    /\ requests = [t \in Tasks |-> 0]
    /\ due = [t \in Tasks |-> 1]
    /\ retries = [t \in Tasks |-> 0]
    /\ crashes = 0
    /\ posted = [t \in Tasks |-> {}]
    /\ joined = [t \in Tasks |-> {}]
    /\ answered = [t \in Tasks |-> [n \in Request |-> 0]]
    /\ retried = [t \in Tasks |-> 0]

-----------------------------------------------------------------------------
(* DeliverProcessor at the gate.  A cron tick makes a deliver job due at any *)
(* time, an approval pending or not; a rejection queues a retry flow.        *)

CronTick(t) ==
    /\ t \notin OneShot
    /\ due[t] = 0
    /\ due' = [due EXCEPT ![t] = 1]
    /\ UNCHANGED <<meta, gateVars, lock, expiry, job, proc, requests, retries,
                   crashes, history>>

(* Mutant: a retry flow is taken that was never queued. *)
Take_unqueued(t) ==
    /\ retries' = [retries EXCEPT ![t] = @ - 1]
    /\ UNCHANGED due

(* The next deliver job of t leaves its queue. *)
Take(t) ==
    \/ /\ due[t] = 1
       /\ due' = [due EXCEPT ![t] = 0]
       /\ UNCHANGED retries
    \/ /\ retries[t] > 0
       /\ retries' = [retries EXCEPT ![t] = @ - 1]
       /\ UNCHANGED due

(* An approval of t is open: one is recorded, another deliver job is asking *)
(* for one, or an answer has passed the pending check and not yet fetched.  *)
OpenFor(t) ==
    \/ meta[t].pending # 0
    \/ \E d \in Delivers : job[d].task = t
    \/ \E p \in Responders : proc[p].task = t /\ proc[p].pc = "fetch"

StartRequest(d, t) ==
    /\ job[d].pc = "idle"
    /\ Take(t)
    /\ meta[t].status = "active"
    /\ requests[t] < MaxRequests
    /\ requests' = [requests EXCEPT ![t] = @ + 1]
    /\ result' = [result EXCEPT ![t] = requests'[t]]
    /\ job' = [job EXCEPT ![d] = [pc |-> "rooms", task |-> t, req |-> requests'[t]]]
    /\ joined' = [joined EXCEPT ![t] = IF OpenFor(t) THEN @ \cup {requests'[t]} ELSE @]
    /\ UNCHANGED <<meta, roomKey, roomRef, lock, expiry, proc, crashes,
                   posted, answered, retried>>

(* isTaskRunnable fails: the job ends without a request. *)
SkipDeliver(t) ==
    /\ Take(t)
    /\ meta[t].status # "active"
    /\ UNCHANGED <<meta, gateVars, lock, expiry, job, proc, requests, crashes,
                   history>>

StoreRoomKeys(d) ==
    LET t == job[d].task IN
    /\ job[d].pc = "rooms"
    /\ roomKey' = [roomKey EXCEPT ![RoomOf[t]] = t]
    /\ roomRef' = [roomRef EXCEPT ![t] = TRUE]
    /\ job' = [job EXCEPT ![d].pc = "post"]
    /\ UNCHANGED <<meta, result, lock, expiry, proc, requests, queues,
                   crashes, history>>

PostRequest(d) ==
    LET t == job[d].task IN
    /\ job[d].pc = "post"
    /\ posted' = [posted EXCEPT ![t] = @ \cup {job[d].req}]
    /\ job' = [job EXCEPT ![d].pc = "record"]
    /\ UNCHANGED <<meta, gateVars, lock, expiry, proc, requests, queues,
                   crashes, joined, answered, retried>>

RecordPending(d) ==
    /\ job[d].pc = "record"
    /\ meta' = [meta EXCEPT ![job[d].task].pending = job[d].req]
    /\ job' = [job EXCEPT ![d].pc = "timeouts"]
    /\ UNCHANGED <<gateVars, lock, expiry, proc, requests, queues, crashes,
                   history>>

(* BullMQ ignores an add whose job id exists, in whatever state it is. *)
AddJob(jobs, t) == [jobs EXCEPT ![t] = IF @ = "none" THEN "delayed" ELSE @]

ScheduleTimeouts(d) ==
    /\ job[d].pc = "timeouts"
    /\ expiry' = AddJob(expiry, job[d].task)
    /\ job' = [job EXCEPT ![d].pc = "end"]
    /\ UNCHANGED <<meta, gateVars, lock, proc, requests, queues, crashes,
                   history>>

(* A one-shot task is marked completed although its approval is pending; a  *)
(* recurring one defers its next work job.                                  *)
EndDeliver(d) ==
    LET t == job[d].task IN
    /\ job[d].pc = "end"
    /\ meta' = [meta EXCEPT ![t].status = IF t \in OneShot THEN "completed" ELSE @]
    /\ job' = [job EXCEPT ![d] = IdleJob]
    /\ UNCHANGED <<gateVars, lock, expiry, proc, requests, queues, crashes,
                   history>>

(* A Matrix or Redis call throws: BullMQ retries the job while attempts last. *)
FailRequest(d) ==
    LET t == job[d].task IN
    /\ MayFail
    /\ job[d].pc # "idle"
    /\ job' = [job EXCEPT ![d] = IdleJob]
    /\ due' \in {due, [due EXCEPT ![t] = 1]}
    /\ UNCHANGED <<meta, gateVars, lock, expiry, proc, requests, retries,
                   crashes, history>>

-----------------------------------------------------------------------------
(* tryHandleApprovalResponse and handleApprovalResponse.                    *)

Go(p, pc) == proc' = [proc EXCEPT ![p].pc = pc]
At(p, pc) == proc[p].pc = pc
Stop(p) == proc' = [proc EXCEPT ![p] = IdleProc]
Leave(p, pc) == proc' = [proc EXCEPT ![p] = Fresh(pc, proc[p].task)]

(* getPendingTaskForRoom: the task is chosen before the message is classified. *)
Lookup(p, room) ==
    /\ At(p, "idle")
    /\ roomKey[room] # NoTask
    /\ proc' = [proc EXCEPT ![p] = Fresh("acquire", roomKey[room])]
    /\ UNCHANGED <<meta, gateVars, lock, expiry, job, requests, queues,
                   crashes, history>>

(* The classifier finds the message unrelated, or the lock is taken. *)
Ignore(p) ==
    /\ At(p, "acquire")
    /\ Stop(p)
    /\ UNCHANGED <<meta, gateVars, lock, expiry, job, requests, queues,
                   crashes, history>>

(* SET NX.  Mutant: the lock is set but not tested. *)
LockFree_untested(t) == TRUE
LockFree(t) == ~lock[t]

Acquire(p, yes) ==
    LET t == proc[p].task IN
    /\ At(p, "acquire")
    /\ LockFree(t)
    /\ lock' = [lock EXCEPT ![t] = TRUE]
    /\ proc' = [proc EXCEPT ![p].pc = "load", ![p].yes = yes]
    /\ UNCHANGED <<meta, gateVars, expiry, job, requests, queues, crashes,
                   history>>

(* Mutant: the pending check of handleApprovalResponse is dropped. *)
NothingPending_unchecked(t) == FALSE
NothingPending(t) == meta[t].pending = 0

LoadMeta(p) ==
    LET t == proc[p].task IN
    /\ At(p, "load")
    /\ IF NothingPending(t)
       THEN Leave(p, "release")
       ELSE proc' = [proc EXCEPT ![p].pc = "fetch", ![p].seen = meta[t].rejections]
    /\ UNCHANGED <<meta, gateVars, lock, expiry, job, requests, queues,
                   crashes, history>>

(* A missing result is told to the user and the state cleared. *)
FetchResult(p) ==
    LET stored == result[proc[p].task] IN
    /\ At(p, "fetch")
    /\ IF stored = 0
       THEN Leave(p, "clear")
       ELSE proc' = [proc EXCEPT ![p].req = stored,
                                 ![p].pc = IF proc[p].yes THEN "send" ELSE "reject"]
    /\ UNCHANGED <<meta, gateVars, lock, expiry, job, requests, queues,
                   crashes, history>>

SendApproved(p) ==
    /\ At(p, "send")
    /\ answered' = [answered EXCEPT ![proc[p].task][proc[p].req] = @ + 1]
    /\ Leave(p, "book")
    /\ UNCHANGED <<meta, gateVars, lock, expiry, job, requests, queues,
                   crashes, posted, joined, retried>>

BookDelivery(p) ==
    LET t == proc[p].task IN
    /\ At(p, "book")
    /\ meta' = [meta EXCEPT ![t].rejections = 0]
    /\ retried' = [retried EXCEPT ![t] = 0]
    /\ Leave(p, "clear")
    /\ UNCHANGED <<gateVars, lock, expiry, job, requests, queues, crashes,
                   posted, joined, answered>>

(* The circuit breaker's test.  Mutant: off by one. *)
TooMany_offByOne(n) == n > MaxRejections
TooMany(n) == n >= MaxRejections

CountRejection(p) ==
    LET n == proc[p].seen + 1 IN
    /\ At(p, "reject")
    /\ meta' = [meta EXCEPT ![proc[p].task].rejections = n]
    /\ answered' = [answered EXCEPT ![proc[p].task][proc[p].req] = @ + 1]
    /\ Leave(p, IF TooMany(n) THEN "pause" ELSE "retry")
    /\ UNCHANGED <<gateVars, lock, expiry, job, requests, queues, crashes,
                   posted, joined, retried>>

PauseRejected(p) ==
    /\ At(p, "pause")
    /\ meta' = [meta EXCEPT ![proc[p].task].status = "paused"]
    /\ Leave(p, "clear")
    /\ UNCHANGED <<gateVars, lock, expiry, job, requests, queues, crashes,
                   history>>

ScheduleRetry(p) ==
    LET t == proc[p].task IN
    /\ At(p, "retry")
    /\ retries' = [retries EXCEPT ![t] = @ + 1]
    /\ retried' = [retried EXCEPT ![t] = @ + 1]
    /\ Leave(p, "clear")
    /\ UNCHANGED <<meta, gateVars, lock, expiry, job, requests, due, crashes,
                   posted, joined, answered>>

(* A step of the handler throws: before the inner try only the lock is      *)
(* released; inside it the approval state is cleared first.                 *)
FailResponse(p) ==
    /\ MayFail
    /\ \/ proc[p].pc \in {"load", "fetch"} /\ Leave(p, "release")
       \/ proc[p].pc \in {"send", "book", "reject", "pause", "retry"} /\ Leave(p, "clear")
    /\ UNCHANGED <<meta, gateVars, lock, expiry, job, requests, queues,
                   crashes, history>>

Release(p) ==
    /\ At(p, "release")
    /\ lock' = [lock EXCEPT ![proc[p].task] = FALSE]
    /\ Stop(p)
    /\ UNCHANGED <<meta, gateVars, expiry, job, requests, queues, crashes,
                   history>>

-----------------------------------------------------------------------------
(* clearApprovalState, run by responders and by expirers.                   *)

AfterClear(p) == IF p \in Responders THEN "release" ELSE "finish"

ReadRoomRef(p) ==
    /\ At(p, "clear")
    /\ proc' = [proc EXCEPT ![p].pc = "wipe", ![p].ref = roomRef[proc[p].task]]
    /\ UNCHANGED <<meta, gateVars, lock, expiry, job, requests, queues,
                   crashes, history>>

(* Mutant: the stored result survives the clearing. *)
WithoutResult_kept(t) == result
WithoutResult(t) == [result EXCEPT ![t] = 0]

WipeKeys(p) ==
    LET t == proc[p].task IN
    /\ At(p, "wipe")
    /\ result' = WithoutResult(t)
    /\ roomRef' = [roomRef EXCEPT ![t] = FALSE]
    /\ roomKey' = [roomKey EXCEPT ![RoomOf[t]] = IF proc[p].ref THEN NoTask ELSE @]
    /\ Leave(p, "unpend")
    /\ UNCHANGED <<meta, lock, expiry, job, requests, queues, crashes, history>>

ClearPending(p) ==
    /\ At(p, "unpend")
    /\ meta' = [meta EXCEPT ![proc[p].task].pending = 0]
    /\ Go(p, "untime")
    /\ UNCHANGED <<gateVars, lock, expiry, job, requests, queues, crashes,
                   history>>

(* cancelJob: a finished job is skipped, an active one cannot be removed. *)
Cancelled(jobs, t) == [jobs EXCEPT ![t] = IF @ = "delayed" THEN "none" ELSE @]

CancelTimeouts(p) ==
    LET t == proc[p].task IN
    /\ At(p, "untime")
    /\ expiry' = Cancelled(expiry, t)
    /\ Go(p, AfterClear(p))
    /\ UNCHANGED <<meta, gateVars, lock, job, requests, queues, crashes, history>>

(* updateTask throws inside clearApprovalState. *)
FailClear(p) ==
    /\ MayFail
    /\ p \in Responders
    /\ At(p, "unpend")
    /\ Leave(p, "release")
    /\ UNCHANGED <<meta, gateVars, lock, expiry, job, requests, queues, crashes,
                   history>>

-----------------------------------------------------------------------------
(* handleApprovalTimeout.                                                   *)

StartExpiry(p, t) ==
    /\ At(p, "idle")
    /\ expiry[t] = "delayed"
    /\ expiry' = [expiry EXCEPT ![t] = "active"]
    /\ proc' = [proc EXCEPT ![p] =
                  Fresh(IF meta[t].pending = 0 THEN "finish" ELSE "discard", t)]
    /\ UNCHANGED <<meta, gateVars, lock, job, requests, queues, crashes,
                   history>>

Discard(p) ==
    /\ At(p, "discard")
    /\ result' = [result EXCEPT ![proc[p].task] = 0]
    /\ Leave(p, "clear")
    /\ UNCHANGED <<meta, roomKey, roomRef, lock, expiry, job, requests, queues,
                   crashes, history>>

FinishExpiry(p) ==
    /\ At(p, "finish")
    /\ expiry' = [expiry EXCEPT ![proc[p].task] = "finished"]
    /\ Stop(p)
    /\ UNCHANGED <<meta, gateVars, lock, job, requests, queues, crashes,
                   history>>

(* The expiry job throws: BullMQ runs it again while attempts last. *)
FailExpiry(p) ==
    LET t == proc[p].task IN
    /\ MayFail
    /\ p \in Expirers
    /\ proc[p].pc \in {"discard", "clear", "unpend"}
    /\ \E outcome \in {"delayed", "finished"} :
          expiry' = [expiry EXCEPT ![t] = outcome]
    /\ Stop(p)
    /\ UNCHANGED <<meta, gateVars, lock, job, requests, queues, crashes,
                   history>>

(* removeOnComplete, removeOnFail: a finished job's id is free again after days. *)
RetireExpiry(t) ==
    /\ expiry[t] = "finished"
    /\ expiry' = [expiry EXCEPT ![t] = "none"]
    /\ UNCHANGED <<meta, gateVars, lock, job, proc, requests, queues, crashes,
                   history>>

-----------------------------------------------------------------------------
(* Lifecycle operations, Redis time-outs and restarts.                      *)

(* cancelAllJobsForTask: the timeout jobs go, and the scheduled deliver job *)
(* unless it is already running; retry flows are not looked for.            *)
CancelJobs(t) ==
    /\ expiry' = Cancelled(expiry, t)
    /\ due' = [due EXCEPT ![t] = 0]

PauseTask(t) ==
    /\ meta[t].status = "active"
    /\ meta' = [meta EXCEPT ![t].status = "paused"]
    /\ CancelJobs(t)
    /\ UNCHANGED <<gateVars, lock, job, proc, requests, retries, crashes, history>>

(* The old jobs are cancelled and the schedule is created afresh; BullMQ     *)
(* drops a one-shot deliver job whose id a finished job still holds.         *)
ResumeTask(t) ==
    /\ meta[t].status = "paused"
    /\ meta' = [meta EXCEPT ![t].status = "active"]
    /\ expiry' = Cancelled(expiry, t)
    /\ \E n \in IF t \in OneShot THEN 0..1 ELSE {1} : due' = [due EXCEPT ![t] = n]
    /\ UNCHANGED <<gateVars, lock, job, proc, requests, retries, crashes, history>>

CancelTask(t) ==
    /\ meta[t].status \in {"active", "paused"}
    /\ meta' = [meta EXCEPT ![t].status = "cancelled"]
    /\ CancelJobs(t)
    /\ UNCHANGED <<gateVars, lock, job, proc, requests, retries, crashes, history>>

(* APPROVAL_RESULT_TTL_SECONDS: the three keys are set, and go, together. *)
ExpireKeys(t) ==
    /\ result[t] # 0
    /\ \A d \in Delivers : job[d].task # t
    /\ result' = [result EXCEPT ![t] = 0]
    /\ roomRef' = [roomRef EXCEPT ![t] = FALSE]
    /\ roomKey' = [roomKey EXCEPT ![RoomOf[t]] = IF @ = t THEN NoTask ELSE @]
    /\ UNCHANGED <<meta, lock, expiry, job, proc, requests, queues, crashes,
                   history>>

Holders(t) == {p \in Responders : proc[p].task = t /\ proc[p].pc \in Inside}

(* The TTL frees the lock of a dead handler, and of a slow one when allowed. *)
ExpireLock(t) ==
    /\ lock[t]
    /\ LockMayExpire \/ Holders(t) = {}
    /\ lock' = [lock EXCEPT ![t] = FALSE]
    /\ UNCHANGED <<meta, gateVars, expiry, job, proc, requests, queues, crashes,
                   history>>

(* A restart loses every handler; BullMQ re-queues the jobs that stalled.    *)
(* With nothing under way there is nothing to lose.                          *)
Crash ==
    /\ crashes < MaxCrashes
    /\ \/ \E d \in Delivers : job[d] # IdleJob
       \/ \E p \in Handlers : proc[p] # IdleProc
    /\ crashes' = crashes + 1
    /\ due' = [t \in Tasks |-> IF \E d \in Delivers : job[d].task = t
                                THEN 1 ELSE due[t]]
    /\ job' = [d \in Delivers |-> IdleJob]
    /\ proc' = [p \in Handlers |-> IdleProc]
    /\ expiry' = [t \in Tasks |-> IF expiry[t] = "active" THEN "delayed" ELSE expiry[t]]
    /\ UNCHANGED <<meta, gateVars, lock, requests, retries, history>>

-----------------------------------------------------------------------------
DeliverStep(d) ==
    \/ \E t \in Tasks : StartRequest(d, t)
    \/ StoreRoomKeys(d) \/ PostRequest(d) \/ RecordPending(d)
    \/ ScheduleTimeouts(d) \/ EndDeliver(d) \/ FailRequest(d)

ClearStep(p) ==
    ReadRoomRef(p) \/ WipeKeys(p) \/ ClearPending(p) \/ CancelTimeouts(p) \/ FailClear(p)

RespondStep(p) ==
    \/ \E room \in Rooms : Lookup(p, room)
    \/ Ignore(p) \/ (\E yes \in BOOLEAN : Acquire(p, yes))
    \/ LoadMeta(p) \/ FetchResult(p) \/ SendApproved(p) \/ BookDelivery(p)
    \/ CountRejection(p) \/ PauseRejected(p) \/ ScheduleRetry(p)
    \/ FailResponse(p) \/ ClearStep(p) \/ Release(p)

ExpireStep(p) ==
    \/ \E t \in Tasks : StartExpiry(p, t)
    \/ Discard(p) \/ ClearStep(p) \/ FinishExpiry(p) \/ FailExpiry(p)

TaskStep(t) ==
    \/ CronTick(t) \/ SkipDeliver(t) \/ RetireExpiry(t)
    \/ PauseTask(t) \/ ResumeTask(t) \/ CancelTask(t)
    \/ ExpireKeys(t) \/ ExpireLock(t)

Next ==
    \/ \E d \in Delivers : DeliverStep(d)
    \/ \E p \in Responders : RespondStep(p)
    \/ \E p \in Expirers : ExpireStep(p)
    \/ \E t \in Tasks : TaskStep(t)
    \/ Crash

Spec == Init /\ [][Next]_vars

-----------------------------------------------------------------------------
(* The lock does its work (approval.service.ts:184): two responses to the   *)
(* same task are never handled at the same time.                            *)
HandlersExclusive ==
    \A p, q \in Responders :
        p # q /\ {proc[p].pc, proc[q].pc} \subseteq Inside => proc[p].task # proc[q].task

(* Whatever overlaps, a stored result gets one verdict: it is never sent    *)
(* twice, and never sent after it was rejected or rejected after it was     *)
(* sent, even when clearing the approval state fails half way.  A restart   *)
(* that cuts a handler off may cost one verdict more.                       *)
OneVerdict == \A t \in Tasks : \A n \in Request : answered[t][n] <= 1 + crashes

(* The result and the room key are written before the request is posted, so *)
(* a "yes" meant for something else can reach the handler; a result is not  *)
(* sent or rejected before the message that asks about it is in the room.   *)
(* The one exception is a result put up while an earlier request of the     *)
(* task was still open, which the answer to that one decides.               *)
NoUnaskedAnswer ==
    \A t \in Tasks : \A n \in Request :
        answered[t][n] > 0 => n \in posted[t] \cup joined[t]

(* The circuit breaker: however responses, crashes, pauses and resumes      *)
(* interleave, fewer than MAX_REJECTION_COUNT re-runs happen between two    *)
(* booked deliveries.                                                       *)
RejectionBreaker == \A t \in Tasks : retried[t] < MaxRejections

(* A pending approval whose result is still stored is found from its room,  *)
(* so that the user's reply reaches it and not the chat agent.              *)
AnswerReachable ==
    \A t \in Tasks :
        meta[t].pending # 0 /\ result[t] = meta[t].pending => roomKey[RoomOf[t]] = t

(* A restart at any step costs a result at most one more verdict             *)
(* (handleApprovalResponse holds the lock, clearApprovalState deletes in     *)
(* steps), and a pending approval can still be answered.                     *)
CrashSafe == OneVerdict /\ AnswerReachable
=============================================================================
