------------------------- MODULE ApprovalGateProofs -------------------------
(* Proofs about ApprovalGate, for every value of its constants.             *)
EXTENDS ApprovalGate, TLAPS

-----------------------------------------------------------------------------
(* Type correctness.  Frame and the lemmas on Go, Leave and Stop serve every *)
(* action; each action then needs a step for what it changes.               *)

LEMMA InitTypeOK == Init => TypeOK
  BY GateAssumption DEF Init, TypeOK, MetaOK, KeysOK, QueuesOK, JobOK, ProcOK, HistoryOK,
     MetaState, DeliverState, HandlerState, IdleJob, IdleProc, Fresh, Request, JobState, Pc,
     Inside, Handlers

LEMMA RequestBound == MaxRequests \in Nat
  BY GateAssumption

(* What an action leaves alone keeps its type. *)
LEMMA Frame ==
  ASSUME TypeOK
  PROVE  /\ UNCHANGED meta => MetaOK'
         /\ UNCHANGED <<gateVars, lock>> => KeysOK'
         /\ UNCHANGED <<expiry, requests, queues, crashes>> => QueuesOK'
         /\ UNCHANGED job => JobOK'
         /\ UNCHANGED proc => ProcOK'
         /\ UNCHANGED history => HistoryOK'
  BY DEF TypeOK, MetaOK, KeysOK, QueuesOK, JobOK, ProcOK, HistoryOK, gateVars, queues,
     history, MetaState, DeliverState, HandlerState, Request, JobState, Pc, Inside, Handlers

(* A handler's record stays well formed when it is replaced by one that is. *)
LEMMA ProcUpdate ==
  ASSUME ProcOK, NEW p \in Handlers, NEW r \in HandlerState,
         r.pc # "idle" => r.task \in Tasks,
         proc' = [proc EXCEPT ![p] = r]
  PROVE  ProcOK'
  BY DEF ProcOK, HandlerState, Handlers, Pc, Inside, Request

LEMMA StopType ==
  ASSUME ProcOK, NEW p \in Handlers, Stop(p)
  PROVE  ProcOK'
<1>1. IdleProc \in HandlerState /\ IdleProc.pc = "idle"
  BY GateAssumption DEF IdleProc, Fresh, HandlerState, Pc, Request
<1>2. QED
  BY <1>1, ProcUpdate DEF Stop

LEMMA GoType ==
  ASSUME ProcOK, NEW p \in Handlers, NEW pc \in Inside \cup {"finish"},
         proc[p].pc # "idle", Go(p, pc)
  PROVE  ProcOK'
<1> DEFINE r == [proc[p] EXCEPT !.pc = pc]
<1>1. r \in HandlerState /\ r.task \in Tasks
  BY DEF ProcOK, HandlerState, Pc
<1>2. proc' = [proc EXCEPT ![p] = r]
  BY DEF Go
<1>3. QED
  BY <1>1, <1>2, ProcUpdate

LEMMA LeaveType ==
  ASSUME ProcOK, NEW p \in Handlers, NEW pc \in Inside \cup {"finish"},
         proc[p].pc # "idle", Leave(p, pc)
  PROVE  ProcOK'
<1>1. proc[p].task \in Tasks
  BY DEF ProcOK
<1>2. Fresh(pc, proc[p].task) \in HandlerState
  BY <1>1, GateAssumption DEF Fresh, HandlerState, Pc, Request
<1>3. QED
  BY <1>1, <1>2, ProcUpdate DEF Leave, Fresh

LEMMA AnsweredType ==
  ASSUME HistoryOK, NEW t \in Tasks, NEW n \in Request,
         answered' = [answered EXCEPT ![t][n] = @ + 1], UNCHANGED <<posted, joined, retried>>
  PROVE  HistoryOK'
<1>1. answered[t] \in [Request -> Nat]
  BY DEF HistoryOK
<1>2. [answered[t] EXCEPT ![n] = answered[t][n] + 1] \in [Request -> Nat]
  BY <1>1
<1>3. answered' \in [Tasks -> [Request -> Nat]]
  BY <1>2 DEF HistoryOK
<1>4. QED
  BY <1>3 DEF HistoryOK, Request

LEMMA DeliverTypeOK ==
  ASSUME TypeOK, NEW d \in Delivers, DeliverStep(d)
  PROVE  TypeOK'
<1>1. ASSUME NEW t \in Tasks, StartRequest(d, t) PROVE TypeOK'
  <2>1. requests[t] + 1 \in Request
    BY <1>1, GateAssumption DEF StartRequest, TypeOK, QueuesOK, Request
  <2>2. KeysOK'
    BY <1>1, <2>1 DEF StartRequest, TypeOK, KeysOK, QueuesOK, Request
  <2>3. QueuesOK'
    BY <1>1, <2>1 DEF StartRequest, Take, TypeOK, QueuesOK, Request, JobState
  <2>4. JobOK'
    BY <1>1, <2>1 DEF StartRequest, TypeOK, JobOK, QueuesOK, DeliverState, Request
  <2>5. HistoryOK'
    <3>1. requests'[t] \in Request
      BY <1>1, <2>1 DEF StartRequest, TypeOK, QueuesOK
    <3>2. QED
      BY <1>1, <3>1 DEF StartRequest, TypeOK, HistoryOK
  <2>6. QED
    BY <1>1, <2>2, <2>3, <2>4, <2>5, Frame DEF StartRequest, TypeOK
<1>2. CASE StoreRoomKeys(d)
  <2>1. KeysOK'
    BY <1>2, GateAssumption DEF StoreRoomKeys, TypeOK, KeysOK, JobOK, Request
  <2>2. JobOK'
    BY <1>2 DEF StoreRoomKeys, TypeOK, JobOK, DeliverState, Request
  <2>3. QED
    BY <1>2, <2>1, <2>2, Frame DEF StoreRoomKeys, TypeOK
<1>3. CASE PostRequest(d)
  <2>1. HistoryOK'
    BY <1>3 DEF PostRequest, TypeOK, HistoryOK, JobOK, DeliverState, Request
  <2>2. JobOK'
    BY <1>3 DEF PostRequest, TypeOK, JobOK, DeliverState, Request
  <2>3. QED
    BY <1>3, <2>1, <2>2, Frame DEF PostRequest, TypeOK, gateVars
<1>4. CASE RecordPending(d)
  <2>1. job[d].task \in Tasks /\ job[d].req \in Request
    BY <1>4 DEF RecordPending, TypeOK, JobOK, DeliverState
  <2>2. MetaOK'
    BY <1>4, <2>1 DEF RecordPending, TypeOK, MetaOK, MetaState, Request
  <2>3. JobOK'
    BY <1>4 DEF RecordPending, TypeOK, JobOK, DeliverState, Request
  <2>4. QED
    BY <1>4, <2>2, <2>3, Frame DEF RecordPending, TypeOK, gateVars
<1>5. CASE ScheduleTimeouts(d)
  <2>1. QueuesOK'
    BY <1>5 DEF ScheduleTimeouts, AddJob, TypeOK, QueuesOK, JobState, Request, queues
  <2>2. JobOK'
    BY <1>5 DEF ScheduleTimeouts, TypeOK, JobOK, DeliverState, Request
  <2>3. QED
    BY <1>5, <2>1, <2>2, Frame DEF ScheduleTimeouts, TypeOK, gateVars
<1>6. CASE EndDeliver(d)
  <2>1. MetaOK'
    BY <1>6 DEF EndDeliver, TypeOK, MetaOK, MetaState, JobOK, Request
  <2>2. JobOK'
    BY <1>6, GateAssumption DEF EndDeliver, TypeOK, JobOK, DeliverState, IdleJob, Request
  <2>3. QED
    BY <1>6, <2>1, <2>2, Frame DEF EndDeliver, TypeOK, gateVars
<1>7. CASE FailRequest(d)
  <2>1. QueuesOK'
    BY <1>7 DEF FailRequest, TypeOK, QueuesOK, JobState, Request
  <2>2. JobOK'
    BY <1>7, GateAssumption DEF FailRequest, TypeOK, JobOK, DeliverState, IdleJob, Request
  <2>3. QED
    BY <1>7, <2>1, <2>2, Frame DEF FailRequest, TypeOK, gateVars
<1>8. QED
  BY <1>1, <1>2, <1>3, <1>4, <1>5, <1>6, <1>7 DEF DeliverStep

LEMMA ClearTypeOK ==
  ASSUME TypeOK, NEW p \in Handlers, ClearStep(p)
  PROVE  TypeOK'
<1> USE DEF TypeOK
<1>1. CASE ReadRoomRef(p)
  <2> DEFINE r == [proc[p] EXCEPT !.pc = "wipe", !.ref = roomRef[proc[p].task]]
  <2>1. r \in HandlerState /\ r.task \in Tasks
    BY ZenonT(30), <1>1 DEF ReadRoomRef, At, ProcOK, KeysOK, HandlerState, Pc, Inside
  <2>2. proc' = [proc EXCEPT ![p] = r]
    BY <1>1 DEF ReadRoomRef, ProcOK
  <2>3. QED
    BY <1>1, <2>1, <2>2, ProcUpdate, Frame DEF ReadRoomRef
<1>2. CASE WipeKeys(p)
  <2>1. KeysOK'
    <3>0. proc[p].task \in Tasks
      BY <1>2 DEF WipeKeys, At, ProcOK
    <3>1. result' \in [Tasks -> Request]
      BY <1>2, <3>0, RequestBound DEF WipeKeys, WithoutResult, KeysOK, Request
    <3>2. roomKey' \in [Rooms -> Tasks \cup {NoTask}] /\ roomRef' \in [Tasks -> BOOLEAN]
      BY <1>2 DEF WipeKeys, KeysOK
    <3>3. QED
      BY <1>2, <3>1, <3>2 DEF WipeKeys, KeysOK, Request
  <2>2. ProcOK'
    BY <1>2, LeaveType DEF WipeKeys, At, Inside
  <2>3. QED
    BY <1>2, <2>1, <2>2, Frame DEF WipeKeys
<1>3. CASE ClearPending(p)
  <2>0. proc[p].task \in Tasks
    BY <1>3 DEF ClearPending, At, ProcOK
  <2>1. MetaOK'
    BY <1>3, <2>0, RequestBound DEF ClearPending, MetaOK, MetaState, Request
  <2>2. ProcOK'
    BY <1>3, GoType DEF ClearPending, At, Inside
  <2>3. QED
    BY <1>3, <2>1, <2>2, Frame DEF ClearPending, gateVars
<1>4. CASE CancelTimeouts(p)
  <2>1. QueuesOK'
    BY <1>4 DEF CancelTimeouts, Cancelled, QueuesOK, JobState, Request, queues
  <2>2. ProcOK'
    BY <1>4, GoType DEF CancelTimeouts, AfterClear, At, Inside
  <2>3. QED
    BY <1>4, <2>1, <2>2, Frame DEF CancelTimeouts, gateVars
<1>5. CASE FailClear(p)
  BY <1>5, LeaveType, Frame DEF FailClear, At, Inside, gateVars
<1>6. QED
  BY <1>1, <1>2, <1>3, <1>4, <1>5 DEF ClearStep

LEMMA RespondTypeOK ==
  ASSUME TypeOK, NEW p \in Responders, RespondStep(p)
  PROVE  TypeOK'
<1> USE DEF TypeOK
<1>0. p \in Handlers
  BY DEF Handlers
<1>1. ASSUME NEW room \in Rooms, Lookup(p, room) PROVE TypeOK'
  <2>1. roomKey[room] \in Tasks
    BY <1>1 DEF Lookup, KeysOK
  <2>2. Fresh("acquire", roomKey[room]) \in HandlerState
    BY <2>1, GateAssumption DEF Fresh, HandlerState, Pc, Request
  <2>3. ProcOK'
    BY <1>0, <1>1, <2>1, <2>2, ProcUpdate DEF Lookup, Fresh
  <2>4. QED
    BY <1>1, <2>3, Frame DEF Lookup
<1>2. CASE Ignore(p)
  BY <1>0, <1>2, StopType, Frame DEF Ignore, gateVars
<1>3. ASSUME NEW yes \in BOOLEAN, Acquire(p, yes) PROVE TypeOK'
  <2> DEFINE r == [proc[p] EXCEPT !.pc = "load", !.yes = yes]
  <2>1. r \in HandlerState /\ r.task \in Tasks
    BY <1>0, <1>3 DEF Acquire, At, ProcOK, HandlerState, Pc, Inside
  <2>2. proc' = [proc EXCEPT ![p] = r]
    BY <1>3 DEF Acquire
  <2>3. ProcOK'
    BY <1>0, <2>1, <2>2, ProcUpdate
  <2>4. KeysOK'
    BY <1>3 DEF Acquire, KeysOK, gateVars, Request
  <2>5. QED
    BY <1>3, <2>3, <2>4, Frame DEF Acquire
<1>4. CASE LoadMeta(p)
  <2> DEFINE r == [proc[p] EXCEPT !.pc = "fetch", !.seen = meta[proc[p].task].rejections]
  <2>1. r \in HandlerState /\ r.task \in Tasks
    BY ZenonT(30), <1>0, <1>4 DEF LoadMeta, At, ProcOK, MetaOK, MetaState, HandlerState, Pc, Inside
  <2>2. Leave(p, "release") \/ proc' = [proc EXCEPT ![p] = r]
    BY <1>4 DEF LoadMeta
  <2>3. ProcOK'
    BY <1>0, <1>4, <2>1, <2>2, ProcUpdate, LeaveType DEF LoadMeta, At, Inside
  <2>4. QED
    BY <1>4, <2>3, Frame DEF LoadMeta
<1>5. CASE FetchResult(p)
  <2> DEFINE r == [proc[p] EXCEPT !.req = result[proc[p].task],
                                  !.pc = IF proc[p].yes THEN "send" ELSE "reject"]
  <2>1. r \in HandlerState /\ r.task \in Tasks
    BY ZenonT(30), <1>0, <1>5 DEF FetchResult, At, ProcOK, KeysOK, HandlerState, Pc, Inside
  <2>2. Leave(p, "clear") \/ proc' = [proc EXCEPT ![p] = r]
    BY <1>5 DEF FetchResult
  <2>3. ProcOK'
    BY <1>0, <1>5, <2>1, <2>2, ProcUpdate, LeaveType DEF FetchResult, At, Inside
  <2>4. QED
    BY <1>5, <2>3, Frame DEF FetchResult
<1>6. CASE SendApproved(p)
  <2>0. proc[p].task \in Tasks /\ proc[p].req \in Request
    BY <1>0, <1>6 DEF SendApproved, At, ProcOK, HandlerState
  <2>1. HistoryOK'
    BY <1>6, <2>0, AnsweredType DEF SendApproved
  <2>2. ProcOK'
    BY <1>0, <1>6, LeaveType DEF SendApproved, At, Inside
  <2>3. QED
    BY <1>6, <2>1, <2>2, Frame DEF SendApproved, gateVars
<1>7. CASE BookDelivery(p)
  <2>1. MetaOK' /\ HistoryOK'
    BY <1>7 DEF BookDelivery, MetaOK, MetaState, HistoryOK, Request
  <2>2. ProcOK'
    BY <1>0, <1>7, LeaveType DEF BookDelivery, At, Inside
  <2>3. QED
    BY <1>7, <2>1, <2>2, Frame DEF BookDelivery, gateVars
<1>8. CASE CountRejection(p)
  <2>1. proc[p].task \in Tasks /\ proc[p].seen + 1 \in Nat /\ proc[p].req \in Request
    BY <1>0, <1>8 DEF CountRejection, At, ProcOK, HandlerState
  <2>2. MetaOK'
    BY <1>8, <2>1 DEF CountRejection, MetaOK, MetaState, Request
  <2>3. HistoryOK'
    BY <1>8, <2>1, AnsweredType DEF CountRejection
  <2>4. ProcOK'
    BY <1>0, <1>8, LeaveType DEF CountRejection, At, Inside
  <2>5. QED
    BY <1>8, <2>2, <2>3, <2>4, Frame DEF CountRejection, gateVars
<1>9. CASE PauseRejected(p)
  <2>1. MetaOK'
    BY <1>9 DEF PauseRejected, MetaOK, MetaState, Request
  <2>2. ProcOK'
    BY <1>0, <1>9, LeaveType DEF PauseRejected, At, Inside
  <2>3. QED
    BY <1>9, <2>1, <2>2, Frame DEF PauseRejected, gateVars
<1>10. CASE ScheduleRetry(p)
  <2>1. proc[p].task \in Tasks
    BY <1>0, <1>10 DEF ScheduleRetry, At, ProcOK
  <2>2. QueuesOK'
    BY <1>10, <2>1 DEF ScheduleRetry, QueuesOK, JobState, Request
  <2>3. HistoryOK'
    BY <1>10, <2>1 DEF ScheduleRetry, HistoryOK, Request
  <2>4. ProcOK'
    BY <1>0, <1>10, LeaveType DEF ScheduleRetry, At, Inside
  <2>5. QED
    BY <1>10, <2>2, <2>3, <2>4, Frame DEF ScheduleRetry, gateVars
<1>11. CASE FailResponse(p)
  BY <1>0, <1>11, LeaveType, Frame DEF FailResponse, Inside, gateVars
<1>12. CASE Release(p)
  <2>1. KeysOK'
    BY <1>12 DEF Release, KeysOK, gateVars, Request
  <2>2. QED
    BY <1>0, <1>12, <2>1, StopType, Frame DEF Release
<1>13. QED
  BY <1>0, <1>1, <1>2, <1>3, <1>4, <1>5, <1>6, <1>7, <1>8, <1>9, <1>10, <1>11, <1>12,
     ClearTypeOK DEF RespondStep

LEMMA ExpireTypeOK ==
  ASSUME TypeOK, NEW p \in Expirers, ExpireStep(p)
  PROVE  TypeOK'
<1> USE DEF TypeOK
<1>0. p \in Handlers
  BY DEF Handlers
<1>1. ASSUME NEW t \in Tasks, StartExpiry(p, t) PROVE TypeOK'
  <2> DEFINE r == Fresh(IF meta[t].pending = 0 THEN "finish" ELSE "discard", t)
  <2>1. r \in HandlerState /\ r.task \in Tasks
    BY GateAssumption DEF Fresh, HandlerState, Pc, Request
  <2>2. ProcOK'
    BY <1>0, <1>1, <2>1, ProcUpdate DEF StartExpiry
  <2>3. QueuesOK'
    BY <1>1 DEF StartExpiry, QueuesOK, JobState, Request, queues
  <2>4. QED
    BY <1>1, <2>2, <2>3, Frame DEF StartExpiry, gateVars
<1>2. CASE Discard(p)
  <2>1. KeysOK'
    <3>0. proc[p].task \in Tasks
      BY <1>0, <1>2 DEF Discard, At, ProcOK
    <3>1. result' \in [Tasks -> Request]
      BY <1>2, <3>0, RequestBound DEF Discard, KeysOK, Request
    <3>2. QED
      BY <1>2, <3>1 DEF Discard, KeysOK, Request
  <2>2. ProcOK'
    BY <1>0, <1>2, LeaveType DEF Discard, At, Inside
  <2>3. QED
    BY <1>2, <2>1, <2>2, Frame DEF Discard
<1>3. CASE FinishExpiry(p)
  <2>1. QueuesOK'
    BY <1>3 DEF FinishExpiry, QueuesOK, JobState, Request, queues
  <2>2. QED
    BY <1>0, <1>3, <2>1, StopType, Frame DEF FinishExpiry, gateVars
<1>4. CASE FailExpiry(p)
  <2>1. QueuesOK'
    BY <1>4 DEF FailExpiry, QueuesOK, JobState, Request, queues
  <2>2. QED
    BY <1>0, <1>4, <2>1, StopType, Frame DEF FailExpiry, gateVars
<1>5. QED
  BY <1>0, <1>1, <1>2, <1>3, <1>4, ClearTypeOK DEF ExpireStep

LEMMA TaskTypeOK ==
  ASSUME TypeOK, NEW t \in Tasks, TaskStep(t)
  PROVE  TypeOK'
<1> USE DEF TypeOK
<1>1. CASE CronTick(t)
  <2>1. QueuesOK'
    BY <1>1 DEF CronTick, QueuesOK, JobState, Request
  <2>2. QED
    BY <1>1, <2>1, Frame DEF CronTick, gateVars
<1>2. CASE SkipDeliver(t)
  <2>1. QueuesOK'
    BY <1>2 DEF SkipDeliver, Take, QueuesOK, JobState, Request
  <2>2. QED
    BY <1>2, <2>1, Frame DEF SkipDeliver, gateVars
<1>3. CASE RetireExpiry(t)
  <2>1. QueuesOK'
    BY <1>3 DEF RetireExpiry, QueuesOK, JobState, Request, queues
  <2>2. QED
    BY <1>3, <2>1, Frame DEF RetireExpiry, gateVars
<1>4. CASE PauseTask(t)
  <2>1. MetaOK' /\ QueuesOK'
    BY <1>4 DEF PauseTask, CancelJobs, Cancelled, MetaOK, MetaState, QueuesOK, JobState, Request
  <2>2. QED
    BY <1>4, <2>1, Frame DEF PauseTask, gateVars
<1>5. CASE ResumeTask(t)
  <2>1. MetaOK'
    BY <1>5 DEF ResumeTask, MetaOK, MetaState, Request
  <2>2. QueuesOK'
    BY <1>5 DEF ResumeTask, Cancelled, QueuesOK, JobState, Request
  <2>3. QED
    BY <1>5, <2>1, <2>2, Frame DEF ResumeTask, gateVars
<1>6. CASE CancelTask(t)
  <2>1. MetaOK' /\ QueuesOK'
    BY <1>6 DEF CancelTask, CancelJobs, Cancelled, MetaOK, MetaState, QueuesOK, JobState, Request
  <2>2. QED
    BY <1>6, <2>1, Frame DEF CancelTask, gateVars
<1>7. CASE ExpireKeys(t)
  <2>1. KeysOK'
    <3>1. result' \in [Tasks -> Request]
      BY <1>7, RequestBound DEF ExpireKeys, KeysOK, Request
    <3>2. roomKey' \in [Rooms -> Tasks \cup {NoTask}] /\ roomRef' \in [Tasks -> BOOLEAN]
      BY <1>7 DEF ExpireKeys, KeysOK
    <3>3. QED
      BY <1>7, <3>1, <3>2 DEF ExpireKeys, KeysOK, Request
  <2>2. QED
    BY <1>7, <2>1, Frame DEF ExpireKeys
<1>8. CASE ExpireLock(t)
  <2>1. KeysOK'
    BY <1>8 DEF ExpireLock, KeysOK, gateVars, Request
  <2>2. QED
    BY <1>8, <2>1, Frame DEF ExpireLock
<1>9. QED
  BY <1>1, <1>2, <1>3, <1>4, <1>5, <1>6, <1>7, <1>8 DEF TaskStep

LEMMA CrashTypeOK ==
  ASSUME TypeOK, Crash
  PROVE  TypeOK'
<1> USE DEF TypeOK
<1>1. QueuesOK'
  BY GateAssumption DEF Crash, QueuesOK, JobState, Request
<1>2. JobOK'
  BY GateAssumption DEF Crash, JobOK, IdleJob, DeliverState, Request
<1>3. ProcOK'
  <2>1. IdleProc \in HandlerState /\ IdleProc.pc = "idle"
    BY GateAssumption DEF IdleProc, Fresh, HandlerState, Pc, Request
  <2>2. QED
    BY <2>1 DEF Crash, ProcOK, HandlerState, Handlers, Pc, Inside, Request
<1>4. QED
  BY <1>1, <1>2, <1>3, Frame DEF Crash

LEMMA TypeStep == TypeOK /\ [Next]_vars => TypeOK'
<1> SUFFICES ASSUME TypeOK, [Next]_vars PROVE TypeOK'
  OBVIOUS
<1>1. CASE UNCHANGED vars
  BY <1>1, Frame DEF vars, TypeOK
<1>2. CASE Next
  BY <1>2, DeliverTypeOK, RespondTypeOK, ExpireTypeOK, TaskTypeOK, CrashTypeOK DEF Next
<1>3. QED
  BY <1>1, <1>2

(* However the processes interleave, crash and fail, the state keeps its     *)
(* type: no handler ever runs without a task.                               *)
THEOREM TypeCorrect == Spec => []TypeOK
  BY InitTypeOK, TypeStep, PTL DEF Spec

-----------------------------------------------------------------------------
(* Mutual exclusion of the responders.  HandlersExclusive is not inductive   *)
(* by itself: a handler must also hold the lock as long as it is inside.    *)

LockHeld == \A p \in Responders : proc[p].pc \in Inside => lock[proc[p].task]

LockInv == TypeOK /\ LockHeld /\ HandlersExclusive

(* A handler that stays inside, or outside, and keeps its task. *)
Keeps(p) == /\ \A q \in Handlers : q # p => proc'[q] = proc[q]
            /\ proc'[p].pc \in Inside => proc[p].pc \in Inside
            /\ proc'[p].pc \in Inside => proc'[p].task = proc[p].task

LEMMA ClearKeeps ==
  ASSUME TypeOK, NEW p \in Handlers, ClearStep(p)
  PROVE  Keeps(p) /\ UNCHANGED lock
<1> USE DEF TypeOK, ProcOK, HandlerState, Keeps, At, Go, Leave, Fresh, Inside
<1>1. CASE ReadRoomRef(p)
  BY <1>1 DEF ReadRoomRef
<1>2. CASE WipeKeys(p)
  BY <1>2 DEF WipeKeys
<1>3. CASE ClearPending(p)
  BY <1>3 DEF ClearPending
<1>4. CASE CancelTimeouts(p)
  BY <1>4 DEF CancelTimeouts
<1>5. CASE FailClear(p)
  BY <1>5 DEF FailClear
<1>6. QED
  BY <1>1, <1>2, <1>3, <1>4, <1>5 DEF ClearStep

LEMMA RespondKeeps ==
  ASSUME TypeOK, NEW p \in Responders, RespondStep(p),
         \A yes \in BOOLEAN : ~Acquire(p, yes), ~Release(p)
  PROVE  Keeps(p) /\ UNCHANGED lock
<1> USE DEF TypeOK, ProcOK, HandlerState, Keeps, At, Go, Leave, Stop, IdleProc, Fresh, Inside
<1>0. p \in Handlers
  BY DEF Handlers
<1>1. ASSUME NEW room \in Rooms, Lookup(p, room) PROVE Keeps(p) /\ UNCHANGED lock
  BY <1>0, <1>1 DEF Lookup
<1>2. CASE Ignore(p)
  BY <1>0, <1>2 DEF Ignore
<1>3. CASE LoadMeta(p)
  BY <1>0, <1>3 DEF LoadMeta
<1>4. CASE FetchResult(p)
  BY <1>0, <1>4 DEF FetchResult
<1>5. CASE SendApproved(p)
  BY <1>0, <1>5 DEF SendApproved
<1>6. CASE BookDelivery(p)
  BY <1>0, <1>6 DEF BookDelivery
<1>7. CASE CountRejection(p)
  BY <1>0, <1>7 DEF CountRejection
<1>8. CASE PauseRejected(p)
  BY <1>0, <1>8 DEF PauseRejected
<1>9. CASE ScheduleRetry(p)
  BY <1>0, <1>9 DEF ScheduleRetry
<1>10. CASE FailResponse(p)
  BY <1>0, <1>10 DEF FailResponse
<1>11. QED
  BY <1>0, <1>1, <1>2, <1>3, <1>4, <1>5, <1>6, <1>7, <1>8, <1>9, <1>10, ClearKeeps
     DEF RespondStep

LEMMA ExpireKeeps ==
  ASSUME TypeOK, NEW p \in Expirers, ExpireStep(p)
  PROVE  /\ UNCHANGED lock
         /\ \A q \in Responders : proc'[q] = proc[q]
<1>0. p \in Handlers /\ Responders \subseteq Handlers /\ p \notin Responders
  BY GateAssumption DEF Handlers
<1> USE DEF TypeOK, ProcOK, HandlerState, Leave, Stop
<1>1. ASSUME NEW t \in Tasks, StartExpiry(p, t)
      PROVE  UNCHANGED lock /\ \A q \in Responders : proc'[q] = proc[q]
  BY <1>0, <1>1 DEF StartExpiry
<1>2. CASE Discard(p)
  BY <1>0, <1>2 DEF Discard
<1>3. CASE FinishExpiry(p)
  BY <1>0, <1>3 DEF FinishExpiry
<1>4. CASE FailExpiry(p)
  BY <1>0, <1>4 DEF FailExpiry
<1>5. QED
  BY <1>0, <1>1, <1>2, <1>3, <1>4, ClearKeeps DEF ExpireStep, Keeps

LEMMA LockStep ==
  ASSUME ~LockMayExpire, LockInv, [Next]_vars
  PROVE  LockHeld' /\ HandlersExclusive'
<1> USE DEF LockInv, LockHeld, HandlersExclusive
<1>0. Responders \subseteq Handlers
  BY DEF Handlers
<1>1. CASE UNCHANGED vars
  BY <1>1 DEF vars, Inside
<1>2. ASSUME NEW d \in Delivers, DeliverStep(d) PROVE LockHeld' /\ HandlersExclusive'
  BY <1>2 DEF DeliverStep, StartRequest, StoreRoomKeys, PostRequest, RecordPending,
     ScheduleTimeouts, EndDeliver, FailRequest, Inside
<1>3. ASSUME NEW p \in Responders, NEW yes \in BOOLEAN, Acquire(p, yes)
      PROVE  LockHeld' /\ HandlersExclusive'
  <2>1. proc[p].task \in Tasks /\ ~lock[proc[p].task]
    BY <1>0, <1>3 DEF Acquire, At, LockFree, TypeOK, ProcOK
  <2>2. \A q \in Responders : q # p => proc'[q] = proc[q]
    BY <1>0, <1>3 DEF Acquire, TypeOK, ProcOK
  <2>3. proc'[p].task = proc[p].task
    BY <1>0, <1>3 DEF Acquire, TypeOK, ProcOK, HandlerState
  <2>4. lock'[proc[p].task] /\ \A t \in Tasks : lock[t] => lock'[t]
    BY <1>3, <2>1 DEF Acquire, TypeOK, KeysOK
  <2>5. \A q \in Responders : proc[q].pc \in Inside => proc[q].task \in Tasks
    BY <1>0 DEF TypeOK, ProcOK, Inside
  <2>6. QED
    BY <2>1, <2>2, <2>3, <2>4, <2>5 DEF Inside
<1>4. ASSUME NEW p \in Responders, Release(p) PROVE LockHeld' /\ HandlersExclusive'
  <2>1. proc[p].pc \in Inside
    BY <1>4 DEF Release, At, Inside
  <2>2. \A q \in Responders : q # p => proc'[q] = proc[q]
    BY <1>0, <1>4 DEF Release, Stop, TypeOK, ProcOK
  <2>3. proc'[p].pc \notin Inside
    BY <1>0, <1>4 DEF Release, Stop, IdleProc, Fresh, TypeOK, ProcOK, Inside
  <2>4. \A t \in Tasks : t # proc[p].task => lock'[t] = lock[t]
    BY <1>4 DEF Release, TypeOK, KeysOK
  <2>5. \A q \in Responders : proc[q].pc \in Inside => proc[q].task \in Tasks
    BY <1>0 DEF TypeOK, ProcOK, Inside
  <2>6. QED
    BY <2>1, <2>2, <2>3, <2>4, <2>5 DEF Inside
<1>5. ASSUME NEW p \in Responders, RespondStep(p),
             \A yes \in BOOLEAN : ~Acquire(p, yes), ~Release(p)
      PROVE  LockHeld' /\ HandlersExclusive'
  <2>1. Keeps(p) /\ UNCHANGED lock
    BY <1>5, RespondKeeps
  <2>2. QED
    BY <1>0, <2>1 DEF Keeps, Inside
<1>6. ASSUME NEW p \in Expirers, ExpireStep(p) PROVE LockHeld' /\ HandlersExclusive'
  <2>1. UNCHANGED lock /\ \A q \in Responders : proc'[q] = proc[q]
    BY <1>6, ExpireKeeps
  <2>2. QED
    BY <2>1 DEF Inside
<1>7. ASSUME NEW t \in Tasks, TaskStep(t) PROVE LockHeld' /\ HandlersExclusive'
  <2>1. CASE ExpireLock(t)
    <3>1. \A q \in Responders : proc[q].pc \in Inside => proc[q].task # t
      BY <2>1 DEF ExpireLock, Holders
    <3>2. QED
      BY <2>1, <3>1 DEF ExpireLock, TypeOK, KeysOK, Inside
  <2>2. CASE ~ExpireLock(t)
    <3>1. UNCHANGED <<lock, proc>>
      BY <1>7, <2>2 DEF TaskStep, CronTick, SkipDeliver, RetireExpiry, PauseTask,
         ResumeTask, CancelTask, ExpireKeys
    <3>2. QED
      BY <3>1 DEF Inside
  <2>3. QED
    BY <2>1, <2>2
<1>8. CASE Crash
  BY <1>0, <1>8 DEF Crash, IdleProc, Fresh, Inside
<1>9. QED
  BY <1>1, <1>2, <1>3, <1>4, <1>5, <1>6, <1>7, <1>8 DEF Next, RespondStep

(* While no handler outlives its lock, two answers to one task are never     *)
(* handled at the same time, whatever the processes and however they crash. *)
THEOREM Exclusive ==
  ASSUME ~LockMayExpire
  PROVE  Spec => []HandlersExclusive
<1>1. Init => LockInv
  BY InitTypeOK DEF Init, LockInv, LockHeld, HandlersExclusive, IdleProc, Fresh, Inside, Handlers
<1>2. LockInv /\ [Next]_vars => LockInv'
  BY LockStep, TypeStep DEF LockInv
<1>3. LockInv => HandlersExclusive
  BY DEF LockInv
<1>4. QED
  BY <1>1, <1>2, <1>3, PTL DEF Spec

-----------------------------------------------------------------------------
(* The circuit breaker.  The count a handler read stays the stored count     *)
(* because the lock keeps other handlers out, and every re-run is counted    *)
(* before it is queued.                                                     *)

BreakerHeld ==
    /\ \A t \in Tasks : retried[t] <= meta[t].rejections
    /\ \A p \in Responders :
          /\ proc[p].pc \in {"fetch", "reject"}
               => proc[p].seen = meta[proc[p].task].rejections
          /\ proc[p].pc = "retry"
               => /\ retried[proc[p].task] < meta[proc[p].task].rejections
                  /\ meta[proc[p].task].rejections < MaxRejections

BreakerInv == LockInv /\ BreakerHeld /\ RejectionBreaker

CountsKept == /\ UNCHANGED retried
              /\ \A t \in Tasks : meta'[t].rejections = meta[t].rejections

LEMMA InsideHasTask ==
  ASSUME TypeOK
  PROVE  /\ Responders \subseteq Handlers
         /\ \A p \in Handlers : proc[p].pc \in Inside => proc[p].task \in Tasks
  BY DEF TypeOK, ProcOK, Inside, Handlers

(* A step that leaves the counts alone, and every responder where it is or   *)
(* away from the counting steps, keeps the breaker.                         *)
LEMMA BreakerFrame ==
  ASSUME TypeOK, BreakerHeld, RejectionBreaker, CountsKept,
         \A q \in Responders : \/ proc'[q] = proc[q]
                               \/ proc'[q].pc \notin {"fetch", "reject", "retry"}
  PROVE  BreakerHeld' /\ RejectionBreaker'
<1>1. \A q \in Responders : proc[q].pc \in {"fetch", "reject", "retry"} => proc[q].task \in Tasks
  BY InsideHasTask DEF Inside
<1>2. QED
  BY <1>1 DEF BreakerHeld, RejectionBreaker, CountsKept

LEMMA ClearKeepsCounts ==
  ASSUME TypeOK, NEW p \in Handlers, ClearStep(p)
  PROVE  CountsKept /\ proc'[p].pc \notin {"fetch", "reject", "retry"}
<1> USE DEF TypeOK, MetaOK, MetaState, ProcOK, HandlerState, CountsKept, At, Go, Leave,
        Fresh, history
<1>1. CASE ReadRoomRef(p)
  BY <1>1 DEF ReadRoomRef
<1>2. CASE WipeKeys(p)
  BY <1>2 DEF WipeKeys
<1>3. CASE ClearPending(p)
  BY <1>3 DEF ClearPending
<1>4. CASE CancelTimeouts(p)
  BY <1>4 DEF CancelTimeouts, AfterClear
<1>5. CASE FailClear(p)
  BY <1>5 DEF FailClear
<1>6. QED
  BY <1>1, <1>2, <1>3, <1>4, <1>5 DEF ClearStep

(* Deliver jobs, expirers, lifecycle operations and restarts do not count.   *)
LEMMA OthersKeepCounts ==
  ASSUME TypeOK,
         \/ \E d \in Delivers : DeliverStep(d)
         \/ \E p \in Expirers : ExpireStep(p)
         \/ \E t \in Tasks : TaskStep(t)
         \/ Crash
  PROVE  /\ CountsKept
         /\ \A q \in Responders : proc'[q] = proc[q] \/ proc'[q].pc = "idle"
<1> USE DEF TypeOK, MetaOK, MetaState, CountsKept, history
<1>1. ASSUME NEW d \in Delivers, DeliverStep(d) PROVE CountsKept /\ UNCHANGED proc
  <2>1. CASE RecordPending(d)
    BY <1>1, <2>1 DEF RecordPending
  <2>2. CASE EndDeliver(d)
    BY <1>1, <2>2 DEF EndDeliver
  <2>3. CASE ~RecordPending(d) /\ ~EndDeliver(d)
    BY <1>1, <2>3 DEF DeliverStep, StartRequest, StoreRoomKeys, PostRequest, ScheduleTimeouts,
       FailRequest
  <2>4. QED
    BY <2>1, <2>2, <2>3
<1>2. ASSUME NEW p \in Expirers, ExpireStep(p) PROVE CountsKept
  BY <1>2, ClearKeepsCounts DEF ExpireStep, StartExpiry, Discard, FinishExpiry, FailExpiry,
     Handlers
<1>3. ASSUME NEW t \in Tasks, TaskStep(t) PROVE CountsKept /\ UNCHANGED proc
  BY <1>3 DEF TaskStep, CronTick, SkipDeliver, RetireExpiry, PauseTask, ResumeTask,
     CancelTask, ExpireKeys, ExpireLock
<1>4. CASE Crash
  <2>1. CountsKept
    BY <1>4 DEF Crash
  <2>2. \A q \in Responders : proc'[q].pc = "idle"
    BY <1>4 DEF Crash, IdleProc, Fresh, Handlers
  <2>3. QED
    BY <2>1, <2>2
<1>5. QED
  BY <1>1, <1>2, <1>3, <1>4, ExpireKeeps

LEMMA RespondBreaker ==
  ASSUME BreakerInv, NEW p \in Responders, RespondStep(p)
  PROVE  BreakerHeld' /\ RejectionBreaker'
<1> USE DEF BreakerInv, LockInv
<1>0. p \in Handlers /\ proc \in [Handlers -> HandlerState] /\ Responders \subseteq Handlers
  BY DEF TypeOK, ProcOK, Handlers
<1>a. \A q \in Handlers : proc[q].pc \in Inside => proc[q].task \in Tasks
  BY InsideHasTask
<1>1. CASE \/ \E room \in Rooms : Lookup(p, room)
           \/ Ignore(p) \/ (\E yes \in BOOLEAN : Acquire(p, yes)) \/ Release(p)
           \/ SendApproved(p) \/ PauseRejected(p) \/ FailResponse(p)
  <2>1. CountsKept
    BY <1>1 DEF Lookup, Ignore, Acquire, Release, SendApproved, PauseRejected, FailResponse,
       CountsKept, TypeOK, MetaOK, MetaState, history
  <2>2. \A q \in Responders : \/ proc'[q] = proc[q]
                              \/ proc'[q].pc \notin {"fetch", "reject", "retry"}
    BY <1>0, <1>1 DEF Lookup, Ignore, Acquire, Release, SendApproved, PauseRejected,
       FailResponse, Leave, Stop, IdleProc, Fresh, HandlerState
  <2>3. QED
    BY <2>1, <2>2, BreakerFrame
<1>2. CASE ClearStep(p)
  <2>1. \A q \in Responders : q # p => proc'[q] = proc[q]
    BY <1>0, <1>2, ClearKeeps DEF Keeps
  <2>2. QED
    BY <1>0, <1>2, <2>1, ClearKeepsCounts, BreakerFrame
<1>3. CASE LoadMeta(p)
  <2>1. CASE Leave(p, "release")
    BY <1>0, <1>3, <2>1, BreakerFrame DEF LoadMeta, CountsKept, Leave, Fresh, history
  <2>2. CASE ~Leave(p, "release")
    <3>1. proc' = [proc EXCEPT ![p].pc = "fetch", ![p].seen = meta[proc[p].task].rejections]
      BY <1>3, <2>2 DEF LoadMeta
    <3>2. UNCHANGED <<meta, retried>>
      BY <1>3 DEF LoadMeta, history
    <3>3. \A q \in Responders : q # p => proc'[q] = proc[q]
      BY <1>0, <3>1
    <3>4. /\ proc'[p].pc = "fetch" /\ proc'[p].task = proc[p].task
          /\ proc'[p].seen = meta[proc[p].task].rejections
      BY <1>0, <3>1 DEF HandlerState
    <3>5. QED
      BY <3>2, <3>3, <3>4 DEF BreakerHeld, RejectionBreaker
  <2>3. QED
    BY <2>1, <2>2
<1>4. CASE FetchResult(p)
  <2>1. UNCHANGED <<meta, retried>>
    BY <1>4 DEF FetchResult, history
  <2>2. \A q \in Responders : q # p => proc'[q] = proc[q]
    BY <1>0, <1>4 DEF FetchResult, Leave
  <2>3. proc'[p].pc = "reject" => /\ proc'[p].task = proc[p].task
                                  /\ proc'[p].seen = proc[p].seen
    BY <1>0, <1>4 DEF FetchResult, Leave, Fresh, HandlerState
  <2>4. proc[p].pc = "fetch" /\ proc'[p].pc \notin {"fetch", "retry"}
    BY <1>0, <1>4 DEF FetchResult, At, Leave, Fresh, HandlerState
  <2>5. QED
    BY <2>1, <2>2, <2>3, <2>4 DEF BreakerHeld, RejectionBreaker
<1>5. ASSUME \/ BookDelivery(p) \/ CountRejection(p) \/ ScheduleRetry(p)
      PROVE  BreakerHeld' /\ RejectionBreaker'
  <2> DEFINE t == proc[p].task
  <2>1. proc[p].pc \in Inside /\ t \in Tasks
    BY <1>a, <1>0, <1>5 DEF BookDelivery, CountRejection, ScheduleRetry, At, Inside
  <2>2. \A q \in Responders : q # p /\ proc[q].pc \in Inside => proc[q].task # t
    BY <2>1 DEF HandlersExclusive
  <2>3. \A q \in Responders : q # p => proc'[q] = proc[q]
    BY <1>0, <1>5 DEF BookDelivery, CountRejection, ScheduleRetry, Leave
  <2>4. \A u \in Tasks : u # t => /\ retried'[u] = retried[u]
                                  /\ meta'[u].rejections = meta[u].rejections
    BY <1>5, <2>1 DEF BookDelivery, CountRejection, ScheduleRetry, TypeOK, MetaOK, MetaState,
       HistoryOK
  <2>5. \A q \in Responders : q # p =>
          /\ proc'[q].pc \in {"fetch", "reject"}
               => proc'[q].seen = meta'[proc'[q].task].rejections
          /\ proc'[q].pc = "retry"
               => /\ retried'[proc'[q].task] < meta'[proc'[q].task].rejections
                  /\ meta'[proc'[q].task].rejections < MaxRejections
    BY <1>0, <1>a, <2>2, <2>3, <2>4 DEF BreakerHeld, Inside
  <2>6. CASE BookDelivery(p)
    <3>1. proc'[p].pc = "clear" /\ retried'[t] = 0 /\ meta'[t].rejections = 0
      BY <1>0, <2>1, <2>6 DEF BookDelivery, Leave, Fresh, TypeOK, MetaOK, MetaState, HistoryOK
    <3>2. QED
      BY <2>1, <2>4, <2>5, <3>1, GateAssumption DEF BreakerHeld, RejectionBreaker
  <2>7. CASE CountRejection(p)
    <3>1. /\ retried'[t] = retried[t] /\ meta'[t].rejections = meta[t].rejections + 1
          /\ meta[t].rejections \in Nat /\ retried[t] \in Nat
      BY <1>0, <2>1, <2>7 DEF CountRejection, At, BreakerHeld, TypeOK, MetaOK, MetaState,
         HistoryOK
    <3>2. /\ proc'[p].pc \in {"pause", "retry"} /\ proc'[p].task = t
          /\ proc'[p].pc = "retry" => meta'[t].rejections < MaxRejections
      BY <1>0, <2>1, <2>7, <3>1, GateAssumption DEF CountRejection, At, TooMany, Leave, Fresh,
         BreakerHeld
    <3>3. QED
      BY <2>1, <2>4, <2>5, <3>1, <3>2 DEF BreakerHeld, RejectionBreaker
  <2>8. CASE ScheduleRetry(p)
    <3>1. /\ proc'[p].pc = "clear" /\ retried'[t] = retried[t] + 1
          /\ meta'[t].rejections = meta[t].rejections /\ retried[t] < meta[t].rejections
          /\ meta[t].rejections < MaxRejections
          /\ meta[t].rejections \in Nat /\ retried[t] \in Nat
      BY <1>0, <2>1, <2>8 DEF ScheduleRetry, At, Leave, Fresh, BreakerHeld, TypeOK, MetaOK,
         MetaState, HistoryOK
    <3>2. QED
      BY <2>1, <2>4, <2>5, <3>1, GateAssumption DEF BreakerHeld, RejectionBreaker
  <2>9. QED
    BY <1>5, <2>6, <2>7, <2>8
<1>6. QED
  BY <1>1, <1>2, <1>3, <1>4, <1>5 DEF RespondStep

(* Fewer than MAX_REJECTION_COUNT re-runs happen between two booked          *)
(* deliveries, as long as no handler outlives its lock.                     *)
THEOREM BreakerHolds ==
  ASSUME ~LockMayExpire
  PROVE  Spec => []RejectionBreaker
<1>1. Init => BreakerInv
  BY InitTypeOK, GateAssumption DEF Init, BreakerInv, LockInv, LockHeld, HandlersExclusive,
     BreakerHeld, RejectionBreaker, IdleProc, Fresh, Inside, Handlers
<1>2. BreakerInv /\ [Next]_vars => BreakerInv'
  <2> SUFFICES ASSUME BreakerInv, [Next]_vars PROVE BreakerInv'
    OBVIOUS
  <2>1. TypeOK /\ LockInv /\ BreakerHeld /\ RejectionBreaker
    BY DEF BreakerInv, LockInv
  <2>2. LockInv'
    BY <2>1, LockStep, TypeStep DEF LockInv
  <2>3. ASSUME UNCHANGED vars PROVE BreakerHeld' /\ RejectionBreaker'
    BY <2>1, <2>3, BreakerFrame DEF vars, history, CountsKept
  <2>4. ASSUME NEW p \in Responders, RespondStep(p) PROVE BreakerHeld' /\ RejectionBreaker'
    BY <2>4, RespondBreaker
  <2>5. ASSUME \/ \E d \in Delivers : DeliverStep(d)
               \/ \E p \in Expirers : ExpireStep(p)
               \/ \E t \in Tasks : TaskStep(t)
               \/ Crash
        PROVE  BreakerHeld' /\ RejectionBreaker'
    BY <2>1, <2>5, OthersKeepCounts, BreakerFrame
  <2>6. QED
    BY <2>2, <2>3, <2>4, <2>5 DEF Next, BreakerInv
<1>3. BreakerInv => RejectionBreaker
  BY DEF BreakerInv
<1>4. QED
  BY <1>1, <1>2, <1>3, PTL DEF Spec

-----------------------------------------------------------------------------
(* One verdict per result.  An answered result stays stored only while the   *)
(* handler that answered it, and still holds the lock, is on its way to      *)
(* WipeKeys.  A restart cuts that way short, once per restart: so the        *)
(* invariant counts the verdicts beyond the restarts.                        *)

Answering == {"book", "pause", "retry", "clear", "wipe"}

VerdictHeld ==
    /\ \A t \in Tasks : result[t] <= requests[t]
    /\ \A t \in Tasks, n \in Request :
          answered[t][n] > 0 => 0 < n /\ n <= requests[t]
    /\ \A t \in Tasks, n \in Request :
          answered[t][n] > crashes /\ result[t] = n
              => \E p \in Responders : proc[p].task = t /\ proc[p].pc \in Answering
    /\ \A p \in Responders :
          proc[p].pc \in {"send", "reject"}
              => /\ 0 < proc[p].req /\ proc[p].req <= requests[proc[p].task]
                 /\ answered[proc[p].task][proc[p].req] <= crashes

VerdictInv == LockInv /\ VerdictHeld /\ OneVerdict

(* A responder that neither reaches the verdict nor leaves Answering. *)
Stays(q) == \/ proc'[q] = proc[q]
            \/ /\ proc'[q].pc \notin {"send", "reject"}
               /\ proc[q].pc \in Answering
                    => proc'[q].pc \in Answering /\ proc'[q].task = proc[q].task

LEMMA VerdictTypes ==
  ASSUME TypeOK
  PROVE  crashes \in Nat /\ \A t \in Tasks, n \in Request : answered[t][n] \in Nat
BY DEF TypeOK, QueuesOK, HistoryOK

LEMMA VerdictFrame ==
  ASSUME TypeOK, VerdictHeld, OneVerdict, UNCHANGED <<answered, requests, crashes>>,
         \A t \in Tasks : result'[t] \in {result[t], 0},
         \A q \in Responders : Stays(q)
  PROVE  VerdictHeld' /\ OneVerdict'
<1>1. \A t \in Tasks : requests[t] \in Nat /\ result[t] \in Nat
  BY RequestBound DEF TypeOK, QueuesOK, KeysOK, Request
<1>2. \A t \in Tasks, n \in Request : answered[t][n] > crashes /\ result'[t] = n => result[t] = n
  BY <1>1, VerdictTypes DEF VerdictHeld
<1>3. \A q \in Responders : proc[q].pc \in Answering
         => proc'[q].pc \in Answering /\ proc'[q].task = proc[q].task
  BY DEF Stays
<1>4. \A t \in Tasks : result'[t] <= requests'[t]
  BY <1>1 DEF VerdictHeld
<1>5. \A t \in Tasks, n \in Request : answered'[t][n] > 0 => 0 < n /\ n <= requests'[t]
  BY DEF VerdictHeld
<1>6. \A t \in Tasks, n \in Request :
         answered'[t][n] > crashes' /\ result'[t] = n
            => \E p \in Responders : proc'[p].task = t /\ proc'[p].pc \in Answering
  BY <1>2, <1>3 DEF VerdictHeld
<1>7. \A p \in Responders : proc'[p].pc \in {"send", "reject"} => proc'[p] = proc[p]
  BY DEF Stays
<1>8. \A p \in Responders :
          proc'[p].pc \in {"send", "reject"}
              => /\ 0 < proc'[p].req /\ proc'[p].req <= requests'[proc'[p].task]
                 /\ answered'[proc'[p].task][proc'[p].req] <= crashes'
  BY <1>7 DEF VerdictHeld
<1>9. QED
  BY <1>4, <1>5, <1>6, <1>8 DEF VerdictHeld, OneVerdict, Request, Answering

LEMMA StartVerdict ==
  ASSUME VerdictInv, NEW d \in Delivers, NEW t \in Tasks, StartRequest(d, t)
  PROVE  VerdictHeld' /\ OneVerdict'
<1>1. TypeOK /\ VerdictHeld /\ OneVerdict /\ UNCHANGED <<answered, proc, crashes>>
  BY DEF VerdictInv, LockInv, StartRequest, history
<1>2. requests[t] \in Nat /\ requests'[t] = requests[t] + 1 /\ result'[t] = requests[t] + 1
  BY <1>1, RequestBound DEF StartRequest, TypeOK, QueuesOK, KeysOK, Request
<1>3. \A u \in Tasks : u # t => requests'[u] = requests[u] /\ result'[u] = result[u]
  BY <1>1 DEF StartRequest, TypeOK, QueuesOK, KeysOK
<1>4. \A n \in Request : answered[t][n] > 0 => n # result'[t]
  BY <1>1, <1>2, RequestBound DEF VerdictHeld, Request
<1>5. \A u \in Tasks : /\ requests[u] \in Nat /\ requests'[u] \in Nat
                       /\ requests[u] <= requests'[u]
  BY <1>1, <1>2, <1>3, RequestBound DEF TypeOK, QueuesOK, Request
<1>6. \A u \in Tasks : result'[u] <= requests'[u]
  <2>1. \A u \in Tasks : result[u] <= requests[u]
    BY <1>1 DEF VerdictHeld
  <2>2. QED
    BY <1>2, <1>3, <1>5, <2>1
<1>7. \A u \in Tasks, n \in Request : answered'[u][n] > 0 => 0 < n /\ n <= requests'[u]
  BY <1>1, <1>5, RequestBound DEF VerdictHeld, Request
<1>8. \A u \in Tasks, n \in Request :
         answered'[u][n] > crashes' /\ result'[u] = n
            => \E p \in Responders : proc'[p].task = u /\ proc'[p].pc \in Answering
  BY <1>1, <1>3, <1>4, VerdictTypes DEF VerdictHeld
<1>9. \A p \in Responders :
          proc'[p].pc \in {"send", "reject"}
              => /\ 0 < proc'[p].req /\ proc'[p].req <= requests'[proc'[p].task]
                 /\ answered'[proc'[p].task][proc'[p].req] <= crashes'
  <2>1. \A p \in Responders : proc[p].pc \in {"send", "reject"}
           => proc[p].task \in Tasks /\ proc[p].req \in Nat
    BY <1>1, InsideHasTask, RequestBound DEF Inside, TypeOK, ProcOK, HandlerState, Request
  <2>2. \A p \in Responders : proc[p].pc \in {"send", "reject"}
           => proc[p].req <= requests'[proc[p].task]
    BY <1>1, <1>5, <2>1 DEF VerdictHeld
  <2>3. QED
    BY <1>1, <2>2 DEF VerdictHeld
<1>10. QED
  BY <1>1, <1>6, <1>7, <1>8, <1>9 DEF VerdictHeld, OneVerdict, Request, Answering

LEMMA OthersVerdict ==
  ASSUME VerdictInv,
         \/ \E d \in Delivers : DeliverStep(d)
         \/ \E p \in Expirers : ExpireStep(p)
         \/ \E t \in Tasks : TaskStep(t)
         \/ Crash
  PROVE  VerdictHeld' /\ OneVerdict'
<1>1. TypeOK /\ VerdictHeld /\ OneVerdict
  BY DEF VerdictInv, LockInv
<1>2. ASSUME NEW d \in Delivers, DeliverStep(d) PROVE VerdictHeld' /\ OneVerdict'
  <2>1. CASE \E t \in Tasks : StartRequest(d, t)
    BY <2>1, StartVerdict
  <2>2. CASE ~\E t \in Tasks : StartRequest(d, t)
    <3>1. UNCHANGED <<answered, requests, result, proc, crashes>>
      BY <1>2, <2>2 DEF DeliverStep, StoreRoomKeys, PostRequest, RecordPending,
         ScheduleTimeouts, EndDeliver, FailRequest, gateVars, history
    <3>2. QED
      BY <1>1, <3>1, VerdictFrame DEF Stays
  <2>3. QED
    BY <2>1, <2>2
<1>3. ASSUME NEW p \in Expirers, ExpireStep(p) PROVE VerdictHeld' /\ OneVerdict'
  <2>1. UNCHANGED <<answered, requests, crashes>>
    BY <1>3 DEF ExpireStep, ClearStep, StartExpiry, Discard, FinishExpiry, FailExpiry,
       ReadRoomRef, WipeKeys, ClearPending, CancelTimeouts, FailClear, history
  <2>2. \A t \in Tasks : result'[t] \in {result[t], 0}
    BY <1>1, <1>3 DEF ExpireStep, ClearStep, StartExpiry, Discard, FinishExpiry, FailExpiry,
       ReadRoomRef, WipeKeys, WithoutResult, ClearPending, CancelTimeouts, FailClear,
       gateVars, TypeOK, KeysOK
  <2>3. \A q \in Responders : proc'[q] = proc[q]
    BY <1>1, <1>3, ExpireKeeps
  <2>4. QED
    BY <1>1, <2>1, <2>2, <2>3, VerdictFrame DEF Stays
<1>4. ASSUME NEW t \in Tasks, TaskStep(t) PROVE VerdictHeld' /\ OneVerdict'
  <2>1. UNCHANGED <<answered, requests, proc, crashes>>
    BY <1>4 DEF TaskStep, CronTick, SkipDeliver, RetireExpiry, PauseTask, ResumeTask,
       CancelTask, ExpireKeys, ExpireLock, history
  <2>2. \A u \in Tasks : result'[u] \in {result[u], 0}
    BY <1>1, <1>4 DEF TaskStep, CronTick, SkipDeliver, RetireExpiry, PauseTask, ResumeTask,
       CancelTask, ExpireKeys, ExpireLock, gateVars, TypeOK, KeysOK
  <2>3. QED
    BY <1>1, <2>1, <2>2, VerdictFrame DEF Stays
<1>5. ASSUME Crash PROVE VerdictHeld' /\ OneVerdict'
  <2>1. /\ crashes \in Nat /\ crashes' = crashes + 1
        /\ UNCHANGED <<answered, requests, result>>
    BY <1>1, <1>5 DEF Crash, TypeOK, QueuesOK, gateVars, history
  <2>2. \A q \in Responders : proc'[q].pc = "idle"
    BY <1>5 DEF Crash, IdleProc, Fresh, Handlers
  <2>3. \A t \in Tasks, n \in Request : answered[t][n] \in Nat /\ answered[t][n] <= 1 + crashes
    BY <1>1 DEF OneVerdict, TypeOK, HistoryOK
  <2>4. \A t \in Tasks, n \in Request : answered'[t][n] <= crashes'
    BY <2>1, <2>3
  <2>5. QED
    BY <1>1, <2>1, <2>2, <2>3, <2>4, RequestBound DEF VerdictHeld, OneVerdict, Request
<1>6. QED
  BY <1>2, <1>3, <1>4, <1>5

LEMMA RespondVerdict ==
  ASSUME VerdictInv, NEW p \in Responders, RespondStep(p)
  PROVE  VerdictHeld' /\ OneVerdict'
<1> DEFINE t == proc[p].task
<1>1. TypeOK /\ VerdictHeld /\ OneVerdict /\ HandlersExclusive
  BY DEF VerdictInv, LockInv
<1>2. p \in Handlers /\ Responders \subseteq Handlers /\ proc \in [Handlers -> HandlerState]
  BY <1>1 DEF TypeOK, ProcOK, Handlers
<1>3. \A q \in Responders : q # p => proc'[q] = proc[q]
  BY <1>1, <1>2, ClearKeeps DEF RespondStep, Keeps, Lookup, Ignore, Acquire, LoadMeta,
     FetchResult, SendApproved, BookDelivery, CountRejection, PauseRejected, ScheduleRetry,
     FailResponse, Release, Leave, Stop
<1>4. UNCHANGED <<requests, crashes>> /\ crashes \in Nat
  <2>1. ClearStep(p) => UNCHANGED <<requests, crashes>>
    BY DEF ClearStep, ReadRoomRef, WipeKeys, ClearPending, CancelTimeouts, FailClear
  <2>2. ~ClearStep(p) => UNCHANGED <<requests, crashes>>
    BY DEF RespondStep, Lookup, Ignore, Acquire, LoadMeta, FetchResult, SendApproved,
       BookDelivery, CountRejection, PauseRejected, ScheduleRetry, FailResponse, Release
  <2>3. QED
    BY <1>1, <2>1, <2>2 DEF TypeOK, QueuesOK
<1>5. proc[p].pc \in Inside => t \in Tasks
  BY <1>1, <1>2, InsideHasTask
<1>6. proc[p].pc \in Inside => \A q \in Responders : q # p /\ proc[q].pc \in Inside => proc[q].task # t
  BY <1>1 DEF HandlersExclusive
<1>7. ASSUME SendApproved(p) \/ CountRejection(p) PROVE VerdictHeld' /\ OneVerdict'
  <2> DEFINE n == proc[p].req
  <2>1. /\ proc[p].pc \in {"send", "reject"} /\ proc[p].pc \in Inside /\ t \in Tasks
        /\ n \in Request /\ 0 < n /\ n <= requests[t] /\ answered[t][n] <= crashes
    BY <1>1, <1>2, <1>5, <1>7 DEF SendApproved, CountRejection, At, Inside, VerdictHeld,
       HandlerState
  <2>2. /\ answered'[t][n] = answered[t][n] + 1 /\ UNCHANGED result
        /\ \A u \in Tasks, m \in Request : u # t \/ m # n => answered'[u][m] = answered[u][m]
    BY <1>1, <1>7, <2>1 DEF SendApproved, CountRejection, TypeOK, HistoryOK, gateVars
  <2>3. proc'[p].task = t /\ proc'[p].pc \in {"book", "pause", "retry"}
    BY <1>2, <1>7 DEF SendApproved, CountRejection, Leave, Fresh
  <2>4. \A u \in Tasks : result'[u] <= requests'[u]
    BY <1>1, <1>4, <2>2 DEF VerdictHeld
  <2>5. \A u \in Tasks, m \in Request : answered'[u][m] > 0 => 0 < m /\ m <= requests'[u]
    BY <1>1, <1>4, <2>1, <2>2 DEF VerdictHeld
  <2>6. \A u \in Tasks, m \in Request :
           answered'[u][m] > crashes' /\ result'[u] = m
              => \E q \in Responders : proc'[q].task = u /\ proc'[q].pc \in Answering
    BY <1>1, <1>3, <1>4, <2>1, <2>2, <2>3, VerdictTypes DEF VerdictHeld, Answering
  <2>7. \A q \in Responders :
            proc'[q].pc \in {"send", "reject"}
              => /\ 0 < proc'[q].req /\ proc'[q].req <= requests'[proc'[q].task]
                 /\ answered'[proc'[q].task][proc'[q].req] <= crashes'
    <3>1. SUFFICES ASSUME NEW q \in Responders, proc'[q].pc \in {"send", "reject"}
                   PROVE  /\ 0 < proc'[q].req /\ proc'[q].req <= requests'[proc'[q].task]
                          /\ answered'[proc'[q].task][proc'[q].req] <= crashes'
      OBVIOUS
    <3>2. q # p /\ proc'[q] = proc[q]
      BY <1>3, <2>3, <3>1
    <3>3. proc[q].task \in Tasks /\ proc[q].task # t /\ proc[q].req \in Request
      BY <1>1, <1>2, <1>6, <2>1, <3>1, <3>2, InsideHasTask DEF Inside, HandlerState
    <3>4. QED
      BY <1>1, <1>4, <2>2, <3>1, <3>2, <3>3, VerdictTypes DEF VerdictHeld
  <2>8. \A u \in Tasks, m \in Request : answered'[u][m] <= 1 + crashes'
    <3>1. answered'[t][n] <= 1 + crashes'
      BY <1>1, <1>4, <2>1, <2>2, VerdictTypes
    <3>2. \A u \in Tasks, m \in Request : u # t \/ m # n => answered'[u][m] <= 1 + crashes'
      BY <1>1, <1>4, <2>2 DEF OneVerdict
    <3>3. QED
      BY <3>1, <3>2
  <2>9. QED
    BY <2>4, <2>5, <2>6, <2>7, <2>8 DEF VerdictHeld, OneVerdict, Request, Answering
<1>8. ASSUME FetchResult(p) PROVE VerdictHeld' /\ OneVerdict'
  <2>1. proc[p].pc = "fetch" /\ t \in Tasks /\ UNCHANGED <<answered, result>>
    BY <1>5, <1>8 DEF FetchResult, At, Inside, gateVars, history
  <2>2. CASE result[t] = 0
    <3>1. Stays(p)
      BY <1>2, <1>8, <2>1, <2>2 DEF FetchResult, Leave, Fresh, Stays, Answering
    <3>2. QED
      BY <1>1, <1>3, <1>4, <2>1, <3>1, VerdictFrame DEF Stays
  <2>3. CASE result[t] # 0
    <3>1. /\ proc'[p].pc \in {"send", "reject"} /\ proc'[p].task = t
          /\ proc'[p].req = result[t]
      BY <1>2, <1>8, <2>3 DEF FetchResult, HandlerState
    <3>2. result[t] \in Request /\ 0 < result[t] /\ result[t] <= requests[t]
      BY <1>1, <2>1, <2>3, RequestBound DEF TypeOK, KeysOK, VerdictHeld, Request
    <3>3. \A q \in Responders : proc[q].pc \in Answering => proc[q].task # t
      BY <1>6, <2>1 DEF Answering, Inside
    <3>4. answered[t][result[t]] <= crashes
      BY <1>1, <1>4, <2>1, <3>2, <3>3 DEF VerdictHeld, TypeOK, HistoryOK
    <3>5. \A u \in Tasks, m \in Request :
             answered'[u][m] > crashes' /\ result'[u] = m
                => \E q \in Responders : proc'[q].task = u /\ proc'[q].pc \in Answering
      BY <1>1, <1>3, <1>4, <2>1 DEF VerdictHeld, Answering
    <3>6. \A q \in Responders :
              proc'[q].pc \in {"send", "reject"}
                => /\ 0 < proc'[q].req /\ proc'[q].req <= requests'[proc'[q].task]
                   /\ answered'[proc'[q].task][proc'[q].req] <= crashes'
      BY <1>1, <1>3, <1>4, <2>1, <3>1, <3>2, <3>4 DEF VerdictHeld
    <3>7. QED
      BY <1>1, <1>4, <2>1, <3>5, <3>6 DEF VerdictHeld, OneVerdict, Request, Answering
  <2>4. QED
    BY <2>2, <2>3
<1>9. ASSUME WipeKeys(p) PROVE VerdictHeld' /\ OneVerdict'
  <2>1. /\ proc[p].pc = "wipe" /\ t \in Tasks /\ UNCHANGED answered
        /\ result' = [result EXCEPT ![t] = 0] /\ proc'[p].pc = "unpend"
    BY <1>2, <1>5, <1>9 DEF WipeKeys, WithoutResult, At, Inside, Leave, Fresh, history
  <2>2. \A u \in Tasks : result'[u] = IF u = t THEN 0 ELSE result[u]
    BY <1>1, <2>1 DEF TypeOK, KeysOK
  <2>3. \A u \in Tasks : result'[u] <= requests'[u]
    BY <1>1, <1>4, <2>2, RequestBound DEF VerdictHeld, TypeOK, QueuesOK, Request
  <2>4. \A u \in Tasks, m \in Request :
           answered'[u][m] > crashes' /\ result'[u] = m
              => \E q \in Responders : proc'[q].task = u /\ proc'[q].pc \in Answering
    <3>1. SUFFICES ASSUME NEW u \in Tasks, NEW m \in Request, answered[u][m] > crashes, result'[u] = m
                   PROVE  \E q \in Responders : proc'[q].task = u /\ proc'[q].pc \in Answering
      BY <1>4, <2>1
    <3>2. u # t /\ result[u] = m
      BY <1>1, <2>2, <3>1, RequestBound, VerdictTypes DEF VerdictHeld, Request
    <3>3. PICK q \in Responders : proc[q].task = u /\ proc[q].pc \in Answering
      BY <1>1, <3>1, <3>2 DEF VerdictHeld
    <3>4. QED
      BY <1>3, <3>2, <3>3
  <2>5. \A q \in Responders : proc'[q].pc \in {"send", "reject"} => proc'[q] = proc[q]
    BY <1>3, <2>1
  <2>6. \A q \in Responders :
            proc'[q].pc \in {"send", "reject"}
              => /\ 0 < proc'[q].req /\ proc'[q].req <= requests'[proc'[q].task]
                 /\ answered'[proc'[q].task][proc'[q].req] <= crashes'
    BY <1>1, <1>4, <2>1, <2>5 DEF VerdictHeld
  <2>7. QED
    BY <1>1, <1>4, <2>1, <2>3, <2>4, <2>6 DEF VerdictHeld, OneVerdict, Request, Answering
<1>10. ASSUME ~SendApproved(p), ~CountRejection(p), ~FetchResult(p), ~WipeKeys(p)
       PROVE  VerdictHeld' /\ OneVerdict'
  <2>1. UNCHANGED <<answered, result>>
    BY <1>10 DEF RespondStep, ClearStep, Lookup, Ignore, Acquire, LoadMeta, BookDelivery,
       PauseRejected, ScheduleRetry, FailResponse, Release, ReadRoomRef, ClearPending,
       CancelTimeouts, FailClear, gateVars, history
  <2>2. Stays(p)
    BY <1>2, <1>10 DEF RespondStep, ClearStep, Lookup, Ignore, Acquire, LoadMeta,
       BookDelivery, PauseRejected, ScheduleRetry, FailResponse, Release, ReadRoomRef,
       ClearPending, CancelTimeouts, FailClear, AfterClear, At, Go, Leave, Stop, IdleProc,
       Fresh, HandlerState, Stays, Answering
  <2>3. QED
    BY <1>1, <1>3, <1>4, <2>1, <2>2, VerdictFrame DEF Stays
<1>11. QED
  BY <1>7, <1>8, <1>9, <1>10

(* As long as no handler outlives its lock, a stored result gets at most one *)
(* verdict, and one more for every restart, failures of the handler included. *)
THEOREM VerdictHolds ==
  ASSUME ~LockMayExpire
  PROVE  Spec => []OneVerdict
<1>1. Init => VerdictInv
  BY InitTypeOK, GateAssumption DEF Init, VerdictInv, LockInv, LockHeld, HandlersExclusive,
     VerdictHeld, OneVerdict, IdleProc, Fresh, Inside, Handlers
<1>2. VerdictInv /\ [Next]_vars => VerdictInv'
  <2> SUFFICES ASSUME VerdictInv, [Next]_vars PROVE VerdictInv'
    OBVIOUS
  <2>1. LockInv /\ TypeOK /\ VerdictHeld /\ OneVerdict
    BY DEF VerdictInv, LockInv
  <2>2. LockInv'
    BY <2>1, LockStep, TypeStep DEF LockInv
  <2>3. ASSUME UNCHANGED vars PROVE VerdictHeld' /\ OneVerdict'
    BY <2>1, <2>3, VerdictFrame DEF vars, history, gateVars, Stays
  <2>4. ASSUME NEW p \in Responders, RespondStep(p) PROVE VerdictHeld' /\ OneVerdict'
    BY <2>4, RespondVerdict
  <2>5. ASSUME \/ \E d \in Delivers : DeliverStep(d)
               \/ \E p \in Expirers : ExpireStep(p)
               \/ \E t \in Tasks : TaskStep(t)
               \/ Crash
        PROVE  VerdictHeld' /\ OneVerdict'
    BY <2>5, OthersVerdict
  <2>6. QED
    BY <2>2, <2>3, <2>4, <2>5 DEF Next, VerdictInv
<1>3. VerdictInv => OneVerdict
  BY DEF VerdictInv
<1>4. QED
  BY <1>1, <1>2, <1>3, PTL DEF Spec

-----------------------------------------------------------------------------
(* No answer before the question.  While the stored result is neither posted  *)
(* nor put up beside an open request, nothing of the task is pending, every   *)
(* deliver job of it is still before the message, and no responder is past    *)
(* the pending check.                                                         *)

Asked == {"fetch", "send", "reject"}
NoneOpen(t) ==
    /\ meta[t].pending = 0
    /\ \A d \in Delivers : job[d].task = t => job[d].pc \in {"rooms", "post"} /\ job[d].req = result[t]
    /\ \A p \in Responders : proc[p].task = t => proc[p].pc # "fetch"
AskedHeld ==
    /\ \A t \in Tasks : result[t] # 0 /\ result[t] \notin posted[t] \cup joined[t] => NoneOpen(t)
    /\ \A p \in Responders : proc[p].pc \in {"send", "reject"} =>
        proc[p].req \in posted[proc[p].task] \cup joined[proc[p].task]

AskedInv == TypeOK /\ AskedHeld /\ NoUnaskedAnswer

(* What a step may do to a pending request, a stored result, a deliver job,   *)
(* an answer and a handler.                                                   *)
PendingKept == \A t \in Tasks : meta'[t].pending \in {meta[t].pending, 0}
ResultKept == \A t \in Tasks : result'[t] \in {result[t], 0}
AskingKept ==
    \A d \in Delivers : job'[d].task \in Tasks =>
        /\ job'[d].task = job[d].task /\ job'[d].req = job[d].req
        /\ job[d].pc \in {"rooms", "post"} => job'[d].pc \in {"rooms", "post"}
AskersStay(qs) == \A q \in qs : proc'[q] = proc[q] \/ proc'[q].pc \notin Asked

LEMMA PendingOf ==
  ASSUME TypeOK, NEW t \in Tasks, NEW x,
         \/ meta' = [meta EXCEPT ![t].rejections = x]
         \/ meta' = [meta EXCEPT ![t].status = x]
  PROVE  PendingKept
<1> DEFINE m == [meta[t] EXCEPT !.rejections = x]
           s == [meta[t] EXCEPT !.status = x]
<1>1. meta \in [Tasks -> MetaState] /\ meta[t] \in MetaState
  BY DEF TypeOK, MetaOK
<1>2. m.pending = meta[t].pending /\ s.pending = meta[t].pending
  BY <1>1 DEF MetaState
<1>3. meta' = [meta EXCEPT ![t] = m] \/ meta' = [meta EXCEPT ![t] = s]
  OBVIOUS
<1> HIDE DEF m, s
<1>4. QED
  BY <1>1, <1>2, <1>3 DEF PendingKept

LEMMA AskedFrame ==
  ASSUME AskedInv, PendingKept, ResultKept, AskingKept, AskersStay(Responders),
         UNCHANGED <<posted, joined, answered>>
  PROVE  AskedHeld' /\ NoUnaskedAnswer'
<1>1. ASSUME NEW t \in Tasks, result'[t] # 0, result'[t] \notin posted'[t] \cup joined'[t]
      PROVE NoneOpen(t)'
  <2>1. result'[t] = result[t] /\ NoneOpen(t)
    BY <1>1 DEF AskedInv, AskedHeld, ResultKept
  <2>2. meta'[t].pending = 0
    BY <2>1 DEF PendingKept, NoneOpen
  <2>3. \A d \in Delivers : job'[d].task = t => job'[d].pc \in {"rooms", "post"} /\ job'[d].req = result'[t]
    BY <2>1 DEF AskingKept, NoneOpen
  <2>4. \A p \in Responders : proc'[p].task = t => proc'[p].pc # "fetch"
    BY <2>1 DEF AskersStay, NoneOpen, Asked
  <2>5. QED
    BY <2>2, <2>3, <2>4 DEF NoneOpen
<1>2. \A p \in Responders : proc'[p].pc \in {"send", "reject"} =>
        proc'[p].req \in posted'[proc'[p].task] \cup joined'[proc'[p].task]
  BY DEF AskedInv, AskedHeld, AskersStay, Asked
<1>3. NoUnaskedAnswer'
  BY DEF AskedInv, NoUnaskedAnswer
<1>4. QED
  BY <1>1, <1>2, <1>3 DEF AskedHeld

(* A deliver job past its first steps leaves the stored result as it was.     *)
LEMMA SameAsking ==
  ASSUME UNCHANGED job
  PROVE  AskingKept
BY DEF AskingKept

LEMMA ClearAsks ==
  ASSUME TypeOK, NEW p \in Handlers, ClearStep(p)
  PROVE  PendingKept /\ ResultKept /\ AskersStay(Handlers) /\ UNCHANGED <<posted, joined, answered, job>>
<1> USE DEF TypeOK, MetaOK, MetaState, ProcOK, HandlerState, PendingKept, AskersStay, Asked,
        At, Go, Leave, Fresh, history, ResultKept, KeysOK, gateVars
<1>1. CASE ReadRoomRef(p)
  BY <1>1 DEF ReadRoomRef
<1>2. CASE WipeKeys(p)
  BY <1>2 DEF WipeKeys, WithoutResult
<1>3. CASE ClearPending(p)
  BY <1>3 DEF ClearPending
<1>4. CASE CancelTimeouts(p)
  BY <1>4 DEF CancelTimeouts, AfterClear
<1>5. CASE FailClear(p)
  BY <1>5 DEF FailClear
<1>6. QED
  BY <1>1, <1>2, <1>3, <1>4, <1>5 DEF ClearStep

(* A request stored while another is open is known from the start; one stored *)
(* alone finds nothing pending.                                               *)
LEMMA StartAsks ==
  ASSUME AskedInv, NEW d \in Delivers, NEW t \in Tasks, StartRequest(d, t)
  PROVE  AskedHeld' /\ NoUnaskedAnswer'
<1> DEFINE n == requests'[t]
<1>1. /\ result \in [Tasks -> Request] /\ job \in [Delivers -> DeliverState]
      /\ joined \in [Tasks -> SUBSET Request]
  BY DEF AskedInv, TypeOK, KeysOK, JobOK, HistoryOK
<1>2. /\ UNCHANGED <<meta, proc, posted, answered>>
      /\ result' = [result EXCEPT ![t] = n]
      /\ job' = [job EXCEPT ![d] = [pc |-> "rooms", task |-> t, req |-> n]]
      /\ joined' = [joined EXCEPT ![t] = IF OpenFor(t) THEN joined[t] \cup {n} ELSE joined[t]]
  BY DEF StartRequest
<1> HIDE DEF n
<1>3. /\ \A s \in Tasks : joined[s] \subseteq joined'[s]
      /\ \A s \in Tasks : s # t => result'[s] = result[s] /\ joined'[s] = joined[s]
      /\ result'[t] = n
      /\ OpenFor(t) => n \in joined'[t]
  BY <1>1, <1>2
<1>4. /\ job'[d] = [pc |-> "rooms", task |-> t, req |-> n]
      /\ \A e \in Delivers : e # d => job'[e] = job[e]
  BY <1>1, <1>2
<1>5. ASSUME NEW s \in Tasks, result'[s] # 0, result'[s] \notin posted'[s] \cup joined'[s]
      PROVE NoneOpen(s)'
  <2>1. CASE s = t
    <3>1. ~OpenFor(t)
      BY <1>3, <1>5, <2>1
    <3>2. /\ meta'[t].pending = 0
          /\ \A e \in Delivers : job[e].task # t
          /\ \A p \in Responders : proc'[p].task = t => proc'[p].pc # "fetch"
      BY <1>2, <3>1 DEF OpenFor
    <3>3. \A e \in Delivers : job'[e].task = t => job'[e].pc \in {"rooms", "post"} /\ job'[e].req = result'[t]
      BY <1>3, <1>4, <3>2
    <3>4. QED
      BY <2>1, <3>2, <3>3 DEF NoneOpen
  <2>2. CASE s # t
    <3>1. NoneOpen(s) /\ result'[s] = result[s]
      BY <1>2, <1>3, <1>5, <2>2 DEF AskedInv, AskedHeld
    <3>2. \A e \in Delivers : job'[e].task = s => job'[e] = job[e]
      BY <1>4, <2>2
    <3>3. QED
      BY <1>2, <3>1, <3>2 DEF NoneOpen
  <2>3. QED
    BY <2>1, <2>2
<1>6. \A p \in Responders : proc'[p].pc \in {"send", "reject"} =>
        proc'[p].req \in posted'[proc'[p].task] \cup joined'[proc'[p].task]
  <2>1. ASSUME NEW p \in Responders, proc[p].pc \in {"send", "reject"}
        PROVE  proc[p].req \in posted[proc[p].task] \cup joined'[proc[p].task]
    <3>1. proc[p].task \in Tasks /\ proc[p].req \in posted[proc[p].task] \cup joined[proc[p].task]
      BY <2>1 DEF AskedInv, AskedHeld, TypeOK, ProcOK, Handlers
    <3>2. QED
      BY <1>3, <3>1
  <2>2. QED
    BY <1>2, <2>1
<1>7. NoUnaskedAnswer'
  BY <1>2, <1>3 DEF AskedInv, NoUnaskedAnswer
<1>8. QED
  BY <1>5, <1>6, <1>7 DEF AskedHeld

LEMMA PostAsks ==
  ASSUME AskedInv, NEW d \in Delivers, PostRequest(d)
  PROVE  AskedHeld' /\ NoUnaskedAnswer'
<1> DEFINE t == job[d].task
           n == job[d].req
<1>1. /\ posted \in [Tasks -> SUBSET Request] /\ job \in [Delivers -> DeliverState] /\ t \in Tasks
  BY DEF AskedInv, TypeOK, JobOK, HistoryOK, PostRequest
<1>2. /\ UNCHANGED <<meta, proc, joined, answered, result>>
      /\ posted' = [posted EXCEPT ![t] = posted[t] \cup {n}]
      /\ job' = [job EXCEPT ![d].pc = "record"] /\ job[d].pc = "post"
  BY DEF PostRequest, gateVars
<1>3. \A s \in Tasks : posted[s] \subseteq posted'[s]
  BY <1>1, <1>2
<1>4. n \in posted'[t]
  BY <1>1, <1>2
<1>5. /\ \A e \in Delivers : job'[e].task = job[e].task /\ job'[e].req = job[e].req
      /\ \A e \in Delivers : e # d => job'[e] = job[e]
  BY <1>1, <1>2 DEF DeliverState
<1>6. ASSUME NEW s \in Tasks, result'[s] # 0, result'[s] \notin posted'[s] \cup joined'[s]
      PROVE NoneOpen(s)'
  <2>1. NoneOpen(s) /\ result'[s] = result[s]
    BY <1>2, <1>3, <1>6 DEF AskedInv, AskedHeld
  <2>2. s # t
    BY <1>2, <1>4, <1>6, <2>1 DEF NoneOpen
  <2>3. \A e \in Delivers : job'[e].task = s => job'[e] = job[e]
    BY <1>5, <2>2
  <2>4. QED
    BY <1>2, <2>1, <2>3 DEF NoneOpen
<1> HIDE DEF n, t
<1>7. \A p \in Responders : proc'[p].pc \in {"send", "reject"} =>
        proc'[p].req \in posted'[proc'[p].task] \cup joined'[proc'[p].task]
  <2>1. ASSUME NEW p \in Responders, proc[p].pc \in {"send", "reject"}
        PROVE  proc[p].req \in posted'[proc[p].task] \cup joined[proc[p].task]
    <3>1. proc[p].task \in Tasks /\ proc[p].req \in posted[proc[p].task] \cup joined[proc[p].task]
      BY <2>1 DEF AskedInv, AskedHeld, TypeOK, ProcOK, Handlers
    <3>2. QED
      BY <1>3, <3>1
  <2>2. QED
    BY <1>2, <2>1
<1>8. NoUnaskedAnswer'
  BY <1>2, <1>3 DEF AskedInv, NoUnaskedAnswer
<1>9. QED
  BY <1>6, <1>7, <1>8 DEF AskedHeld

(* Recording a request: its message is in the room, so the stored result is   *)
(* known already.                                                             *)
LEMMA RecordAsks ==
  ASSUME AskedInv, NEW d \in Delivers, RecordPending(d)
  PROVE  AskedHeld' /\ NoUnaskedAnswer'
<1> DEFINE t == job[d].task
<1>1. /\ meta \in [Tasks -> MetaState] /\ job \in [Delivers -> DeliverState] /\ t \in Tasks
  BY DEF AskedInv, TypeOK, JobOK, MetaOK, RecordPending
<1>2. /\ UNCHANGED <<proc, posted, joined, answered, result>>
      /\ meta' = [meta EXCEPT ![t].pending = job[d].req]
      /\ job' = [job EXCEPT ![d].pc = "timeouts"] /\ job[d].pc = "record"
  BY DEF RecordPending, gateVars, history
<1>3. /\ \A s \in Tasks : s # t => meta'[s] = meta[s]
      /\ \A e \in Delivers : e # d => job'[e] = job[e]
      /\ job'[d].task = t
  BY <1>1, <1>2 DEF DeliverState
<1>4. ASSUME NEW s \in Tasks, result'[s] # 0, result'[s] \notin posted'[s] \cup joined'[s]
      PROVE NoneOpen(s)'
  <2>1. NoneOpen(s)
    BY <1>2, <1>4 DEF AskedInv, AskedHeld
  <2>2. s # t
    BY <1>2, <2>1 DEF NoneOpen
  <2>3. meta'[s] = meta[s] /\ \A e \in Delivers : job'[e].task = s => job'[e] = job[e]
    BY <1>3, <2>2
  <2>4. QED
    BY <1>2, <2>1, <2>3 DEF NoneOpen
<1> HIDE DEF t
<1>5. \A p \in Responders : proc'[p].pc \in {"send", "reject"} =>
        proc'[p].req \in posted'[proc'[p].task] \cup joined'[proc'[p].task]
  BY <1>2 DEF AskedInv, AskedHeld
<1>6. QED
  BY <1>2, <1>4, <1>5 DEF AskedInv, AskedHeld, NoUnaskedAnswer

LEMMA DeliverAsks ==
  ASSUME AskedInv, NEW d \in Delivers, DeliverStep(d)
  PROVE  AskedHeld' /\ NoUnaskedAnswer'
<1>1. CASE StoreRoomKeys(d) \/ ScheduleTimeouts(d) \/ EndDeliver(d) \/ FailRequest(d)
  <2>1. /\ meta \in [Tasks -> MetaState] /\ job \in [Delivers -> DeliverState]
        /\ NoTask \notin Tasks
    BY GateAssumption DEF AskedInv, TypeOK, MetaOK, JobOK
  <2>2. UNCHANGED <<proc, posted, joined, answered, result>>
    BY <1>1 DEF StoreRoomKeys, ScheduleTimeouts, EndDeliver, FailRequest, gateVars, history
  <2>3. PendingKept
    BY <2>1, <1>1 DEF StoreRoomKeys, ScheduleTimeouts, EndDeliver, FailRequest, PendingKept, MetaState
  <2>4. AskingKept
    BY <2>1, <1>1 DEF StoreRoomKeys, ScheduleTimeouts, EndDeliver, FailRequest, AskingKept, DeliverState,
       IdleJob
  <2>5. QED
    BY <2>2, <2>3, <2>4, AskedFrame DEF ResultKept, AskersStay
<1>2. QED
  BY <1>1, StartAsks, PostAsks, RecordAsks DEF DeliverStep

(* LoadMeta passes only with a request pending, FetchResult reads the result  *)
(* that is stored then.                                                       *)
LEMMA ReadAsks ==
  ASSUME AskedInv, NEW p \in Responders, LoadMeta(p) \/ FetchResult(p)
  PROVE  AskedHeld' /\ NoUnaskedAnswer'
<1> DEFINE t == proc[p].task
<1>1. /\ p \in Handlers /\ proc \in [Handlers -> HandlerState] /\ Responders \subseteq Handlers
      /\ t \in Tasks
      /\ proc[p].pc = "load" \/ proc[p].pc = "fetch"
  BY DEF AskedInv, TypeOK, ProcOK, Handlers, LoadMeta, FetchResult, At
<1>2. UNCHANGED <<meta, job, posted, joined, answered, result>>
  BY DEF LoadMeta, FetchResult, history, gateVars
<1>3. \A q \in Responders : q # p => proc'[q] = proc[q]
  BY <1>1 DEF LoadMeta, FetchResult, Leave
<1>4. /\ proc'[p].task = t
      /\ proc'[p].pc = "fetch" => meta[t].pending # 0
      /\ proc'[p].pc \in {"send", "reject"} => proc[p].pc = "fetch" /\ result[t] # 0 /\ proc'[p].req = result[t]
  BY <1>1 DEF LoadMeta, FetchResult, Leave, Fresh, NothingPending, At, HandlerState
<1> HIDE DEF t
<1>5. ASSUME NEW s \in Tasks, result'[s] # 0, result'[s] \notin posted'[s] \cup joined'[s]
      PROVE NoneOpen(s)'
  <2>1. NoneOpen(s)
    BY <1>2, <1>5 DEF AskedInv, AskedHeld
  <2>2. proc'[p].task = s => proc'[p].pc # "fetch"
    BY <1>4, <2>1 DEF NoneOpen
  <2>3. QED
    BY <1>2, <1>3, <2>1, <2>2 DEF NoneOpen
<1>6. ASSUME NEW q \in Responders, proc'[q].pc \in {"send", "reject"}
      PROVE  proc'[q].req \in posted'[proc'[q].task] \cup joined'[proc'[q].task]
  <2>1. CASE q = p
    <3>1. ~NoneOpen(t)
      BY <1>4, <1>6, <2>1 DEF NoneOpen, t
    <3>2. result[t] \in posted[t] \cup joined[t]
      BY <1>1, <1>4, <1>6, <2>1, <3>1 DEF AskedInv, AskedHeld, t
    <3>3. QED
      BY <1>2, <1>4, <1>6, <2>1, <3>2
  <2>2. CASE q # p
    BY <1>2, <1>3, <1>6, <2>2 DEF AskedInv, AskedHeld
  <2>3. QED
    BY <2>1, <2>2
<1>7. QED
  BY <1>2, <1>5, <1>6 DEF AskedInv, AskedHeld, NoUnaskedAnswer

LEMMA VerdictAsks ==
  ASSUME AskedInv, NEW p \in Responders, SendApproved(p) \/ CountRejection(p)
  PROVE  AskedHeld' /\ NoUnaskedAnswer'
<1> DEFINE t == proc[p].task
           n == proc[p].req
<1>0. /\ p \in Handlers /\ proc \in [Handlers -> HandlerState] /\ Responders \subseteq Handlers
      /\ answered \in [Tasks -> [Request -> Nat]] /\ TypeOK
  BY DEF AskedInv, TypeOK, HistoryOK, ProcOK, Handlers
<1>1. /\ t \in Tasks /\ n \in Request /\ n \in posted[t] \cup joined[t]
      /\ UNCHANGED <<posted, joined, job, result>>
  BY <1>0 DEF SendApproved, CountRejection, At, AskedInv, AskedHeld, HandlerState, history, gateVars,
     TypeOK, ProcOK
<1>2. answered' = [answered EXCEPT ![t][n] = @ + 1]
  BY DEF SendApproved, CountRejection
<1>3. PendingKept
  <2>1. UNCHANGED meta \/ meta' = [meta EXCEPT ![t].rejections = proc[p].seen + 1]
    BY DEF SendApproved, CountRejection
  <2>2. QED
    BY <1>0, <1>1, <2>1, PendingOf DEF PendingKept
<1>4. AskersStay(Responders)
  BY <1>0 DEF SendApproved, CountRejection, AskersStay, Leave, Fresh, Asked
<1> HIDE DEF t, n
<1>5. \A s \in Tasks : \A k \in Request : answered'[s][k] # answered[s][k] => s = t /\ k = n
  BY <1>0, <1>1, <1>2
<1>6. NoUnaskedAnswer'
  <2>1. ASSUME NEW s \in Tasks, NEW k \in Request, answered'[s][k] > 0
        PROVE  k \in posted'[s] \cup joined'[s]
    BY <1>1, <1>5, <2>1 DEF AskedInv, NoUnaskedAnswer
  <2>2. QED
    BY <2>1 DEF NoUnaskedAnswer
<1>7. \A s \in Tasks : result'[s] # 0 /\ result'[s] \notin posted'[s] \cup joined'[s] => NoneOpen(s)'
  BY <1>1, <1>3, <1>4 DEF AskedInv, AskedHeld, PendingKept, AskersStay, NoneOpen, Asked
<1>8. \A q \in Responders : proc'[q].pc \in {"send", "reject"} =>
        proc'[q].req \in posted'[proc'[q].task] \cup joined'[proc'[q].task]
  BY <1>1, <1>4 DEF AskedInv, AskedHeld, AskersStay, Asked
<1>9. QED
  BY <1>6, <1>7, <1>8 DEF AskedHeld

LEMMA RespondAsks ==
  ASSUME AskedInv, NEW p \in Responders, RespondStep(p)
  PROVE  AskedHeld' /\ NoUnaskedAnswer'
<1>0. /\ p \in Handlers /\ proc \in [Handlers -> HandlerState] /\ Responders \subseteq Handlers
      /\ meta \in [Tasks -> MetaState]
      /\ proc[p].pc # "idle" => proc[p].task \in Tasks
      /\ TypeOK
  BY DEF AskedInv, TypeOK, MetaOK, ProcOK, Handlers
<1>1. CASE LoadMeta(p) \/ FetchResult(p)
  BY <1>1, ReadAsks
<1>2. CASE SendApproved(p) \/ CountRejection(p)
  BY <1>2, VerdictAsks
<1>3. CASE /\ ~LoadMeta(p) /\ ~FetchResult(p) /\ ~SendApproved(p) /\ ~CountRejection(p)
           /\ ~ClearStep(p)
  <2>1. UNCHANGED <<posted, joined, answered, job, result>>
    BY <1>3 DEF RespondStep, Lookup, Ignore, Acquire, BookDelivery, PauseRejected, ScheduleRetry,
       FailResponse, Release, history, gateVars
  <2>2. PendingKept
    <3>1. CASE BookDelivery(p) \/ PauseRejected(p)
      <4>1. /\ \/ meta' = [meta EXCEPT ![proc[p].task].rejections = 0]
               \/ meta' = [meta EXCEPT ![proc[p].task].status = "paused"]
            /\ proc[p].task \in Tasks
        BY <1>0, <3>1 DEF BookDelivery, PauseRejected, At
      <4>2. QED
        BY <1>0, <4>1, PendingOf
    <3>2. CASE ~BookDelivery(p) /\ ~PauseRejected(p)
      <4>1. UNCHANGED meta
        BY <1>3, <3>2 DEF RespondStep, Lookup, Ignore, Acquire, ScheduleRetry, FailResponse, Release
      <4>2. QED
        BY <4>1 DEF PendingKept
    <3>3. QED
      BY <3>1, <3>2
  <2>3. AskersStay(Responders)
    BY <1>0, <1>3 DEF RespondStep, Lookup, Ignore, Acquire, BookDelivery, PauseRejected,
       ScheduleRetry, FailResponse, Release, AskersStay, Leave, Stop, Fresh, IdleProc, Asked, HandlerState
  <2>4. QED
    BY <2>1, <2>2, <2>3, AskedFrame, SameAsking DEF ResultKept
<1>4. CASE ClearStep(p)
  BY <1>0, <1>4, ClearAsks, SameAsking, AskedFrame DEF AskersStay
<1>5. QED
  BY <1>1, <1>2, <1>3, <1>4

LEMMA OthersAsk ==
  ASSUME AskedInv,
         \/ \E p \in Expirers : ExpireStep(p)
         \/ \E t \in Tasks : TaskStep(t)
         \/ Crash
  PROVE  AskedHeld' /\ NoUnaskedAnswer'
<1>0. /\ TypeOK /\ proc \in [Handlers -> HandlerState] /\ meta \in [Tasks -> MetaState]
      /\ Expirers \subseteq Handlers /\ Responders \subseteq Handlers
      /\ result \in [Tasks -> Request]
  BY DEF AskedInv, TypeOK, MetaOK, ProcOK, Handlers, KeysOK
<1>1. ASSUME NEW p \in Expirers, ExpireStep(p) PROVE AskedHeld' /\ NoUnaskedAnswer'
  <2>1. CASE ClearStep(p)
    BY <1>0, <2>1, ClearAsks, SameAsking, AskedFrame DEF AskersStay
  <2>2. CASE ~ClearStep(p)
    <3>1. UNCHANGED <<posted, joined, answered, job, meta>>
      BY <1>1, <2>2 DEF ExpireStep, StartExpiry, Discard, FinishExpiry, FailExpiry, history
    <3>2. AskersStay(Responders)
      BY <1>0, <1>1, <2>2 DEF ExpireStep, StartExpiry, Discard, FinishExpiry, FailExpiry, AskersStay,
         Leave, Stop, Fresh, IdleProc, Asked
    <3>3. PendingKept
      BY <3>1 DEF PendingKept
    <3>4. ResultKept
      BY <1>0, <1>1, <2>2 DEF ExpireStep, StartExpiry, Discard, FinishExpiry, FailExpiry, ResultKept,
         gateVars
    <3>5. QED
      BY <3>1, <3>2, <3>3, <3>4, SameAsking, AskedFrame
  <2>3. QED
    BY <2>1, <2>2
<1>2. ASSUME NEW t \in Tasks, TaskStep(t) PROVE AskedHeld' /\ NoUnaskedAnswer'
  <2>1. UNCHANGED <<posted, joined, answered, job, proc>>
    BY <1>2 DEF TaskStep, CronTick, SkipDeliver, RetireExpiry, PauseTask, ResumeTask, CancelTask,
       ExpireKeys, ExpireLock, history
  <2>2. PendingKept
    <3>1. CASE PauseTask(t) \/ ResumeTask(t) \/ CancelTask(t)
      BY <1>0, <3>1 DEF PauseTask, ResumeTask, CancelTask, PendingKept, MetaState
    <3>2. CASE ~PauseTask(t) /\ ~ResumeTask(t) /\ ~CancelTask(t)
      <4>1. UNCHANGED meta
        BY <1>2, <3>2 DEF TaskStep, CronTick, SkipDeliver, RetireExpiry, ExpireKeys, ExpireLock
      <4>2. QED
        BY <4>1 DEF PendingKept
    <3>3. QED
      BY <3>1, <3>2
  <2>3. ResultKept
    BY <1>0, <1>2 DEF TaskStep, CronTick, SkipDeliver, RetireExpiry, PauseTask, ResumeTask, CancelTask,
       ExpireKeys, ExpireLock, ResultKept, gateVars
  <2>4. QED
    BY <2>1, <2>2, <2>3, SameAsking, AskedFrame DEF AskersStay
<1>3. CASE Crash
  <2>1. UNCHANGED <<posted, joined, answered, meta, result>>
    BY <1>3 DEF Crash, history, gateVars
  <2>2. AskersStay(Responders) /\ AskingKept
    BY <1>3, GateAssumption DEF Crash, AskersStay, IdleProc, IdleJob, Fresh, Asked, AskingKept, Handlers
  <2>3. QED
    BY <2>1, <2>2, AskedFrame DEF PendingKept, ResultKept
<1>4. QED
  BY <1>1, <1>2, <1>3

(* Every result that is sent or rejected was asked about before, in a message *)
(* of its own or, when it was put up beside an open request, in that one's:   *)
(* the responder looks for a pending request first, and requestApproval       *)
(* records one only after the message.                                        *)
THEOREM AnswersAreAsked == Spec => []NoUnaskedAnswer
<1>1. Init => AskedInv
  BY InitTypeOK DEF Init, AskedInv, AskedHeld, NoUnaskedAnswer, IdleProc, IdleJob, Fresh, Handlers
<1>2. AskedInv /\ [Next]_vars => AskedInv'
  <2> SUFFICES ASSUME AskedInv, [Next]_vars PROVE AskedInv'
    OBVIOUS
  <2>1. TypeOK'
    BY TypeStep DEF AskedInv
  <2>2. ASSUME UNCHANGED vars PROVE AskedHeld' /\ NoUnaskedAnswer'
    BY <2>2, AskedFrame, SameAsking DEF vars, history, gateVars, PendingKept, AskersStay, ResultKept
  <2>3. QED
    BY <2>1, <2>2, DeliverAsks, RespondAsks, OthersAsk DEF Next, AskedInv
<1>3. AskedInv => NoUnaskedAnswer
  BY DEF AskedInv
<1>4. QED
  BY <1>1, <1>2, <1>3, PTL DEF Spec

-----------------------------------------------------------------------------
(* A pending approval is reachable from its room, when no two tasks share     *)
(* one: the keys of a request are written before it is pending, a result is   *)
(* removed whenever the key of its room is, and no two requests have the same *)
(* number.                                                                    *)

OneTaskPerRoom == \A t, s \in Tasks : RoomOf[t] = RoomOf[s] => t = s

Reached(t) == roomKey[RoomOf[t]] = t
ReachHeld ==
    /\ \A t \in Tasks : result[t] <= requests[t] /\ meta[t].pending <= requests[t]
    /\ \A d \in Delivers : job[d].pc # "idle" => job[d].req \in 1..requests[job[d].task]
    /\ \A d \in Delivers : job[d].pc \in {"post", "record"} /\ result[job[d].task] = job[d].req
                             => Reached(job[d].task)

ReachInv == TypeOK /\ ReachHeld /\ AnswerReachable

(* What the other steps do to the keys and the jobs.                          *)
KeysKept == \A t \in Tasks :
    /\ result'[t] \in {result[t], 0}
    /\ result'[t] # 0 => roomKey'[RoomOf[t]] = roomKey[RoomOf[t]]
JobsKept == \A d \in Delivers : job'[d].pc # "idle" =>
    /\ job[d].pc # "idle" /\ job'[d].task = job[d].task /\ job'[d].req = job[d].req
    /\ job'[d].pc \in {"post", "record"} => job[d].pc \in {"post", "record"}

LEMMA ReachTypes ==
  ASSUME TypeOK
  PROVE  /\ meta \in [Tasks -> MetaState] /\ result \in [Tasks -> Request]
         /\ requests \in [Tasks -> Request] /\ Request \subseteq Nat /\ 0 \in Request
         /\ roomKey \in [Rooms -> Tasks \cup {NoTask}] /\ roomRef \in [Tasks -> BOOLEAN]
         /\ \A t \in Tasks : RoomOf[t] \in Rooms /\ meta[t].pending \in Request
         /\ job \in [Delivers -> DeliverState] /\ proc \in [Handlers -> HandlerState]
         /\ \A d \in Delivers : job[d].pc # "idle" => job[d].task \in Tasks
         /\ \A p \in Handlers : proc[p].pc # "idle" => proc[p].task \in Tasks
<1>1. /\ meta \in [Tasks -> MetaState] /\ result \in [Tasks -> Request]
      /\ requests \in [Tasks -> Request] /\ Request \subseteq Nat /\ 0 \in Request
      /\ roomKey \in [Rooms -> Tasks \cup {NoTask}] /\ roomRef \in [Tasks -> BOOLEAN]
      /\ \A t \in Tasks : RoomOf[t] \in Rooms
  BY GateAssumption DEF TypeOK, MetaOK, KeysOK, QueuesOK, Request
<1>2. \A t \in Tasks : meta[t].pending \in Request
  BY <1>1 DEF MetaState
<1>3. /\ job \in [Delivers -> DeliverState] /\ proc \in [Handlers -> HandlerState]
      /\ \A d \in Delivers : job[d].pc # "idle" => job[d].task \in Tasks
      /\ \A p \in Handlers : proc[p].pc # "idle" => proc[p].task \in Tasks
  BY DEF TypeOK, JobOK, ProcOK
<1>4. QED
  BY <1>1, <1>2, <1>3

LEMMA ReachFrame ==
  ASSUME ReachInv, PendingKept, KeysKept, JobsKept, UNCHANGED requests
  PROVE  ReachHeld' /\ AnswerReachable'
<1>1. TypeOK /\ ReachHeld /\ AnswerReachable
  BY DEF ReachInv
<1>2. \A t \in Tasks : result'[t] <= requests'[t] /\ meta'[t].pending <= requests'[t]
  BY <1>1, ReachTypes DEF ReachHeld, KeysKept, PendingKept
<1>3. \A d \in Delivers : job'[d].pc # "idle" => job'[d].req \in 1..requests'[job'[d].task]
  BY <1>1 DEF ReachHeld, JobsKept
<1>4. ASSUME NEW d \in Delivers, job'[d].pc \in {"post", "record"}, result'[job'[d].task] = job'[d].req
      PROVE  roomKey'[RoomOf[job'[d].task]] = job'[d].task
  <2> DEFINE t == job[d].task
  <2>1. job'[d].task = t /\ job'[d].req = job[d].req /\ job[d].pc \in {"post", "record"}
    BY <1>4 DEF JobsKept
  <2>2. t \in Tasks /\ job[d].req \in 1..requests[t] /\ requests[t] \in Nat
    BY <1>1, <2>1, ReachTypes DEF ReachHeld
  <2>3. result'[t] # 0 /\ result[t] = job[d].req
    BY <1>4, <2>1, <2>2 DEF KeysKept
  <2>4. roomKey[RoomOf[t]] = t
    BY <1>1, <2>1, <2>3 DEF ReachHeld, Reached
  <2>5. QED
    BY <2>1, <2>2, <2>3, <2>4 DEF KeysKept
<1>5. AnswerReachable'
  BY <1>1 DEF AnswerReachable, PendingKept, KeysKept
<1>6. QED
  BY <1>2, <1>3, <1>4, <1>5 DEF ReachHeld, Reached

LEMMA ClearReach ==
  ASSUME OneTaskPerRoom, TypeOK, NEW p \in Handlers, ClearStep(p)
  PROVE  KeysKept /\ UNCHANGED requests
<1>1. UNCHANGED requests
  BY DEF ClearStep, ReadRoomRef, WipeKeys, ClearPending, CancelTimeouts, FailClear
<1>2. CASE WipeKeys(p)
  <2> DEFINE t == proc[p].task
  <2>1. t \in Tasks /\ result' = [result EXCEPT ![t] = 0]
    BY <1>2, ReachTypes DEF WipeKeys, WithoutResult, At
  <2>2. \A r \in Rooms : r # RoomOf[t] => roomKey'[r] = roomKey[r]
    BY <1>2, ReachTypes DEF WipeKeys
  <2> HIDE DEF t
  <2>3. QED
    BY <1>1, <2>1, <2>2, ReachTypes DEF KeysKept, OneTaskPerRoom
<1>3. CASE ~WipeKeys(p)
  <2>1. UNCHANGED <<result, roomKey>>
    BY <1>3 DEF ClearStep, ReadRoomRef, ClearPending, CancelTimeouts, FailClear, gateVars
  <2>2. QED
    BY <1>1, <2>1 DEF KeysKept
<1>4. QED
  BY <1>2, <1>3

LEMMA DeliverReach ==
  ASSUME OneTaskPerRoom, ReachInv, NEW d \in Delivers, DeliverStep(d)
  PROVE  ReachHeld' /\ AnswerReachable'
<1>0. TypeOK /\ ReachHeld /\ AnswerReachable
  BY DEF ReachInv
<1>1. ASSUME NEW t \in Tasks, StartRequest(d, t)
      PROVE  ReachHeld' /\ AnswerReachable'
  <2> DEFINE n == requests[t] + 1
  <2>1. /\ requests' = [requests EXCEPT ![t] = n] /\ result' = [result EXCEPT ![t] = requests'[t]]
        /\ job' = [job EXCEPT ![d] = [pc |-> "rooms", task |-> t, req |-> requests'[t]]]
        /\ UNCHANGED <<meta, roomKey>>
    BY <1>1 DEF StartRequest
  <2>2. n \in Nat /\ requests[t] \in Nat /\ requests'[t] = n
    BY <1>0, <2>1, ReachTypes
  <2>3. /\ result' = [result EXCEPT ![t] = n]
        /\ job' = [job EXCEPT ![d] = [pc |-> "rooms", task |-> t, req |-> n]]
    BY <2>1, <2>2
  <2>4. n > requests[t] /\ n # 0
    BY <2>2
  <2> HIDE DEF n
  <2>5. \A s \in Tasks : /\ requests'[s] = IF s = t THEN n ELSE requests[s]
                         /\ result'[s] = IF s = t THEN n ELSE result[s]
    BY <1>0, <2>1, <2>3, ReachTypes
  <2>6. \A s \in Tasks : result'[s] <= requests'[s] /\ meta'[s].pending <= requests'[s]
    <3>1. \A s \in Tasks : requests[s] <= requests'[s] /\ requests'[s] \in Nat
      BY <1>0, <2>2, <2>4, <2>5, ReachTypes
    <3>2. \A s \in Tasks : result'[s] <= requests'[s]
      BY <1>0, <2>2, <2>5, ReachTypes DEF ReachHeld
    <3>3. \A s \in Tasks : meta'[s].pending <= requests'[s]
      BY <1>0, <2>1, <3>1, ReachTypes DEF ReachHeld
    <3>4. QED
      BY <3>2, <3>3
  <2>7. job'[d].pc = "rooms" /\ job'[d].task = t /\ job'[d].req = n
        /\ \A e \in Delivers : e # d => job'[e] = job[e]
    BY <1>0, <2>3, ReachTypes
  <2>8. ASSUME NEW e \in Delivers, job'[e].pc # "idle"
        PROVE  job'[e].req \in 1..requests'[job'[e].task]
    <3>1. CASE e = d
      BY <2>2, <2>4, <2>5, <2>7, <3>1
    <3>2. CASE e # d
      <4>1. job[e].task \in Tasks /\ job[e].req \in 1..requests[job[e].task] /\ job'[e] = job[e]
        BY <1>0, <2>7, <2>8, <3>2, ReachTypes DEF ReachHeld
      <4>2. requests[job[e].task] \in Nat /\ requests[job[e].task] <= requests'[job[e].task]
            /\ requests'[job[e].task] \in Nat
        BY <1>0, <2>2, <2>4, <2>5, <4>1, ReachTypes
      <4>3. QED
        BY <4>1, <4>2
    <3>3. QED
      BY <3>1, <3>2
  <2>9. ASSUME NEW e \in Delivers, job'[e].pc \in {"post", "record"}, result'[job'[e].task] = job'[e].req
        PROVE  roomKey'[RoomOf[job'[e].task]] = job'[e].task
    <3>1. e # d /\ job'[e] = job[e]
      BY <2>7, <2>9
    <3>2. job[e].task \in Tasks /\ job[e].req \in 1..requests[job[e].task]
      BY <1>0, <2>9, <3>1, ReachTypes DEF ReachHeld
    <3>3. job[e].task # t
      BY <2>2, <2>4, <2>5, <2>9, <3>1, <3>2
    <3>4. QED
      BY <1>0, <2>1, <2>5, <2>9, <3>1, <3>2, <3>3 DEF ReachHeld, Reached
  <2>10. AnswerReachable'
    <3>1. ASSUME NEW s \in Tasks, meta'[s].pending # 0, result'[s] = meta'[s].pending
          PROVE  roomKey'[RoomOf[s]] = s
      <4>1. s # t
        BY <1>0, <2>1, <2>2, <2>4, <2>5, <3>1, ReachTypes DEF ReachHeld
      <4>2. QED
        BY <1>0, <2>1, <2>5, <3>1, <4>1 DEF AnswerReachable
    <3>2. QED
      BY <3>1 DEF AnswerReachable
  <2>11. QED
    BY <2>6, <2>8, <2>9, <2>10 DEF ReachHeld, Reached
<1>2. CASE StoreRoomKeys(d)
  <2> DEFINE t == job[d].task
  <2>1. t \in Tasks /\ roomKey' = [roomKey EXCEPT ![RoomOf[t]] = t]
        /\ UNCHANGED <<meta, result, requests>> /\ job' = [job EXCEPT ![d].pc = "post"]
        /\ job[d].pc = "rooms"
    BY <1>0, <1>2, ReachTypes DEF StoreRoomKeys
  <2>2. /\ \A e \in Delivers : job'[e].task = job[e].task /\ job'[e].req = job[e].req
        /\ \A e \in Delivers : e # d => job'[e] = job[e]
    BY <1>0, <2>1, ReachTypes DEF DeliverState
  <2> HIDE DEF t
  <2>3. \A s \in Tasks : roomKey[RoomOf[s]] = s => roomKey'[RoomOf[s]] = s
    BY <1>0, <2>1, ReachTypes DEF OneTaskPerRoom
  <2>4. roomKey'[RoomOf[t]] = t
    BY <1>0, <2>1, ReachTypes
  <2>5. AnswerReachable'
    BY <1>0, <2>1, <2>3 DEF AnswerReachable
  <2>6. \A e \in Delivers : job'[e].pc # "idle" => job'[e].req \in 1..requests'[job'[e].task]
    BY <1>0, <2>1, <2>2 DEF ReachHeld
  <2>7. ASSUME NEW e \in Delivers, job'[e].pc \in {"post", "record"}, result'[job'[e].task] = job'[e].req
        PROVE  roomKey'[RoomOf[job'[e].task]] = job'[e].task
    <3>1. CASE e = d
      BY <2>2, <2>4, <3>1 DEF t
    <3>2. CASE e # d
      BY <1>0, <2>1, <2>2, <2>3, <2>7, <3>2, ReachTypes DEF ReachHeld, Reached
    <3>3. QED
      BY <3>1, <3>2
  <2>8. QED
    BY <1>0, <2>1, <2>5, <2>6, <2>7 DEF ReachHeld, Reached
<1>3. CASE RecordPending(d)
  <2> DEFINE t == job[d].task
             m == [meta[t] EXCEPT !.pending = job[d].req]
  <2>1. t \in Tasks /\ UNCHANGED <<result, roomKey, requests>> /\ job[d].pc = "record"
    BY <1>0, <1>3, ReachTypes DEF RecordPending, gateVars
  <2>2. m.pending = job[d].req /\ meta' = [meta EXCEPT ![t] = m]
    BY <1>0, <1>3, <2>1, ReachTypes DEF RecordPending, MetaState
  <2>3. /\ \A e \in Delivers : job'[e].task = job[e].task /\ job'[e].req = job[e].req
        /\ \A e \in Delivers : e # d => job'[e] = job[e]
        /\ job'[d].pc = "timeouts"
    BY <1>0, <1>3, ReachTypes DEF RecordPending, DeliverState
  <2>4. job[d].req <= requests[t]
    BY <1>0, <2>1, ReachTypes DEF ReachHeld
  <2> HIDE DEF t, m
  <2>5. \A s \in Tasks : meta'[s].pending = IF s = t THEN job[d].req ELSE meta[s].pending
    BY <1>0, <2>1, <2>2, ReachTypes
  <2>6. AnswerReachable'
    BY <1>0, <2>1, <2>5 DEF AnswerReachable, ReachHeld, Reached, t
  <2>7. \A s \in Tasks : result'[s] <= requests'[s] /\ meta'[s].pending <= requests'[s]
    BY <1>0, <2>1, <2>4, <2>5 DEF ReachHeld
  <2>8. \A e \in Delivers : job'[e].pc # "idle" => job'[e].req \in 1..requests'[job'[e].task]
    BY <1>0, <2>1, <2>3 DEF ReachHeld
  <2>9. \A e \in Delivers : job'[e].pc \in {"post", "record"} /\ result'[job'[e].task] = job'[e].req
          => roomKey'[RoomOf[job'[e].task]] = job'[e].task
    BY <1>0, <2>1, <2>3 DEF ReachHeld, Reached
  <2>10. QED
    BY <2>6, <2>7, <2>8, <2>9 DEF ReachHeld, Reached
<1>4. CASE PostRequest(d) \/ ScheduleTimeouts(d) \/ EndDeliver(d) \/ FailRequest(d)
  <2>1. UNCHANGED <<result, roomKey, requests>>
    BY <1>4 DEF PostRequest, ScheduleTimeouts, EndDeliver, FailRequest, gateVars
  <2>2. JobsKept
    BY <1>0, <1>4, ReachTypes DEF PostRequest, ScheduleTimeouts, EndDeliver, FailRequest, JobsKept,
       IdleJob, DeliverState
  <2>3. PendingKept
    <3>1. CASE EndDeliver(d)
      <4> DEFINE x == IF job[d].task \in OneShot THEN "completed" ELSE meta[job[d].task].status
      <4>1. job[d].task \in Tasks /\ meta' = [meta EXCEPT ![job[d].task].status = x]
        BY <1>0, <3>1, ReachTypes DEF EndDeliver
      <4> HIDE DEF x
      <4>2. QED
        BY <1>0, <4>1, PendingOf
    <3>2. CASE ~EndDeliver(d)
      BY <1>4, <3>2 DEF PostRequest, ScheduleTimeouts, FailRequest, PendingKept
    <3>3. QED
      BY <3>1, <3>2
  <2>4. QED
    BY <2>1, <2>2, <2>3, ReachFrame DEF KeysKept
<1>5. QED
  BY <1>1, <1>2, <1>3, <1>4 DEF DeliverStep

LEMMA RespondReach ==
  ASSUME OneTaskPerRoom, ReachInv, NEW p \in Responders, RespondStep(p)
  PROVE  ReachHeld' /\ AnswerReachable'
<1>0. TypeOK /\ p \in Handlers
  BY DEF ReachInv, Handlers
<1>1. CASE ClearStep(p)
  <2>1. JobsKept
    BY <1>0, <1>1, ClearAsks DEF JobsKept
  <2>2. QED
    BY <1>0, <1>1, <2>1, ClearAsks, ClearReach, ReachFrame
<1>2. CASE ~ClearStep(p)
  <2>1. UNCHANGED <<result, roomKey, requests, job>>
    BY <1>2 DEF RespondStep, Lookup, Ignore, Acquire, LoadMeta, FetchResult, SendApproved, BookDelivery,
       CountRejection, PauseRejected, ScheduleRetry, FailResponse, Release, gateVars
  <2>2. PendingKept
    <3>1. CASE BookDelivery(p) \/ PauseRejected(p) \/ CountRejection(p)
      <4>1. /\ \/ meta' = [meta EXCEPT ![proc[p].task].rejections = 0]
               \/ meta' = [meta EXCEPT ![proc[p].task].rejections = proc[p].seen + 1]
               \/ meta' = [meta EXCEPT ![proc[p].task].status = "paused"]
            /\ proc[p].task \in Tasks
        BY <1>0, <3>1, ReachTypes DEF BookDelivery, PauseRejected, CountRejection, At
      <4>2. QED
        BY <1>0, <4>1, PendingOf
    <3>2. CASE ~BookDelivery(p) /\ ~PauseRejected(p) /\ ~CountRejection(p)
      <4>1. UNCHANGED meta
        BY <1>2, <3>2 DEF RespondStep, Lookup, Ignore, Acquire, LoadMeta, FetchResult, SendApproved,
           ScheduleRetry, FailResponse, Release
      <4>2. QED
        BY <4>1 DEF PendingKept
    <3>3. QED
      BY <3>1, <3>2
  <2>3. QED
    BY <2>1, <2>2, ReachFrame DEF KeysKept, JobsKept
<1>3. QED
  BY <1>1, <1>2

LEMMA OthersReach ==
  ASSUME OneTaskPerRoom, ReachInv,
         \/ \E p \in Expirers : ExpireStep(p)
         \/ \E t \in Tasks : TaskStep(t)
         \/ Crash
  PROVE  ReachHeld' /\ AnswerReachable'
<1>0. TypeOK /\ Expirers \subseteq Handlers
  BY DEF ReachInv, Handlers
<1>1. ASSUME NEW p \in Expirers, ExpireStep(p) PROVE ReachHeld' /\ AnswerReachable'
  <2>1. CASE ClearStep(p)
    <3>1. JobsKept
      BY <1>0, <2>1, ClearAsks DEF JobsKept
    <3>2. QED
      BY <1>0, <2>1, <3>1, ClearAsks, ClearReach, ReachFrame
  <2>2. CASE ~ClearStep(p)
    <3>1. UNCHANGED <<roomKey, requests, job, meta>>
      BY <1>1, <2>2 DEF ExpireStep, StartExpiry, Discard, FinishExpiry, FailExpiry, gateVars
    <3>2. UNCHANGED result \/ result' = [result EXCEPT ![proc[p].task] = 0]
      BY <1>1, <2>2 DEF ExpireStep, StartExpiry, Discard, FinishExpiry, FailExpiry, gateVars
    <3>3. KeysKept
      BY <1>0, <3>1, <3>2, ReachTypes DEF KeysKept
    <3>4. QED
      BY <3>1, <3>3, ReachFrame DEF PendingKept, JobsKept
  <2>3. QED
    BY <2>1, <2>2
<1>2. ASSUME NEW t \in Tasks, TaskStep(t) PROVE ReachHeld' /\ AnswerReachable'
  <2>1. UNCHANGED <<requests, job>>
    BY <1>2 DEF TaskStep, CronTick, SkipDeliver, RetireExpiry, PauseTask, ResumeTask, CancelTask,
       ExpireKeys, ExpireLock
  <2>2. KeysKept
    <3>1. CASE ExpireKeys(t)
      <4>1. /\ result' = [result EXCEPT ![t] = 0]
            /\ \A r \in Rooms : r # RoomOf[t] => roomKey'[r] = roomKey[r]
        BY <1>0, <3>1, ReachTypes DEF ExpireKeys
      <4>2. QED
        BY <1>0, <4>1, ReachTypes DEF KeysKept, OneTaskPerRoom
    <3>2. CASE ~ExpireKeys(t)
      <4>1. UNCHANGED <<result, roomKey>>
        BY <1>2, <3>2 DEF TaskStep, CronTick, SkipDeliver, RetireExpiry, PauseTask, ResumeTask,
           CancelTask, ExpireLock, gateVars
      <4>2. QED
        BY <4>1 DEF KeysKept
    <3>3. QED
      BY <3>1, <3>2
  <2>3. PendingKept
    <3>1. CASE PauseTask(t) \/ ResumeTask(t) \/ CancelTask(t)
      <4>1. \E x : meta' = [meta EXCEPT ![t].status = x]
        BY <3>1 DEF PauseTask, ResumeTask, CancelTask
      <4>2. QED
        BY <1>0, <4>1, PendingOf
    <3>2. CASE ~PauseTask(t) /\ ~ResumeTask(t) /\ ~CancelTask(t)
      <4>1. UNCHANGED meta
        BY <1>2, <3>2 DEF TaskStep, CronTick, SkipDeliver, RetireExpiry, ExpireKeys, ExpireLock
      <4>2. QED
        BY <4>1 DEF PendingKept
    <3>3. QED
      BY <3>1, <3>2
  <2>4. QED
    BY <2>1, <2>2, <2>3, ReachFrame DEF JobsKept
<1>3. CASE Crash
  <2>1. UNCHANGED <<result, roomKey, requests, meta>> /\ \A d \in Delivers : job'[d].pc = "idle"
    BY <1>3 DEF Crash, gateVars, IdleJob
  <2>2. QED
    BY <2>1, ReachFrame DEF KeysKept, JobsKept, PendingKept
<1>4. QED
  BY <1>1, <1>2, <1>3

LEMMA ReachStep ==
  ASSUME OneTaskPerRoom, ReachInv, [Next]_vars
  PROVE  ReachInv'
<1>1. TypeOK'
  BY TypeStep DEF ReachInv
<1>2. ASSUME UNCHANGED vars PROVE ReachHeld' /\ AnswerReachable'
  BY <1>2, ReachFrame DEF vars, gateVars, PendingKept, KeysKept, JobsKept
<1>3. QED
  BY <1>1, <1>2, DeliverReach, RespondReach, OthersReach DEF Next, ReachInv

(* A pending approval whose result is still stored is found from its room,    *)
(* whatever requests, answers, expiry jobs, failures, time-outs and restarts  *)
(* come between, with any number of deliver jobs: the user's "yes" reaches it *)
(* and not the chat agent.  Two tasks that share a room take the key from     *)
(* each other.                                                                *)
THEOREM PendingIsReachable ==
  ASSUME OneTaskPerRoom
  PROVE  Spec => []AnswerReachable
<1>1. Init => ReachInv
  BY InitTypeOK, GateAssumption DEF Init, ReachInv, ReachHeld, AnswerReachable, IdleJob
<1>2. ReachInv /\ [Next]_vars => ReachInv'
  BY ReachStep
<1>3. ReachInv => AnswerReachable
  BY DEF ReachInv
<1>4. QED
  BY <1>1, <1>2, <1>3, PTL DEF Spec

(* Both together: restarts at any step, any number of them, cost a result at  *)
(* most one verdict each, and leave what is pending reachable.                *)
THEOREM CrashesAreSafe ==
  ASSUME ~LockMayExpire, OneTaskPerRoom
  PROVE  Spec => []CrashSafe
BY VerdictHolds, PendingIsReachable, PTL DEF CrashSafe
=============================================================================
