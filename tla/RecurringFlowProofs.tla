------------------------- MODULE RecurringFlowProofs -------------------------
(* Proofs about RecurringFlow, for every value of its constants.            *)
EXTENDS RecurringFlow, TLAPS

USE DEF task, Update

-----------------------------------------------------------------------------
(* Type correctness.  A job that is not over has an attempt left.           *)

WorkTriesOK == \A w \in WorkId : work[w].state \in Live => work[w].tries # 0
DeliverTriesOK == \A d \in Delivers : deliver[d].pc # "idle" => deliver[d].tries # 0

StateInv == StateOK /\ WorkTriesOK /\ DeliverTriesOK
SmallOK == answer \in {"none", "book", "clear"} /\ misled \subseteq {"lookup", "key"}
TypeInv == StateInv /\ CopiesOK /\ SmallOK

LEMMA Numbers ==
  /\ MaxWork \in Nat /\ MaxWork # 0 /\ MaxPosts \in Nat /\ MaxFailures \in Nat
  /\ WorkTries \in Nat /\ WorkTries # 0 /\ DeliverTries \in Nat /\ DeliverTries # 0
  /\ WorkTries \in 0..WorkTries /\ DeliverTries \in 0..DeliverTries /\ 0 \in Ref
  BY FlowAssumption DEF Ref

LEMMA Records ==
  /\ FirstWork \in WorkState /\ FirstWork.state = "delayed" /\ FirstWork.tries # 0
  /\ NoWork \in WorkState /\ NoWork.state = "none"
  /\ IdleDeliver \in DeliverState /\ IdleDeliver.pc = "idle"
  /\ IdleDeliver.child = 0 /\ IdleDeliver.ref = 0 /\ IdleDeliver.got = 0 /\ IdleDeliver.next = 0
  /\ IdleUser \in UserState /\ IdleUser.pc = "idle" /\ IdleUser.work = 0
<1>1. NoWork \in WorkState /\ NoWork.state = "none"
  BY Numbers DEF NoWork, WorkState
<1>2. FirstWork \in WorkState /\ FirstWork.state = "delayed" /\ FirstWork.tries # 0
  BY <1>1, Numbers DEF FirstWork, WorkState, Live
<1>3. /\ IdleDeliver \in DeliverState /\ IdleDeliver.pc = "idle"
      /\ IdleDeliver.child = 0 /\ IdleDeliver.ref = 0 /\ IdleDeliver.got = 0 /\ IdleDeliver.next = 0
  BY Numbers DEF IdleDeliver, DeliverState, Ref
<1>4. IdleUser \in UserState /\ IdleUser.pc = "idle" /\ IdleUser.work = 0
  BY Numbers DEF IdleUser, UserState, Ref
<1>5. QED
  BY <1>1, <1>2, <1>3, <1>4

LEMMA NewDeliverType ==
  ASSUME NEW c \in Ref
  PROVE  /\ NewDeliver(c) \in DeliverState /\ NewDeliver(c).tries # 0
         /\ NewDeliver(c).pc = "waiting" /\ NewDeliver(c).sent = IdleDeliver.sent
         /\ NewDeliver(c).child = c /\ NewDeliver(c).ref = 0
         /\ NewDeliver(c).got = 0 /\ NewDeliver(c).next = 0
  BY Records, Numbers DEF NewDeliver, DeliverState

LEMMA InitType == Init => TypeInv
<1> SUFFICES ASSUME Init PROVE TypeInv
  OBVIOUS
<1>1. MetaOK
  BY Numbers DEF Init, MetaOK, MetaState, Ref
<1>2. WorkOK /\ WorkTriesOK
  BY Numbers, Records DEF Init, WorkOK, WorkTriesOK, WorkId, Ref, Live
<1>3. DeliverOK /\ DeliverTriesOK
  BY Numbers, Records DEF Init, DeliverOK, DeliverTriesOK
<1>4. UserOK
  BY Numbers, Records DEF Init, UserOK
<1>5. HistoryOK
  BY Numbers DEF Init, HistoryOK
<1>6. cron \in BOOLEAN
  BY DEF Init
<1>7. CopiesOK /\ SmallOK
  BY DEF Init, CopiesOK, SmallOK
<1>8. QED
  BY <1>1, <1>2, <1>3, <1>4, <1>5, <1>6, <1>7 DEF TypeInv, StateInv, StateOK

(* What an action leaves alone keeps its type, also when a work job is added. *)
LEMMA Frame ==
  ASSUME StateInv, made' \in Ref, made <= made'
  PROVE  /\ UNCHANGED meta => MetaOK'
         /\ UNCHANGED <<made, work>> => WorkOK' /\ WorkTriesOK'
         /\ UNCHANGED deliver => DeliverOK' /\ DeliverTriesOK'
         /\ UNCHANGED user => UserOK'
         /\ UNCHANGED history => HistoryOK'
<1>1. made \in Nat /\ made' \in Nat
  BY Numbers DEF StateInv, StateOK, WorkOK, Ref
<1>2. UNCHANGED meta => MetaOK'
  BY <1>1, Numbers DEF StateInv, StateOK, MetaOK, MetaState, Ref
<1>3. UNCHANGED <<made, work>> => WorkOK' /\ WorkTriesOK'
  BY DEF StateInv, StateOK, WorkOK, WorkTriesOK
<1>4. UNCHANGED deliver => DeliverOK' /\ DeliverTriesOK'
  BY <1>1, Numbers DEF StateInv, StateOK, DeliverOK, DeliverTriesOK, DeliverState, Ref
<1>5. UNCHANGED user => UserOK'
  BY <1>1, Numbers DEF StateInv, StateOK, UserOK, UserState, Ref
<1>6. UNCHANGED history => HistoryOK'
  BY DEF StateInv, StateOK, HistoryOK, history
<1>7. QED
  BY <1>2, <1>3, <1>4, <1>5, <1>6

LEMMA Made == StateInv => made \in Ref /\ made <= made
  BY Numbers DEF StateInv, StateOK, WorkOK, Ref

(* The record of a job or of an operation replaced by one of its kind. *)
LEMMA WorkUpdate ==
  ASSUME StateInv, NEW w \in WorkId, NEW r \in WorkState, UNCHANGED made,
         work' = [work EXCEPT ![w] = r],
         r.state # "none" /\ work[w].state # "none",
         r.state \in Live => r.tries # 0
  PROVE  WorkOK' /\ WorkTriesOK'
<1>1. WorkOK'
  BY Numbers DEF StateInv, StateOK, WorkOK, WorkId, Ref
<1>2. WorkTriesOK'
  BY DEF StateInv, StateOK, WorkOK, WorkTriesOK
<1>3. QED
  BY <1>1, <1>2

LEMMA AddWorkType ==
  ASSUME StateInv, AddWork
  PROVE  /\ WorkOK' /\ WorkTriesOK'
         /\ made' \in WorkId /\ made' = made + 1 /\ made' \in Ref /\ made <= made'
<1>1. made' \in WorkId /\ made' = made + 1 /\ made' \in Ref /\ made <= made' /\ made \in Nat
  BY Numbers DEF StateInv, StateOK, WorkOK, AddWork, WorkId, Ref
<1>2. WorkOK'
  <2>1. \A w \in WorkId : w > made' <=> w > made /\ w # made'
    BY <1>1, Numbers DEF WorkId
  <2>2. QED
    BY <1>1, <2>1, Records DEF StateInv, StateOK, WorkOK, AddWork
<1>3. WorkTriesOK'
  BY <1>1, Records DEF StateInv, StateOK, WorkOK, WorkTriesOK, AddWork
<1>4. QED
  BY <1>1, <1>2, <1>3

LEMMA DeliverUpdate ==
  ASSUME StateInv, NEW d \in Delivers, NEW r \in DeliverState,
         made' \in Ref, made <= made',
         deliver' = [deliver EXCEPT ![d] = r],
         r.child <= made' /\ r.ref <= made' /\ r.got <= made' /\ r.next <= made',
         r.pc # "idle" => r.tries # 0
  PROVE  DeliverOK' /\ DeliverTriesOK'
<1>1. made \in Nat /\ made' \in Nat
  BY Numbers DEF StateInv, StateOK, WorkOK, Ref
<1>2. \A e \in Delivers : /\ deliver[e].child \in Nat /\ deliver[e].ref \in Nat
                          /\ deliver[e].got \in Nat /\ deliver[e].next \in Nat
  BY Numbers DEF StateInv, StateOK, DeliverOK, DeliverState, Ref
<1>3. DeliverOK'
  BY <1>1, <1>2 DEF StateInv, StateOK, DeliverOK
<1>4. DeliverTriesOK'
  BY DEF StateInv, StateOK, DeliverOK, DeliverTriesOK
<1>5. QED
  BY <1>3, <1>4

LEMMA UserUpdate ==
  ASSUME StateInv, NEW u \in Users, NEW r \in UserState, made' \in Ref, made <= made',
         user' = [user EXCEPT ![u] = r], r.work <= made'
  PROVE  UserOK'
<1>1. made \in Nat /\ made' \in Nat /\ \A v \in Users : user[v].work \in Nat
  BY Numbers DEF StateInv, StateOK, WorkOK, UserOK, UserState, Ref
<1>2. QED
  BY <1>1 DEF StateInv, StateOK, UserOK

LEMMA MetaUpdate ==
  ASSUME StateInv, NEW r \in MetaState, meta' = r, r.work <= made', r.pending <= made'
  PROVE  MetaOK'
  BY DEF MetaOK

(* The recurring ways in which actions move a deliver job or an operation on. *)
LEMMA GotoType ==
  ASSUME StateInv, NEW d \in Delivers, deliver[d].pc # "idle",
         NEW pc \in {"ask", "send", "mark", "book", "next", "add", "store", "failed", "count"},
         Goto(d, pc), made' \in Ref, made <= made'
  PROVE  DeliverOK' /\ DeliverTriesOK'
<1> DEFINE r == [deliver[d] EXCEPT !.pc = pc]
<1>1. deliver[d] \in DeliverState
  BY DEF StateInv, StateOK, DeliverOK
<1>2. /\ r \in DeliverState /\ r.child = deliver[d].child /\ r.ref = deliver[d].ref
      /\ r.got = deliver[d].got /\ r.next = deliver[d].next /\ r.tries = deliver[d].tries
  BY <1>1 DEF DeliverState
<1>3. /\ made \in Nat /\ made' \in Nat /\ deliver[d].child \in Nat /\ deliver[d].ref \in Nat
      /\ deliver[d].got \in Nat /\ deliver[d].next \in Nat
  BY <1>1, Numbers DEF StateInv, StateOK, WorkOK, DeliverState, Ref
<1>4. r.child <= made' /\ r.ref <= made' /\ r.got <= made' /\ r.next <= made'
  BY <1>2, <1>3 DEF StateInv, StateOK, DeliverOK
<1>5. r.tries # 0
  BY <1>2 DEF StateInv, DeliverTriesOK
<1>6. deliver' = [deliver EXCEPT ![d] = r]
  BY DEF Goto
<1> HIDE DEF r
<1>7. QED
  BY <1>2, <1>4, <1>5, <1>6, DeliverUpdate

LEMMA EndType ==
  ASSUME StateInv, NEW d \in Delivers, End(d), made' \in Ref, made <= made'
  PROVE  DeliverOK' /\ DeliverTriesOK'
<1>1. 0 <= made'
  BY Numbers DEF Ref
<1>2. QED
  BY <1>1, Records, DeliverUpdate DEF End

LEMMA ThrowType ==
  ASSUME StateInv, NEW d \in Delivers, deliver[d].pc # "idle", Throw(d), UNCHANGED made
  PROVE  DeliverOK' /\ DeliverTriesOK'
<1>1. deliver[d] \in DeliverState /\ deliver[d].child <= made /\ deliver[d].tries # 0
  BY DEF StateInv, StateOK, DeliverOK, DeliverTriesOK
<1>2. made' \in Ref /\ made <= made'
  BY Made
<1>3. CASE Exhausted(d)
  BY <1>2, <1>3, EndType DEF Throw, End
<1>4. CASE ~Exhausted(d)
  <2>1. TriesLeft(d) \in 0..DeliverTries /\ TriesLeft(d) # 0
    BY <1>1, <1>4, Numbers DEF Exhausted, TriesLeft, DeliverState
  <2>2. /\ Again(d) \in DeliverState /\ Again(d).tries = TriesLeft(d)
        /\ Again(d).child = deliver[d].child /\ Again(d).ref = 0
        /\ Again(d).got = 0 /\ Again(d).next = 0
    BY <1>1, <2>1, Records DEF Again, DeliverState
  <2>3. 0 <= made'
    BY <1>2, Numbers DEF Ref
  <2>4. QED
    BY <1>1, <1>2, <1>4, <2>1, <2>2, <2>3, DeliverUpdate DEF Throw
<1>5. QED
  BY <1>3, <1>4

LEMMA UserGoType ==
  ASSUME StateInv, NEW u \in Users, made' \in Ref, made <= made',
         NEW pc \in {"drop", "unschedule", "write", "reread", "schedule", "first", "refs"},
         UserGo(u, pc)
  PROVE  UserOK'
<1> DEFINE r == [user[u] EXCEPT !.pc = pc]
<1>1. user[u] \in UserState /\ user[u].work <= made
  BY DEF StateInv, StateOK, UserOK
<1>2. r \in UserState /\ r.work = user[u].work
  BY <1>1 DEF UserState
<1>3. made \in Nat /\ made' \in Nat /\ user[u].work \in Nat
  BY <1>1, Numbers DEF StateInv, StateOK, WorkOK, UserState, Ref
<1>4. user' = [user EXCEPT ![u] = r]
  BY DEF UserGo
<1> HIDE DEF r
<1>5. r.work <= made'
  BY <1>1, <1>2, <1>3
<1>6. QED
  BY <1>2, <1>4, <1>5, UserUpdate

LEMMA StopUserType ==
  ASSUME StateInv, NEW u \in Users, UNCHANGED made, user' = [user EXCEPT ![u] = IdleUser]
  PROVE  UserOK'
<1>1. made' \in Ref /\ made <= made' /\ 0 <= made'
  BY Made, Numbers DEF Ref
<1>2. QED
  BY <1>1, Records, UserUpdate

LEMMA CountType ==
  ASSUME NEW n \in Nat
  PROVE  CountUp(n) \in Nat
  BY Numbers DEF CountUp

LEMMA CountFailureType ==
  ASSUME StateInv, NEW n \in Nat, CountFailure(n), UNCHANGED made
  PROVE  MetaOK'
<1> DEFINE st == IF n >= MaxFailures THEN "paused" ELSE meta.status
           r == [meta EXCEPT !.failures = n, !.status = st]
<1>1. meta \in MetaState
  BY DEF StateInv, StateOK, MetaOK
<1>2. st \in {"active", "paused", "cancelled"}
  BY <1>1 DEF MetaState
<1>3. meta' = r
  BY DEF CountFailure
<1> HIDE DEF st
<1>4. r \in MetaState /\ r.work = meta.work /\ r.pending = meta.pending
  BY <1>1, <1>2 DEF MetaState
<1> HIDE DEF r
<1>5. QED
  BY <1>3, <1>4, MetaUpdate DEF StateInv, StateOK, MetaOK

LEMMA WorkType ==
  ASSUME StateInv, NEW w \in WorkId,
         StartWork(w) \/ FinishWork(w) \/ FailWork(w) \/ CountWorkFailure(w)
  PROVE  StateInv'
<1>1. /\ work[w] \in WorkState /\ UNCHANGED <<cron, made, deliver, user>>
      /\ made' \in Ref /\ made <= made' /\ meta \in MetaState
  BY Made DEF StateInv, StateOK, WorkOK, MetaOK, StartWork, FinishWork, FailWork, CountWorkFailure
<1>2. /\ DeliverOK' /\ DeliverTriesOK' /\ UserOK'
      /\ cron' \in BOOLEAN
  BY <1>1, Frame DEF StateInv, StateOK
<1>3. CASE StartWork(w)
  <2>0. PICK m \in Readable :
          work' = [work EXCEPT ![w] = IF IsRunnable(m)
                       THEN [@ EXCEPT !.state = "active"]
                       ELSE [@ EXCEPT !.state = "completed", !.skipped = TRUE]]
    BY <1>3 DEF StartWork
  <2> DEFINE r == IF IsRunnable(m) THEN [work[w] EXCEPT !.state = "active"]
                  ELSE [work[w] EXCEPT !.state = "completed", !.skipped = TRUE]
  <2>1. r \in WorkState /\ r.tries = work[w].tries /\ r.state \in {"active", "completed"}
    BY <1>1 DEF WorkState, Live
  <2>2. work' = [work EXCEPT ![w] = r] /\ work[w].state = "delayed"
    BY <1>3, <2>0 DEF StartWork
  <2> HIDE DEF r
  <2>3. WorkOK' /\ WorkTriesOK'
    BY <1>1, <2>1, <2>2, WorkUpdate DEF StateInv, WorkTriesOK, Live
  <2>4. QED
    BY <1>1, <1>2, <1>3, <2>3, Frame DEF StartWork, StateInv, StateOK
<1>4. CASE FinishWork(w)
  <2> DEFINE r == [work[w] EXCEPT !.state = "completed"]
  <2>1. r \in WorkState /\ r.state = "completed"
    BY <1>1 DEF WorkState
  <2>2. work' = [work EXCEPT ![w] = r] /\ work[w].state = "active"
    BY <1>4 DEF FinishWork
  <2> HIDE DEF r
  <2>3. WorkOK' /\ WorkTriesOK'
    BY <1>1, <2>1, <2>2, WorkUpdate DEF Live
  <2>4. MetaOK' /\ HistoryOK'
    BY <1>1, <1>4 DEF FinishWork, StateInv, StateOK, MetaOK, MetaState, HistoryOK
  <2>5. QED
    BY <1>2, <2>3, <2>4 DEF StateInv, StateOK
<1>5. CASE FailWork(w)
  <2> DEFINE n == CountUp(meta.failures)
             r == [work[w] EXCEPT !.state = "counting", !.seen = n]
  <2>1. n \in Nat
    BY <1>1, CountType DEF MetaState
  <2>2. work' = [work EXCEPT ![w] = r] /\ work[w].state = "active"
    BY <1>5 DEF FailWork
  <2> HIDE DEF n
  <2>3. r \in WorkState /\ r.state = "counting" /\ r.tries = work[w].tries
    BY <1>1, <2>1 DEF WorkState, Live
  <2> HIDE DEF r
  <2>4. WorkOK' /\ WorkTriesOK'
    BY <1>1, <2>2, <2>3, WorkUpdate DEF StateInv, WorkTriesOK, Live
  <2>5. QED
    BY <1>1, <1>2, <1>5, <2>4, Frame DEF FailWork, StateInv, StateOK
<1>6. CASE CountWorkFailure(w)
  <2> DEFINE st == IF work[w].tries = 1 THEN "failed" ELSE "delayed"
             n == work[w].tries - 1
             r == [work[w] EXCEPT !.tries = n, !.seen = 0, !.state = st]
  <2>1. work[w].state = "counting" /\ work[w].tries # 0
    BY <1>1, <1>6 DEF CountWorkFailure, StateInv, WorkTriesOK, Live
  <2>2. n \in 0..WorkTries /\ (n = 0 => work[w].tries = 1)
    BY <1>1, <2>1, Numbers DEF WorkState
  <2>3. work' = [work EXCEPT ![w] = r]
    BY <1>6 DEF CountWorkFailure, StateInv, StateOK, WorkOK
  <2>4. st \in {"failed", "delayed"} /\ (st = "delayed" => n # 0)
    BY <2>2
  <2> HIDE DEF n, st
  <2>5. r \in WorkState /\ r.tries = n /\ r.state = st
    BY <1>1, <2>2, <2>4 DEF WorkState, Live
  <2> HIDE DEF r
  <2>6. WorkOK' /\ WorkTriesOK'
    BY <1>1, <2>1, <2>3, <2>4, <2>5, WorkUpdate DEF Live
  <2>7. MetaOK'
    BY <1>1, <1>6, CountFailureType DEF CountWorkFailure, WorkState
  <2>8. QED
    BY <1>1, <1>2, <1>6, <2>6, <2>7, Frame DEF CountWorkFailure, StateInv, StateOK
<1>7. QED
  BY <1>3, <1>4, <1>5, <1>6

LEMMA PostType ==
  ASSUME StateInv, NEW w, Post(w), expired' = expired, detected' \in {0, detected}
  PROVE  HistoryOK'
<1>1. delivered \in [WorkId -> Nat] /\ posted \in Nat
  BY DEF StateInv, StateOK, HistoryOK
<1>2. delivered' = [delivered EXCEPT ![w] = delivered[w] + 1] /\ posted' = posted + 1
  BY DEF Post
<1>3. delivered' \in [WorkId -> Nat]
  <2>1. CASE w \in WorkId
    <3>1. delivered[w] + 1 \in Nat
      BY <1>1, <2>1
    <3>2. QED
      BY <1>1, <1>2, <3>1
  <2>2. CASE w \notin WorkId
    <3>1. delivered' = delivered
      BY <1>1, <1>2, <2>2
    <3>2. QED
      BY <1>1, <3>1
  <2>3. QED
    BY <2>1, <2>2
<1>4. QED
  BY <1>1, <1>2, <1>3 DEF StateInv, StateOK, HistoryOK

LEMMA DeliverType ==
  ASSUME StateInv, CopiesOK, NEW d \in Delivers, CronTick(d) \/ DeliverStep(d)
  PROVE  StateInv'
<1> USE DEF StateInv, StateOK
<1>1. made \in Ref /\ made <= made /\ made \in Nat /\ 0 <= made
  BY Made, Numbers DEF Ref
<1>2. /\ deliver[d] \in DeliverState /\ meta \in MetaState
      /\ deliver[d].child <= made /\ deliver[d].ref <= made
      /\ deliver[d].got <= made /\ deliver[d].next <= made
      /\ deliver[d].pc # "idle" => deliver[d].tries # 0
  BY DEF MetaOK, DeliverOK, DeliverTriesOK
<1>3. UNCHANGED <<cron, user>> /\ cron' \in BOOLEAN
  BY DEF CronTick, DeliverStep, StartDeliver, WorkUnfinished, WorkFailed, NoResult, GotResult, Ask,
     Send, Mark, Book, CheckNext, AddNext, StoreNext, FailDeliver, ReadFailures,
     CountDeliverFailure, LoseFailure
<1>4. CASE CronTick(d)
  <2>1. DeliverOK' /\ DeliverTriesOK'
    BY <1>1, <1>4, NewDeliverType, Numbers, DeliverUpdate DEF CronTick
  <2>2. QED
    BY <1>1, <1>3, <1>4, <2>1, Frame DEF CronTick
<1>5. CASE StartDeliver(d)
  <2>1. PICK m \in Readable : IF IsRunnable(m)
             THEN deliver' = [deliver EXCEPT ![d].pc = "result", ![d].ref = m.work]
             ELSE End(d)
    BY <1>5 DEF StartDeliver
  <2>2. m.work \in Ref /\ m.work <= made
    BY <2>1, <1>2 DEF Readable, MetaOK, CopiesOK, MetaState
  <2>3. UNCHANGED <<meta, made, work, history>> /\ deliver[d].pc = "waiting"
    BY <1>5 DEF StartDeliver
  <2>4. CASE IsRunnable(m)
    <3> DEFINE n == m.work
               r == [deliver[d] EXCEPT !.pc = "result", !.ref = n]
    <3>1. deliver' = [deliver EXCEPT ![d] = r] /\ n \in Ref /\ n <= made
      BY <2>1, <2>2, <2>4
    <3> HIDE DEF n
    <3>2. /\ r \in DeliverState /\ r.tries = deliver[d].tries /\ r.child = deliver[d].child
          /\ r.ref = n /\ r.got = deliver[d].got /\ r.next = deliver[d].next
      BY <1>2, <3>1 DEF DeliverState
    <3> HIDE DEF r
    <3>3. DeliverOK' /\ DeliverTriesOK'
      BY <1>1, <1>2, <2>3, <3>1, <3>2, DeliverUpdate
    <3>4. QED
      BY <1>1, <1>3, <2>3, <3>3, Frame
  <2>5. CASE ~IsRunnable(m)
    BY <1>1, <1>3, <2>1, <2>3, <2>5, Frame, EndType
  <2>6. QED
    BY <2>4, <2>5
<1>6. CASE WorkUnfinished(d)
  BY <1>1, <1>3, <1>6, Frame, ThrowType DEF WorkUnfinished
<1>7. CASE WorkFailed(d)
  <2>1. HistoryOK'
    BY <1>7, CountType DEF WorkFailed, HistoryOK
  <2>2. QED
    BY <1>1, <1>3, <1>7, <2>1, Frame, ThrowType DEF WorkFailed
<1>8. CASE NoResult(d)
  BY <1>1, <1>3, <1>8, Frame, GotoType DEF NoResult
<1>9. CASE GotResult(d)
  <2> DEFINE pc == IF RequiresApproval THEN "ask" ELSE IF deliver[d].sent THEN "book" ELSE "send"
             w == Wanted(d)
             r == [deliver[d] EXCEPT !.got = w, !.pc = pc]
  <2>1. pc \in {"ask", "send", "book"}
    OBVIOUS
  <2>2. w \in Ref /\ w <= made
    BY <1>2 DEF Wanted, DeliverState
  <2>3. deliver' = [deliver EXCEPT ![d] = r] /\ UNCHANGED made /\ deliver[d].pc = "result"
    BY <1>9 DEF GotResult
  <2> HIDE DEF pc, w
  <2>4. /\ r \in DeliverState /\ r.tries = deliver[d].tries /\ r.child = deliver[d].child
        /\ r.ref = deliver[d].ref /\ r.got = w /\ r.next = deliver[d].next
    BY <1>2, <2>1, <2>2 DEF DeliverState
  <2> HIDE DEF r
  <2>5. DeliverOK' /\ DeliverTriesOK'
    BY <1>1, <1>2, <2>2, <2>3, <2>4, DeliverUpdate
  <2>6. QED
    BY <1>1, <1>3, <1>9, <2>5, Frame DEF GotResult
<1>10. CASE Ask(d)
  <2>1. MetaOK'
    BY <1>2, <1>10 DEF Ask, MetaOK, MetaState, DeliverState
  <2>2. QED
    BY <1>1, <1>3, <1>10, <2>1, Frame, GotoType DEF Ask
<1>11. CASE Send(d)
  BY <1>1, <1>3, <1>11, Frame, GotoType, PostType DEF Send
<1>12. CASE Mark(d)
  <2> DEFINE r == [deliver[d] EXCEPT !.pc = "book", !.sent = TRUE]
  <2>1. /\ r \in DeliverState /\ r.tries = deliver[d].tries /\ r.child = deliver[d].child
        /\ r.ref = deliver[d].ref /\ r.got = deliver[d].got /\ r.next = deliver[d].next
    BY <1>2 DEF DeliverState
  <2>2. deliver' = [deliver EXCEPT ![d] = r] /\ UNCHANGED made /\ deliver[d].pc = "mark"
    BY <1>12 DEF Mark
  <2> HIDE DEF r
  <2>3. DeliverOK' /\ DeliverTriesOK'
    BY <1>1, <1>2, <2>1, <2>2, DeliverUpdate
  <2>4. QED
    BY <1>1, <1>3, <1>12, <2>3, Frame DEF Mark
<1>13. CASE Book(d)
  <2>1. MetaOK' /\ HistoryOK'
    BY <1>2, <1>13 DEF Book, MetaOK, MetaState, HistoryOK
  <2>2. QED
    BY <1>1, <1>3, <1>13, <2>1, Frame, GotoType DEF Book
<1>14. CASE CheckNext(d)
  BY <1>1, <1>3, <1>14, Frame, GotoType, EndType DEF CheckNext
<1>15. CASE AddNext(d)
  <2>1. made' \in Ref /\ made <= made' /\ made' \in Nat /\ WorkOK' /\ WorkTriesOK'
    BY <1>15, AddWorkType, Numbers DEF AddNext, Ref
  <2> DEFINE n == made'
             r == [deliver[d] EXCEPT !.pc = "store", !.next = n]
  <2>2. deliver' = [deliver EXCEPT ![d] = r] /\ deliver[d].pc = "add"
    BY <1>15 DEF AddNext
  <2>3. n \in Ref /\ n = made'
    BY <2>1
  <2> HIDE DEF n
  <2>4. /\ r \in DeliverState /\ r.tries = deliver[d].tries /\ r.child = deliver[d].child
        /\ r.ref = deliver[d].ref /\ r.got = deliver[d].got /\ r.next = n
    BY <1>2, <2>3 DEF DeliverState
  <2>5. /\ r.child \in Nat /\ r.ref \in Nat /\ r.got \in Nat
    BY <1>2, <2>4, Numbers DEF DeliverState, Ref
  <2> HIDE DEF r
  <2>6. r.child <= made' /\ r.ref <= made' /\ r.got <= made' /\ r.next <= made'
    BY <1>1, <1>2, <2>1, <2>3, <2>4, <2>5
  <2>7. DeliverOK' /\ DeliverTriesOK'
    BY <1>2, <2>1, <2>2, <2>4, <2>6, DeliverUpdate
  <2>8. QED
    BY <1>3, <1>15, <2>1, <2>7, Frame DEF AddNext
<1>16. CASE StoreNext(d)
  <2>1. MetaOK'
    BY <1>2, <1>16 DEF StoreNext, NextRef, MetaOK, MetaState, DeliverState
  <2>2. QED
    BY <1>1, <1>3, <1>16, <2>1, Frame, EndType DEF StoreNext
<1>17. CASE FailDeliver(d)
  BY <1>1, <1>3, <1>17, Frame, GotoType DEF FailDeliver
<1>18. CASE ReadFailures(d)
  <2> DEFINE n == CountUp(meta.failures)
             r == [deliver[d] EXCEPT !.pc = "count", !.seen = n]
  <2>1. n \in Nat
    BY <1>2, CountType DEF MetaState
  <2>2. deliver' = [deliver EXCEPT ![d] = r] /\ UNCHANGED made /\ deliver[d].pc = "failed"
    BY <1>18 DEF ReadFailures
  <2> HIDE DEF n
  <2>3. /\ r \in DeliverState /\ r.tries = deliver[d].tries /\ r.child = deliver[d].child
        /\ r.ref = deliver[d].ref /\ r.got = deliver[d].got /\ r.next = deliver[d].next
    BY <1>2, <2>1 DEF DeliverState
  <2> HIDE DEF r
  <2>4. DeliverOK' /\ DeliverTriesOK'
    BY <1>1, <1>2, <2>2, <2>3, DeliverUpdate
  <2>5. QED
    BY <1>1, <1>3, <1>18, <2>4, Frame DEF ReadFailures
<1>19. CASE CountDeliverFailure(d)
  <2>1. MetaOK'
    BY <1>2, <1>19, CountFailureType DEF CountDeliverFailure, DeliverState
  <2>2. QED
    BY <1>1, <1>3, <1>19, <2>1, Frame, ThrowType DEF CountDeliverFailure
<1>20. CASE LoseFailure(d)
  BY <1>1, <1>3, <1>20, Frame, ThrowType DEF LoseFailure
<1>21. QED
  BY <1>4, <1>5, <1>6, <1>7, <1>8, <1>9, <1>10, <1>11, <1>12, <1>13, <1>14, <1>15, <1>16,
     <1>17, <1>18, <1>19, <1>20 DEF DeliverStep

LEMMA AnswerType ==
  ASSUME StateInv, AnswerNext
  PROVE  StateInv'
<1> USE DEF StateInv, StateOK
<1>1. made \in Ref /\ made <= made /\ made \in Nat /\ 0 <= made /\ meta \in MetaState
  BY Made, Numbers DEF Ref, MetaOK
<1>2. UNCHANGED <<cron, user>> /\ cron' \in BOOLEAN
  BY DEF AnswerNext, Approve, BookApproved, FailApproved, ClearApproved, Expire, RejectAndPause,
     Reject
<1>3. CASE Approve \/ BookApproved \/ FailApproved \/ ClearApproved
  <2>1. CASE Approve
    <3>1. Post(meta.pending) /\ detected' = detected /\ expired' = expired
      BY <2>1 DEF Approve
    <3>2. HistoryOK'
      BY <3>1, PostType
    <3>3. QED
      BY <1>1, <1>2, <2>1, <3>2, Frame DEF Approve
  <2>2. CASE BookApproved
    <3>1. MetaOK' /\ HistoryOK'
      BY <1>1, <2>2 DEF BookApproved, MetaOK, MetaState, HistoryOK
    <3>2. QED
      BY <1>1, <1>2, <2>2, <3>1, Frame DEF BookApproved
  <2>3. CASE FailApproved
    BY <1>1, <1>2, <2>3, Frame DEF FailApproved
  <2>4. CASE ClearApproved
    <3>1. MetaOK'
      BY <1>1, <2>4, Numbers DEF ClearApproved, MetaOK, MetaState
    <3>2. QED
      BY <1>1, <1>2, <2>4, <3>1, Frame DEF ClearApproved
  <2>5. QED
    BY <1>3, <2>1, <2>2, <2>3, <2>4
<1>4. CASE Expire
  <2>1. MetaOK'
    BY <1>1, <1>4, Numbers DEF Expire, MetaOK, MetaState
  <2>2. meta.pending \in WorkId
    BY <1>1, <1>4, Numbers DEF Expire, MetaState, Ref, WorkId
  <2>3. HistoryOK'
    BY <1>4, <2>2 DEF Expire, HistoryOK
  <2>4. QED
    BY <1>1, <1>2, <1>4, <2>1, <2>3, Frame DEF Expire
<1>5. CASE RejectAndPause
  <2>1. MetaOK'
    BY <1>1, <1>5, Numbers DEF RejectAndPause, MetaOK, MetaState
  <2>2. QED
    BY <1>1, <1>2, <1>5, <2>1, Frame DEF RejectAndPause
<1>6. ASSUME NEW d \in Delivers, Reject(d) PROVE StateInv'
  <2>1. /\ made' \in Ref /\ made <= made' /\ made' \in Nat /\ 0 <= made'
        /\ WorkOK' /\ WorkTriesOK'
    BY <1>6, AddWorkType, Numbers DEF Reject, Ref
  <2>2. MetaOK'
    <3> DEFINE n == made'
               r == [meta EXCEPT !.work = n, !.pending = 0]
    <3>1. meta' = r /\ n \in Ref /\ n = made'
      BY <1>6, <2>1 DEF Reject
    <3> HIDE DEF n
    <3>2. r \in MetaState /\ r.work = n /\ r.pending = 0
      BY <1>1, <3>1, Numbers DEF MetaState
    <3> HIDE DEF r
    <3>3. QED
      BY <2>1, <3>1, <3>2, MetaUpdate
  <2>3. DeliverOK' /\ DeliverTriesOK'
    <3>1. deliver' = [deliver EXCEPT ![d] = NewDeliver(made')]
      BY <1>6 DEF Reject
    <3> DEFINE r == NewDeliver(made')
    <3>2. /\ r \in DeliverState /\ r.tries # 0 /\ r.child = made' /\ r.ref = 0
          /\ r.got = 0 /\ r.next = 0
      BY <2>1, NewDeliverType
    <3>3. r.child <= made' /\ r.ref <= made' /\ r.got <= made' /\ r.next <= made'
      BY <2>1, <3>2
    <3> HIDE DEF r
    <3>4. QED
      BY <2>1, <3>1, <3>2, <3>3, DeliverUpdate DEF r
  <2>4. QED
    BY <1>2, <1>6, <2>1, <2>2, <2>3, Frame DEF Reject
<1>7. QED
  BY <1>3, <1>4, <1>5, <1>6 DEF AnswerNext

LEMMA BeginType ==
  ASSUME StateInv, CopiesOK, NEW u \in Users, NEW op, NEW sts,
         NEW pc \in {"drop", "activate", "reread"}, Begin(u, op, sts, pc)
  PROVE  UserOK'
<1>1. made' \in Ref /\ made <= made' /\ made' = made
  BY Made DEF Begin
<1>2. PICK m \in Readable :
        user' = [user EXCEPT ![u] = [pc |-> pc, op |-> op, work |-> m.work, repeat |-> m.repeat]]
  BY DEF Begin
<1>3. m.work \in Ref /\ m.work <= made /\ m.repeat \in BOOLEAN
  BY <1>2 DEF StateInv, StateOK, Readable, MetaOK, CopiesOK, MetaState
<1> DEFINE r == [pc |-> pc, op |-> op, work |-> m.work, repeat |-> m.repeat]
<1>4. r \in UserState /\ r.work <= made'
  BY <1>1, <1>3 DEF Begin, UserState
<1>5. QED
  BY <1>1, <1>2, <1>4, UserUpdate

LEMMA UserType ==
  ASSUME StateInv, CopiesOK, NEW u \in Users, UserStep(u)
  PROVE  StateInv'
<1> USE DEF StateInv, StateOK
<1>1. made \in Ref /\ made <= made /\ made \in Nat /\ 0 <= made /\ meta \in MetaState
  BY Made, Numbers DEF Ref, MetaOK
<1>2. user[u] \in UserState /\ user[u].work <= made
  BY DEF UserOK
<1>3. cron' \in BOOLEAN /\ UNCHANGED <<deliver, history>>
  <2>1. cron' \in {cron, TRUE, FALSE} /\ UNCHANGED <<deliver, history>>
    BY DEF UserStep, PauseTask, CancelTask, ResumeTask, UpdateTaskSchedule, Begin, Activate, Reread,
       DropWork, DropCron, WriteStop, ScheduleCron, AddFirst, StoreRefs, FailUser, history
  <2>2. QED
    BY <2>1
<1>4. CASE PauseTask(u) \/ CancelTask(u) \/ ResumeTask(u) \/ UpdateTaskSchedule(u)
  <2>1. UserOK'
    BY <1>4, BeginType DEF PauseTask, CancelTask, ResumeTask, UpdateTaskSchedule
  <2>2. UNCHANGED <<meta, made, work>>
    BY <1>4 DEF PauseTask, CancelTask, ResumeTask, UpdateTaskSchedule, Begin
  <2>3. QED
    BY <1>1, <1>3, <2>1, <2>2, Frame DEF history
<1>5. CASE Activate(u)
  <2> DEFINE r == [meta EXCEPT !.status = "active"]
  <2>1. r \in MetaState /\ r.work = meta.work /\ r.pending = meta.pending
    BY <1>1 DEF MetaState
  <2>2. meta' = r /\ UNCHANGED made
    BY <1>5 DEF Activate
  <2> HIDE DEF r
  <2>3. MetaOK'
    BY <2>1, <2>2, MetaUpdate DEF MetaOK
  <2>4. QED
    BY <1>1, <1>3, <1>5, <2>3, Frame, UserGoType DEF Activate
<1>6. CASE Reread(u)
  <2>1. PICK m \in Readable :
          user' = [user EXCEPT ![u].pc = "drop", ![u].work = m.work, ![u].repeat = m.repeat]
    BY <1>6 DEF Reread
  <2> DEFINE n == m.work
             k == m.repeat
             r == [user[u] EXCEPT !.pc = "drop", !.work = n, !.repeat = k]
  <2>2. n \in Ref /\ n <= made /\ k \in BOOLEAN
    BY <2>1 DEF Readable, MetaOK, CopiesOK, MetaState
  <2>3. user' = [user EXCEPT ![u] = r] /\ UNCHANGED made
    BY <1>6, <2>1 DEF Reread
  <2> HIDE DEF n, k
  <2>4. r \in UserState /\ r.work = n
    BY <1>2, <2>2 DEF UserState
  <2> HIDE DEF r
  <2>5. UserOK'
    BY <1>1, <2>2, <2>3, <2>4, UserUpdate
  <2>6. QED
    BY <1>1, <1>3, <1>6, <2>5, Frame DEF Reread
<1>7. CASE DropWork(u)
  <2> DEFINE w == user[u].work
  <2>1. CASE w \in In({"delayed"}) /\ work' = [work EXCEPT ![w].state = "removed"]
    <3> DEFINE r == [work[w] EXCEPT !.state = "removed"]
    <3>1. w \in WorkId /\ work[w].state = "delayed" /\ work[w] \in WorkState
      BY <2>1 DEF In, WorkOK
    <3>2. r \in WorkState /\ r.state = "removed"
      BY <3>1 DEF WorkState
    <3>3. work' = [work EXCEPT ![w] = r] /\ UNCHANGED made
      BY <1>7, <2>1 DEF DropWork
    <3> HIDE DEF r
    <3>4. WorkOK' /\ WorkTriesOK'
      BY <3>1, <3>2, <3>3, WorkUpdate DEF Live
    <3>5. QED
      BY <1>1, <1>3, <1>7, <3>4, Frame, UserGoType DEF DropWork
  <2>2. CASE UNCHANGED work
    BY <1>1, <1>3, <1>7, <2>2, Frame, UserGoType DEF DropWork
  <2>3. QED
    BY <1>7, <2>1, <2>2 DEF DropWork
<1>8. CASE DropCron(u)
  BY <1>1, <1>3, <1>8, Frame, UserGoType DEF DropCron
<1>9. CASE WriteStop(u)
  <2> DEFINE st == IF user[u].op = "pause" THEN "paused" ELSE "cancelled"
             r == [meta EXCEPT !.status = st, !.repeat = FALSE, !.work = 0]
  <2>1. st \in {"active", "paused", "cancelled"} /\ meta' = r
    BY <1>9 DEF WriteStop
  <2> HIDE DEF st
  <2>2. r \in MetaState /\ r.work = 0 /\ r.pending = meta.pending
    BY <1>1, <2>1, Numbers DEF MetaState
  <2> HIDE DEF r
  <2>3. MetaOK'
    BY <1>1, <1>9, <2>1, <2>2, MetaUpdate DEF WriteStop, MetaOK
  <2>4. QED
    BY <1>1, <1>3, <1>9, <2>3, Frame, StopUserType DEF WriteStop
<1>10. CASE ScheduleCron(u)
  BY <1>1, <1>3, <1>10, Frame, UserGoType DEF ScheduleCron
<1>11. CASE AddFirst(u)
  <2>1. made' \in Ref /\ made <= made' /\ WorkOK' /\ WorkTriesOK'
    BY <1>11, AddWorkType DEF AddFirst
  <2> DEFINE n == made'
             r == [user[u] EXCEPT !.pc = "refs", !.work = n]
  <2>2. user' = [user EXCEPT ![u] = r] /\ n \in Ref
    BY <1>11, <2>1 DEF AddFirst
  <2>5. n <= made'
    BY <2>1, Numbers DEF Ref
  <2> HIDE DEF n
  <2>3. r \in UserState /\ r.work = n
    BY <1>2, <2>2 DEF UserState
  <2> HIDE DEF r
  <2>4. UserOK'
    BY <2>1, <2>2, <2>3, <2>5, UserUpdate
  <2>6. QED
    BY <1>3, <1>11, <2>1, <2>4, Frame DEF AddFirst
<1>12. CASE StoreRefs(u)
  <2> DEFINE n == FirstRef(u)
             r == [meta EXCEPT !.work = n, !.repeat = TRUE]
  <2>1. meta' = r /\ n \in Ref /\ n <= made
    BY <1>2, <1>12 DEF StoreRefs, FirstRef, UserState
  <2> HIDE DEF n
  <2>2. r \in MetaState /\ r.work = n /\ r.pending = meta.pending
    BY <1>1, <2>1 DEF MetaState
  <2> HIDE DEF r
  <2>3. MetaOK'
    BY <1>12, <2>1, <2>2, MetaUpdate DEF StoreRefs, MetaOK
  <2>4. QED
    BY <1>1, <1>3, <1>12, <2>3, Frame, StopUserType DEF StoreRefs
<1>13. CASE FailUser(u)
  BY <1>1, <1>3, <1>13, Frame, StopUserType DEF FailUser
<1>14. QED
  BY <1>4, <1>5, <1>6, <1>7, <1>8, <1>9, <1>10, <1>11, <1>12, <1>13 DEF UserStep

(* The copies are of earlier metadata, and work jobs only come to be. *)
LEMMA OnlyEarlier ==
  ASSUME [Next]_vars
  PROVE  copies' \subseteq copies \cup {meta}
<1>1. ASSUME NEW m, Update(m) PROVE copies' \subseteq copies \cup {meta}
  BY <1>1 DEF Update
<1>2. CASE UNCHANGED copies \/ Lapse
  BY <1>2 DEF Lapse
<1>3. QED
  BY <1>1, <1>2 DEF Next, vars, WorkNext, StartWork, FinishWork, FailWork, CountWorkFailure,
     CountFailure, DeliverStep, AnswerNext, CronTick, StartDeliver, WorkUnfinished, WorkFailed,
     NoResult, GotResult, Send, Ask, Mark, Book, CheckNext, AddNext, StoreNext, FailDeliver,
     ReadFailures, CountDeliverFailure, LoseFailure, Approve, BookApproved, FailApproved,
     ClearApproved, Expire, RejectAndPause, Reject, UserStep, PauseTask, CancelTask, ResumeTask,
     UpdateTaskSchedule, Begin, Activate, Reread, DropWork, DropCron, WriteStop, ScheduleCron,
     AddFirst, StoreRefs, FailUser

LEMMA CopiesType ==
  ASSUME StateInv, CopiesOK, [Next]_vars
  PROVE  CopiesOK'
<1>1. copies' \subseteq copies \cup {meta}
  BY OnlyEarlier
<1>2. made \in Nat /\ made' \in {made, made + 1}
  <2>1. made \in Nat
    BY Numbers DEF StateInv, StateOK, WorkOK, Ref
  <2>2. made' \in {made, made + 1}
    BY DEF Next, vars, WorkNext, StartWork, FinishWork, FailWork, CountWorkFailure,
       AddWork, DeliverStep, AnswerNext, CronTick, StartDeliver, WorkUnfinished, WorkFailed,
       NoResult, GotResult, Send, Ask, Mark, Book, CheckNext, AddNext, StoreNext, FailDeliver,
       ReadFailures, CountDeliverFailure, LoseFailure, Approve, BookApproved, FailApproved,
       ClearApproved, Lapse, Expire, RejectAndPause, Reject, UserStep, PauseTask, CancelTask,
       ResumeTask, UpdateTaskSchedule, Begin, Activate, Reread, DropWork, DropCron, WriteStop,
       ScheduleCron, AddFirst, StoreRefs, FailUser
  <2>3. QED
    BY <2>1, <2>2
<1>3. ASSUME NEW m, m \in MetaState, m.work <= made, m.pending <= made
      PROVE  m.work <= made' /\ m.pending <= made'
  <2>1. m.work \in Nat /\ m.pending \in Nat
    BY <1>3, Numbers DEF MetaState, Ref
  <2>2. QED
    BY <1>2, <1>3, <2>1
<1>4. QED
  BY <1>1, <1>3 DEF StateInv, StateOK, MetaOK, CopiesOK

LEMMA SmallType ==
  ASSUME SmallOK, [Next]_vars
  PROVE  SmallOK' /\ misled \subseteq misled'
<1>1. answer' \in {answer, "none", "book", "clear"}
  BY DEF Next, vars, WorkNext, StartWork, FinishWork, FailWork, CountWorkFailure,
     DeliverStep, AnswerNext, CronTick, StartDeliver, WorkUnfinished, WorkFailed,
     NoResult, GotResult, Send, Ask, Mark, Book, CheckNext, AddNext, StoreNext, FailDeliver,
     ReadFailures, CountDeliverFailure, LoseFailure, Approve, BookApproved, FailApproved,
     ClearApproved, Lapse, Expire, RejectAndPause, Reject, UserStep, PauseTask, CancelTask,
     ResumeTask, UpdateTaskSchedule, Begin, Activate, Reread, DropWork, DropCron, WriteStop,
     ScheduleCron, AddFirst, StoreRefs, FailUser
<1>2. misled' \in {misled, misled \cup {"lookup"}, misled \cup {"key"}}
  <2>1. \A m : /\ LookedUp(m) \in {misled, misled \cup {"lookup"}}
               /\ KeyRead(m) \in {misled, misled \cup {"key"}}
    BY DEF LookedUp, KeyRead
  <2>2. CASE \E m : misled' \in {misled, LookedUp(m), KeyRead(m)}
    BY <2>1, <2>2
  <2>3. QED
    BY <2>2 DEF Next, vars, WorkNext, StartWork, FinishWork, FailWork, CountWorkFailure,
       DeliverStep, AnswerNext, CronTick, StartDeliver, WorkUnfinished, WorkFailed,
       NoResult, GotResult, Send, Ask, Mark, Book, CheckNext, AddNext, StoreNext, FailDeliver,
       ReadFailures, CountDeliverFailure, LoseFailure, Approve, BookApproved, FailApproved,
       ClearApproved, Lapse, Expire, RejectAndPause, Reject, UserStep, PauseTask, CancelTask,
       ResumeTask, UpdateTaskSchedule, Begin, Activate, Reread, DropWork, DropCron, WriteStop,
       ScheduleCron, AddFirst, StoreRefs, FailUser
<1>3. QED
  BY <1>1, <1>2 DEF SmallOK

LEMMA TypeStep == TypeInv /\ [Next]_vars => TypeInv'
<1> SUFFICES ASSUME TypeInv, [Next]_vars PROVE TypeInv'
  OBVIOUS
<1>1. StateInv /\ CopiesOK /\ SmallOK
  BY DEF TypeInv
<1>2. CopiesOK' /\ SmallOK'
  BY <1>1, CopiesType, SmallType
<1>3. CASE UNCHANGED vars \/ Lapse
  <2>1. UNCHANGED <<meta, cron, made, work, deliver, user, history>>
    BY <1>3 DEF vars, history, Lapse
  <2>2. QED
    BY <1>1, <1>2, <2>1, Made, Frame DEF TypeInv, StateInv, StateOK
<1>4. StateInv'
  BY <1>1, <1>3, WorkType, DeliverType, AnswerType, UserType DEF Next, WorkNext, TypeInv
<1>5. QED
  BY <1>2, <1>4 DEF TypeInv

(* Every variable keeps its type: a work job exists exactly when its number  *)
(* was handed out, and no process ever holds the id of a job that was not     *)
(* created, with any number of processes, attempts, failures and rejections.  *)
THEOREM TypeCorrect == Spec => []TypeOK
<1>1. TypeInv => TypeOK
  BY DEF TypeInv, TypeOK, StateInv, SmallOK
<1>2. QED
  BY <1>1, InitType, TypeStep, PTL DEF Spec

(* The form the other proofs cite: the types together with what each process  *)
(* knows about the jobs it names.                                             *)
THEOREM TypeInvariant == Spec => []TypeInv
  BY InitType, TypeStep, PTL DEF Spec

-----------------------------------------------------------------------------
(* No empty result.  A finished work job stays as it is, so a result found   *)
(* by a lookup is still one when it is sent, put up for approval or approved. *)

Ran(w) == work[w].state = "completed" /\ ~work[w].skipped

ResultInv ==
  /\ TypeInv
  /\ \A w \in WorkId : delivered[w] # 0 => Ran(w)
  /\ meta.pending # 0 => Ran(meta.pending)
  /\ \A d \in Delivers : deliver[d].pc \in {"ask", "send"} =>
                           deliver[d].got \in WorkId /\ Ran(deliver[d].got)

LEMMA FinishedStays ==
  ASSUME TypeInv, [Next]_vars, NEW w \in WorkId,
         work[w].state \in {"completed", "failed", "removed"}
  PROVE  work'[w] = work[w]
<1> USE DEF TypeInv, StateInv, StateOK, WorkOK
<1>1. CASE AddWork
  <2>1. w # made' /\ work' = [work EXCEPT ![made'] = FirstWork]
    <3>1. made \in Nat /\ made' = made + 1 /\ w \in Nat /\ ~(w > made)
      BY <1>1, Numbers DEF AddWork, Ref, WorkId
    <3>2. QED
      BY <1>1, <3>1 DEF AddWork
  <2>2. QED
    BY <2>1
<1>2. CASE UNCHANGED work
  BY <1>2
<1>3. CASE WorkNext
  BY <1>3 DEF WorkNext, StartWork, FinishWork, FailWork, CountWorkFailure
<1>4. ASSUME NEW u \in Users, DropWork(u) PROVE work'[w] = work[w]
  BY <1>4 DEF DropWork, In
<1>5. QED
  BY <1>1, <1>2, <1>3, <1>4 DEF Next, vars, DeliverStep, AnswerNext, UserStep, CronTick,
     StartDeliver, WorkUnfinished, WorkFailed, NoResult, GotResult, Ask, Send, Mark, Book,
     CheckNext, AddNext, StoreNext, FailDeliver, ReadFailures, CountDeliverFailure, LoseFailure,
     Approve, BookApproved, FailApproved, ClearApproved, Lapse, Expire, RejectAndPause, Reject,
     PauseTask, CancelTask, ResumeTask, UpdateTaskSchedule, Begin, Activate, Reread, DropCron,
     WriteStop, ScheduleCron, AddFirst, StoreRefs, FailUser

LEMMA RanStays ==
  ASSUME TypeInv, [Next]_vars, NEW w \in WorkId, Ran(w)
  PROVE  Ran(w)'
  BY FinishedStays DEF Ran

(* Which steps post, put up for approval, and look a result up. *)
LEMMA WhoPosts ==
  ASSUME [Next]_vars
  PROVE  \/ UNCHANGED <<delivered, posted>>
         \/ Approve
         \/ \E d \in Delivers : Send(d)
  BY ZenonT(30) DEF Next, vars, WorkNext, StartWork, FinishWork, FailWork, CountWorkFailure,
     DeliverStep, AnswerNext, UserStep, CronTick, StartDeliver, WorkUnfinished, WorkFailed,
     NoResult, GotResult, Ask, Mark, Book, CheckNext, AddNext, StoreNext, FailDeliver,
     ReadFailures, CountDeliverFailure, LoseFailure, BookApproved, FailApproved, ClearApproved,
     Lapse, Expire, RejectAndPause, Reject, PauseTask, CancelTask, ResumeTask, UpdateTaskSchedule,
     Begin, Activate, Reread, DropWork, DropCron, WriteStop, ScheduleCron, AddFirst, StoreRefs,
     FailUser, history

LEMMA WhoAsks ==
  ASSUME TypeInv, [Next]_vars
  PROVE  \/ meta'.pending \in {0, meta.pending}
         \/ \E d \in Delivers : Ask(d)
<1>1. meta \in MetaState
  BY DEF TypeInv, StateInv, StateOK, MetaOK
<1>2. QED
  BY ZenonT(30), <1>1 DEF MetaState, Next, vars, WorkNext, StartWork, FinishWork, FailWork,
     CountWorkFailure, CountFailure, DeliverStep, AnswerNext, UserStep, CronTick, StartDeliver,
     WorkUnfinished, WorkFailed, NoResult, GotResult, Send, Mark, Book, CheckNext, AddNext,
     StoreNext, FailDeliver, ReadFailures, CountDeliverFailure, LoseFailure, Approve,
     BookApproved, FailApproved, ClearApproved, Lapse, Expire, RejectAndPause, Reject, PauseTask,
     CancelTask, ResumeTask, UpdateTaskSchedule, Begin, Activate, Reread, DropWork, DropCron,
     WriteStop, ScheduleCron, AddFirst, StoreRefs, FailUser

LEMMA WhoMoves ==
  ASSUME TypeInv, [Next]_vars, NEW d \in Delivers
  PROVE  deliver'[d] = deliver[d] \/ CronTick(d) \/ DeliverStep(d) \/ Reject(d)
<1>1. deliver \in [Delivers -> DeliverState]
  BY DEF TypeInv, StateInv, StateOK, DeliverOK
<1>2. CASE UNCHANGED deliver
  BY <1>2
<1>3. ASSUME NEW e \in Delivers, CronTick(e) \/ DeliverStep(e) \/ Reject(e)
      PROVE  e = d \/ deliver'[d] = deliver[d]
  BY <1>1, <1>3 DEF DeliverStep, CronTick, Reject, StartDeliver, WorkUnfinished, WorkFailed,
     NoResult, GotResult, Ask, Send, Mark, Book, CheckNext, AddNext, StoreNext, FailDeliver,
     ReadFailures, CountDeliverFailure, LoseFailure, Goto, End, Throw
<1>4. QED
  BY <1>2, <1>3 DEF Next, vars, WorkNext, StartWork, FinishWork, FailWork, CountWorkFailure,
     AnswerNext, UserStep, Approve, BookApproved, FailApproved, ClearApproved, Lapse, Expire,
     RejectAndPause, PauseTask, CancelTask, ResumeTask, UpdateTaskSchedule, Begin, Activate,
     Reread, DropWork, DropCron, WriteStop, ScheduleCron, AddFirst, StoreRefs, FailUser

LEMMA WhoLooksUp ==
  ASSUME TypeInv, [Next]_vars, NEW d \in Delivers, deliver'[d].pc \in {"ask", "send"}
  PROVE  deliver'[d] = deliver[d] \/ GotResult(d)
<1>1. deliver[d] \in DeliverState /\ deliver \in [Delivers -> DeliverState]
  BY DEF TypeInv, StateInv, StateOK, DeliverOK
<1>2. CASE CronTick(d) \/ Reject(d)
  <2>1. CASE CronTick(d)
    BY <1>1, <2>1, NewDeliverType, Numbers DEF CronTick
  <2>2. CASE Reject(d)
    <3>1. made' \in Ref /\ deliver' = [deliver EXCEPT ![d] = NewDeliver(made')]
      BY <2>2, AddWorkType DEF Reject, TypeInv
    <3>2. QED
      BY <1>1, <3>1, NewDeliverType
  <2>3. QED
    BY <1>2, <2>1, <2>2
<1>3. CASE StartDeliver(d) \/ NoResult(d) \/ Ask(d) \/ Send(d) \/ Mark(d) \/ Book(d)
  BY <1>1, <1>3 DEF StartDeliver, NoResult, Ask, Send, Mark, Book, Goto, End, IdleDeliver,
     DeliverState
<1>4. CASE \/ CheckNext(d) \/ AddNext(d) \/ StoreNext(d) \/ FailDeliver(d) \/ ReadFailures(d)
  BY <1>1, <1>4 DEF CheckNext, AddNext, StoreNext, FailDeliver, ReadFailures, Goto, End,
     IdleDeliver, DeliverState
<1>5. CASE WorkUnfinished(d) \/ WorkFailed(d) \/ CountDeliverFailure(d) \/ LoseFailure(d)
  <2>1. deliver' = [deliver EXCEPT ![d] = IdleDeliver] \/ deliver' = [deliver EXCEPT ![d] = Again(d)]
    BY <1>5 DEF WorkUnfinished, WorkFailed, CountDeliverFailure, LoseFailure, Throw
  <2>2. IdleDeliver.pc = "idle" /\ Again(d).pc = "waiting"
    BY Records DEF Again, DeliverState
  <2>3. QED
    BY <1>1, <2>1, <2>2
<1>6. QED
  BY <1>2, <1>3, <1>4, <1>5, WhoMoves DEF DeliverStep

LEMMA ResultStep ==
  ASSUME ResultInv, [Next]_vars
  PROVE  ResultInv'
<1> USE DEF ResultInv
<1>1. TypeInv'
  BY TypeStep
<1>2. \A w \in WorkId : Ran(w) => Ran(w)'
  BY RanStays
<1>3. meta.pending # 0 => meta.pending \in WorkId
  BY Numbers DEF TypeInv, StateInv, StateOK, MetaOK, MetaState, Ref, WorkId
<1>4. ASSUME NEW w \in WorkId, delivered'[w] # 0 PROVE Ran(w)'
  <2>1. delivered \in [WorkId -> Nat]
    BY DEF TypeInv, StateInv, StateOK, HistoryOK
  <2>2. \/ delivered[w] # 0
        \/ meta.pending # 0 /\ w = meta.pending
        \/ \E d \in Delivers : deliver[d].pc = "send" /\ w = deliver[d].got
    BY <1>4, <2>1, WhoPosts DEF Approve, Send, Post
  <2>3. QED
    BY <1>2, <2>2
<1>5. meta'.pending # 0 => Ran(meta.pending)'
  <2>1. CASE meta'.pending \in {0, meta.pending}
    BY <1>2, <1>3, <2>1
  <2>2. ASSUME NEW d \in Delivers, Ask(d) PROVE Ran(meta.pending)'
    <3>1. meta'.pending = deliver[d].got /\ deliver[d].pc = "ask"
      BY <2>2 DEF Ask, TypeInv, StateInv, StateOK, MetaOK, MetaState
    <3>2. work'[deliver[d].got].state = "completed" /\ ~work'[deliver[d].got].skipped
      BY <3>1, <1>2 DEF Ran
    <3>3. QED
      BY <3>1, <3>2 DEF Ran
  <2>3. QED
    BY <2>1, <2>2, WhoAsks
<1>6. ASSUME NEW d \in Delivers, deliver'[d].pc \in {"ask", "send"}
      PROVE  deliver'[d].got \in WorkId /\ Ran(deliver[d].got)'
  <2>1. CASE deliver'[d] = deliver[d]
    BY <1>2, <1>6, <2>1 DEF Ran
  <2>2. CASE GotResult(d)
    <3>1. deliver'[d].got = Wanted(d)
      BY <2>2 DEF GotResult, TypeInv, StateInv, StateOK, DeliverOK, DeliverState
    <3>2. Wanted(d) \in WorkId /\ Ran(Wanted(d)) /\ UNCHANGED work
      BY <2>2 DEF GotResult, In, Skipped, Ran
    <3>3. QED
      BY <3>1, <3>2 DEF Ran
  <2>3. QED
    BY <1>6, <2>1, <2>2, WhoLooksUp
<1>7. QED
  BY <1>1, <1>4, <1>5, <1>6

(* No empty result, whatever fails and whoever answers: what is posted or put *)
(* up for approval comes from a work job that ran the agent.                  *)
THEOREM NoResultIsEmpty == Spec => []NoEmptyResult
<1>1. Init => ResultInv
  BY InitType, Numbers, Records DEF Init, ResultInv, WorkId
<1>2. ResultInv /\ [Next]_vars => ResultInv'
  BY ResultStep
<1>3. ResultInv => NoEmptyResult
  <2> SUFFICES ASSUME ResultInv, NEW w \in WorkId, delivered[w] > 0 \/ meta.pending = w
               PROVE  Ran(w)
    BY DEF NoEmptyResult, Ran
  <2>1. w # 0 /\ (delivered[w] > 0 => delivered[w] # 0)
    BY Numbers DEF WorkId, ResultInv, TypeInv, StateInv, StateOK, HistoryOK
  <2>2. QED
    BY <2>1 DEF ResultInv
<1>4. QED
  BY <1>1, <1>2, <1>3, PTL DEF Spec

-----------------------------------------------------------------------------
(* The repeat key.  With one operation at a time, the key and the status it   *)
(* read are still the stored ones when it uses them; between its last two     *)
(* steps a resume alone has a registered cron without a stored key.           *)

OpOK(u) ==
  /\ user[u].op # "reschedule"
  /\ user[u].pc = "idle" <=> user[u].op = "none"
  /\ user[u].pc # "idle" =>
       user[u].op = "resume" \/ user[u].pc \in {"drop", "unschedule", "write"}
  /\ user[u].pc = "write" => user[u].op # "resume"
  /\ user[u].op = "resume" /\ user[u].pc # "activate" => meta.status # "cancelled"
  /\ user[u].pc \in {"drop", "unschedule"} => user[u].repeat = meta.repeat
  /\ user[u].pc \in {"write", "schedule"} => ~cron

KeyStored(u) == user[u].pc \notin {"first", "refs"} /\ cron => meta.repeat

KeyHeld ==
  /\ \A u \in Users : OpOK(u) /\ KeyStored(u)
  /\ cron => meta.status # "cancelled"
  /\ Users = {} => (cron => meta.repeat)

KeyInv == TypeInv /\ ("key" \notin misled => KeyHeld)

(* Only a user operation touches the cron, the stored key, or a status of     *)
(* "cancelled".                                                               *)
LEMMA OnlyUsersUnschedule ==
  ASSUME TypeInv, [Next]_vars
  PROVE  \/ /\ UNCHANGED <<cron, user>> /\ meta'.repeat = meta.repeat
            /\ meta'.status = "cancelled" => meta.status = "cancelled"
         \/ \E u \in Users : UserStep(u)
<1>1. meta \in MetaState
  BY DEF TypeInv, StateInv, StateOK, MetaOK
<1>2. UNCHANGED <<cron, user>> \/ \E u \in Users : UserStep(u)
  BY ZenonT(30) DEF Next, vars, WorkNext, StartWork, FinishWork, FailWork, CountWorkFailure,
     DeliverStep, AnswerNext, CronTick, StartDeliver, WorkUnfinished, WorkFailed, NoResult,
     GotResult, Send, Ask, Mark, Book, CheckNext, AddNext, StoreNext, FailDeliver, ReadFailures,
     CountDeliverFailure, LoseFailure, Approve, BookApproved, FailApproved, ClearApproved, Lapse,
     Expire, RejectAndPause, Reject
<1>3. \/ UNCHANGED meta
      \/ \E u \in Users : UserStep(u)
      \/ \E w \in WorkId : FinishWork(w)
      \/ \E n : CountFailure(n)
      \/ \E d \in Delivers : Ask(d) \/ Book(d) \/ StoreNext(d) \/ Reject(d)
      \/ BookApproved \/ ClearApproved \/ Expire \/ RejectAndPause
  BY DEF Next, vars, WorkNext, StartWork, FailWork, CountWorkFailure, DeliverStep,
     AnswerNext, CronTick, StartDeliver, WorkUnfinished, WorkFailed, NoResult, GotResult, Send,
     Mark, CheckNext, AddNext, FailDeliver, ReadFailures, CountDeliverFailure, LoseFailure,
     Approve, FailApproved, Lapse
<1>4. \/ /\ meta'.repeat = meta.repeat
         /\ meta'.status = "cancelled" => meta.status = "cancelled"
      \/ \E u \in Users : UserStep(u)
  BY <1>1, <1>3 DEF MetaState, FinishWork, CountFailure, Ask, Book, StoreNext, Reject, Approve,
     BookApproved, FailApproved, ClearApproved, Lapse, Expire, RejectAndPause
<1>5. QED
  BY <1>2, <1>4

LEMMA KeyUserStep ==
  ASSUME ~MayFail, "reschedule" \notin Ops, TypeInv, KeyHeld, "key" \notin misled',
         NEW u \in Users, \A v \in Users : v = u, UserStep(u)
  PROVE  OpOK(u)' /\ KeyStored(u)' /\ (cron' => meta'.status # "cancelled")
<1> USE DEF OpOK, KeyStored
<1>1. /\ meta \in MetaState /\ user \in [Users -> UserState] /\ user[u] \in UserState
      /\ OpOK(u) /\ KeyStored(u) /\ (cron => meta.status # "cancelled") /\ cron \in BOOLEAN
  BY DEF KeyHeld, TypeInv, StateInv, StateOK, MetaOK, UserOK
<1>2. CASE PauseTask(u) \/ CancelTask(u) \/ ResumeTask(u) \/ UpdateTaskSchedule(u)
  <2>1. PICK op, pc, sts : /\ Begin(u, op, sts, pc) /\ op \in Ops
                          /\ <<op, pc>> \in {<<"pause", "drop">>, <<"cancel", "drop">>,
                                            <<"resume", "activate">>, <<"reschedule", "reread">>}
    BY <1>2 DEF PauseTask, CancelTask, ResumeTask, UpdateTaskSchedule, Begin
  <2>2. PICK m \in Readable : /\ misled' = KeyRead(m)
                              /\ user' = [user EXCEPT ![u] = [pc |-> pc, op |-> op, work |-> m.work,
                                                             repeat |-> m.repeat]]
    BY <2>1 DEF Begin
  <2>3. m.repeat = meta.repeat
    BY <2>2 DEF KeyRead
  <2>4. UNCHANGED <<meta, cron>> /\ user[u].pc = "idle"
    BY <2>1 DEF Begin
  <2>5. user'[u].pc = pc /\ user'[u].op = op /\ user'[u].repeat = meta.repeat
    BY <1>1, <2>2, <2>3
  <2>6. QED
    BY <1>1, <2>1, <2>4, <2>5
<1>3. CASE Activate(u)
  BY <1>1, <1>3 DEF Activate, UserGo, MetaState, UserState
<1>4. CASE Reread(u)
  <2>1. PICK m \in Readable : /\ misled' = KeyRead(m)
                              /\ user' = [user EXCEPT ![u].pc = "drop", ![u].work = m.work,
                                                      ![u].repeat = m.repeat]
    BY <1>4 DEF Reread
  <2>2. m.repeat = meta.repeat /\ UNCHANGED <<meta, cron>> /\ user[u].pc = "reread"
    BY <1>4, <2>1 DEF KeyRead, Reread
  <2>3. user'[u].pc = "drop" /\ user'[u].op = user[u].op /\ user'[u].repeat = meta.repeat
    BY <1>1, <2>1, <2>2 DEF UserState
  <2>4. QED
    BY <1>1, <2>2, <2>3
<1>5. CASE DropWork(u)
  BY <1>1, <1>5 DEF DropWork, UserGo, UserState
<1>6. CASE DropCron(u)
  <2>1. user' = [user EXCEPT ![u].pc = IF user[u].op = "resume" THEN "schedule" ELSE "write"]
    BY <1>1, <1>6, FlowAssumption DEF DropCron, UserGo, UserState
  <2>2. ~cron' /\ UNCHANGED meta
    BY <1>1, <1>6 DEF DropCron, KnowsKey
  <2>3. QED
    BY <1>1, <1>6, <2>1, <2>2 DEF DropCron, UserState
<1>7. CASE WriteStop(u)
  BY <1>1, <1>7 DEF WriteStop, MetaState, IdleUser
<1>8. CASE ScheduleCron(u)
  BY <1>1, <1>8 DEF ScheduleCron, UserGo, UserState
<1>9. CASE AddFirst(u)
  BY <1>1, <1>9 DEF AddFirst, UserState
<1>10. CASE StoreRefs(u)
  BY <1>1, <1>10 DEF StoreRefs, MetaState, IdleUser
<1>11. CASE FailUser(u)
  BY <1>11 DEF FailUser
<1>12. QED
  BY <1>2, <1>3, <1>4, <1>5, <1>6, <1>7, <1>8, <1>9, <1>10, <1>11 DEF UserStep

(* The stored key stays the handle on the cron, and a cancelled task keeps     *)
(* none: whatever the jobs do, the approvals decide and the runs fail, and     *)
(* whatever copies of the status and the work reference the operations read,   *)
(* if no operation was shown another key than the stored one, operations are   *)
(* not concurrent, none fails half-way and none reschedules a task that may be *)
(* cancelled.                                                                  *)
THEOREM KeyStays ==
  ASSUME ~MayFail, "reschedule" \notin Ops, \A u, v \in Users : u = v
  PROVE  Spec => []KeyIsKept
<1>1. Init => KeyInv
  <2> SUFFICES ASSUME Init PROVE KeyInv
    OBVIOUS
  <2>1. \A u \in Users : user[u].pc = "idle" /\ user[u].op = "none"
    BY DEF Init, IdleUser
  <2>2. meta.repeat /\ meta.status # "cancelled"
    BY DEF Init
  <2>3. QED
    BY <2>1, <2>2, InitType DEF KeyInv, KeyHeld, OpOK, KeyStored
<1>2. KeyInv /\ [Next]_vars => KeyInv'
  <2> SUFFICES ASSUME KeyInv, [Next]_vars PROVE KeyInv'
    OBVIOUS
  <2>1. TypeInv /\ TypeInv'
    BY TypeStep DEF KeyInv
  <2> SUFFICES ASSUME "key" \notin misled' PROVE KeyHeld'
    BY <2>1 DEF KeyInv
  <2>2. KeyHeld
    BY <2>1, SmallType DEF KeyInv, TypeInv
  <2>3. CASE /\ UNCHANGED <<cron, user>> /\ meta'.repeat = meta.repeat
             /\ meta'.status = "cancelled" => meta.status = "cancelled"
    BY <2>2, <2>3 DEF KeyHeld, OpOK, KeyStored
  <2>4. ASSUME NEW u \in Users, UserStep(u) PROVE KeyHeld'
    <3>1. OpOK(u)' /\ KeyStored(u)' /\ (cron' => meta'.status # "cancelled")
      BY <2>1, <2>2, <2>4, KeyUserStep
    <3>2. \A v \in Users : OpOK(v)' /\ KeyStored(v)'
      BY <3>1
    <3>3. QED
      BY <3>1, <3>2 DEF KeyHeld
  <2>5. QED
    BY <2>1, <2>3, <2>4, OnlyUsersUnschedule
<1>3. KeyInv => KeyIsKept
  BY DEF KeyInv, KeyHeld, KeyIsKept, KeyStored, UsersIdle
<1>4. QED
  BY <1>1, <1>2, <1>3, PTL DEF Spec

-----------------------------------------------------------------------------
(* A task without approvals, one deliver job at a time and no failing calls:  *)
(* a deliver job posts once, and looks its work job up only before.           *)

PastSend == {"mark", "book", "next", "add", "store"}

PlainJob(j) ==
  /\ j.child = 0 /\ j.pc \notin {"ask", "failed", "count"}
  /\ j.sent => j.pc \in PastSend
  /\ j.pc \in {"idle", "waiting"} => j.ref = 0
  /\ j.pc \in {"idle", "waiting", "result"} => j.got = 0
  /\ j.pc # "store" => j.next = 0

OneDeliver ==
  \A d, e \in Delivers : deliver[d].pc # "idle" /\ deliver[e].pc # "idle" => d = e

PlainInv ==
  /\ TypeInv
  /\ meta.pending = 0 /\ answer = "none"
  /\ \A d \in Delivers : PlainJob(deliver[d])
  /\ OneDeliver

(* A job that throws starts again as a new one, when nothing was posted yet. *)
LEMMA ThrowPlain ==
  ASSUME TypeInv, NEW d \in Delivers, PlainJob(deliver[d]), deliver[d].pc = "result", Throw(d)
  PROVE  PlainJob(deliver'[d]) /\ deliver'[d].pc \in {"idle", "waiting"}
<1>1. deliver[d] \in DeliverState /\ deliver \in [Delivers -> DeliverState]
  BY DEF TypeInv, StateInv, StateOK, DeliverOK
<1>2. PlainJob(IdleDeliver)
  <2>1. ~IdleDeliver.sent
    BY DEF IdleDeliver
  <2>2. QED
    BY <2>1, Records DEF PlainJob
<1>3. Again(d).pc = "waiting" /\ PlainJob(Again(d))
  <2>1. Again(d).sent = deliver[d].sent
    BY Records DEF Again, DeliverState
  <2>2. /\ Again(d).pc = "waiting" /\ Again(d).child = deliver[d].child /\ Again(d).ref = 0
        /\ Again(d).got = 0 /\ Again(d).next = 0
    BY Records DEF Again, DeliverState
  <2>3. QED
    BY <2>1, <2>2 DEF PlainJob, PastSend
<1>4. QED
  BY <1>1, <1>2, <1>3, Records DEF Throw

LEMMA PlainJobStep ==
  ASSUME ~RequiresApproval, ~MayFail, PlainInv, NEW d \in Delivers, DeliverStep(d)
  PROVE  PlainJob(deliver'[d])
<1>1. /\ deliver[d] \in DeliverState /\ deliver \in [Delivers -> DeliverState]
      /\ meta \in MetaState /\ PlainJob(deliver[d]) /\ TypeInv
  BY DEF PlainInv, TypeInv, StateInv, StateOK, DeliverOK, MetaOK
<1>2. PlainJob(IdleDeliver)
  <2>1. ~IdleDeliver.sent
    BY DEF IdleDeliver
  <2>2. QED
    BY <2>1, Records DEF PlainJob
<1>3. CASE StartDeliver(d)
  <2>0. PICK m \in Readable : IF IsRunnable(m)
             THEN deliver' = [deliver EXCEPT ![d].pc = "result", ![d].ref = m.work]
             ELSE End(d)
    BY <1>3 DEF StartDeliver
  <2>1. CASE ~IsRunnable(m)
    BY <1>1, <1>2, <2>0, <2>1 DEF End
  <2>2. CASE IsRunnable(m)
    BY <1>1, <1>3, <2>0, <2>2 DEF StartDeliver, DeliverState, PlainJob, PastSend
  <2>3. QED
    BY <2>1, <2>2
<1>4. CASE WorkUnfinished(d) \/ WorkFailed(d)
  BY <1>1, <1>4, ThrowPlain DEF WorkUnfinished, WorkFailed
<1>5. CASE NoResult(d) \/ Send(d)
  BY <1>1, <1>5 DEF NoResult, Send, Goto, DeliverState, PlainJob, PastSend
<1>6. CASE GotResult(d)
  BY <1>1, <1>6 DEF GotResult, DeliverState, PlainJob, PastSend
<1>7. CASE Mark(d)
  BY <1>1, <1>7 DEF Mark, DeliverState, PlainJob, PastSend
<1>8. CASE Book(d)
  BY <1>1, <1>8 DEF Book, Goto, DeliverState, PlainJob, PastSend
<1>9. CASE CheckNext(d)
  BY <1>1, <1>2, <1>9 DEF CheckNext, End, Goto, DeliverState, PlainJob, PastSend
<1>10. CASE AddNext(d)
  BY <1>1, <1>10 DEF AddNext, DeliverState, PlainJob, PastSend
<1>11. CASE StoreNext(d)
  BY <1>1, <1>2, <1>11 DEF StoreNext, End
<1>12. CASE FailDeliver(d) \/ LoseFailure(d) \/ Ask(d) \/ ReadFailures(d) \/ CountDeliverFailure(d)
  BY <1>1, <1>12 DEF FailDeliver, LoseFailure, Ask, ReadFailures, CountDeliverFailure, PlainJob
<1>13. QED
  BY <1>3, <1>4, <1>5, <1>6, <1>7, <1>8, <1>9, <1>10, <1>11, <1>12 DEF DeliverStep

LEMMA PlainStep ==
  ASSUME ~RequiresApproval, ~MayFail, ~Overlap, PlainInv, [Next]_vars
  PROVE  PlainInv'
<1> USE DEF PlainInv
<1>1. TypeInv' /\ TypeInv
  BY TypeStep
<1>2. \A d \in Delivers : ~Ask(d) /\ ~Reject(d)
  BY DEF Ask, Reject, PlainJob
<1>3. meta'.pending = 0 /\ answer' = "none"
  <2>1. answer' \in {"none", answer} \/ Approve \/ BookApproved \/ FailApproved
    BY DEF Next, vars, WorkNext, StartWork, FinishWork, FailWork, CountWorkFailure,
       DeliverStep, AnswerNext, CronTick, StartDeliver, WorkUnfinished, WorkFailed,
       NoResult, GotResult, Send, Ask, Mark, Book, CheckNext, AddNext, StoreNext, FailDeliver,
       ReadFailures, CountDeliverFailure, LoseFailure, ClearApproved, Lapse, Expire,
       RejectAndPause, Reject, UserStep, PauseTask, CancelTask, ResumeTask, UpdateTaskSchedule,
       Begin, Activate, Reread, DropWork, DropCron, WriteStop, ScheduleCron, AddFirst,
       StoreRefs, FailUser
  <2>2. ~Approve /\ ~BookApproved /\ ~FailApproved
    BY DEF Approve, BookApproved, FailApproved
  <2>3. QED
    BY <1>1, <1>2, <2>1, <2>2, WhoAsks
<1>4. /\ deliver \in [Delivers -> DeliverState]
      /\ NewDeliver(0) \in DeliverState /\ PlainJob(NewDeliver(0))
  <2>1. ~IdleDeliver.sent
    BY DEF IdleDeliver
  <2>2. QED
    BY <2>1, NewDeliverType, Numbers DEF PlainJob, TypeInv, StateInv, StateOK, DeliverOK
<1>5. ASSUME NEW d \in Delivers PROVE PlainJob(deliver'[d])
  <2>1. CASE CronTick(d)
    BY <1>4, <2>1 DEF CronTick
  <2>2. QED
    BY <1>1, <1>2, <2>1, WhoMoves, PlainJobStep
<1>6. OneDeliver'
  <2>1. ASSUME NEW d \in Delivers, NEW e \in Delivers,
               deliver'[d].pc # "idle", deliver'[e].pc # "idle", CronTick(d)
        PROVE  d = e
    BY <1>4, <2>1 DEF CronTick, PlainJob
  <2>2. ASSUME NEW d \in Delivers, deliver'[d].pc # "idle", ~CronTick(d)
        PROVE  deliver[d].pc # "idle"
    <3>1. deliver'[d] = deliver[d] \/ DeliverStep(d)
      BY <1>1, <1>2, <2>2, WhoMoves
    <3>2. DeliverStep(d) => deliver[d].pc # "idle"
      BY DEF DeliverStep, StartDeliver, WorkUnfinished, WorkFailed, NoResult, GotResult, Ask,
         Send, Mark, Book, CheckNext, AddNext, StoreNext, FailDeliver, ReadFailures,
         CountDeliverFailure, LoseFailure
    <3>3. QED
      BY <2>2, <3>1, <3>2
  <2>3. QED
    BY <2>1, <2>2 DEF OneDeliver
<1>7. QED
  BY <1>1, <1>3, <1>5, <1>6

LEMMA InitPlain == Init => PlainInv
<1> SUFFICES ASSUME Init PROVE PlainInv
  OBVIOUS
<1>1. meta.pending = 0 /\ answer = "none" /\ \A d \in Delivers : deliver[d] = IdleDeliver
  BY DEF Init
<1>2. ~IdleDeliver.sent
  BY DEF IdleDeliver
<1>3. QED
  BY <1>1, <1>2, InitType, Records DEF PlainInv, PlainJob, OneDeliver

-----------------------------------------------------------------------------
(* Delivered once, and fed.  A job the task is about to refer to is fresh: not *)
(* delivered, not removed, and looked up by nobody; what the task refers to is *)
(* new unless the deliver job that posted its result is about to replace it.   *)

Fresh(w) ==
  /\ w # 0 /\ delivered[w] = 0 /\ work[w].state # "removed" /\ meta.work # w
  /\ \A m \in copies : m.work # w
  /\ \A d \in Delivers : deliver[d].ref # w /\ deliver[d].got # w

NoFailures == \A w \in WorkId : work[w].state \notin {"failed", "counting"}
LookupIsNew == \A d \in Delivers :
  /\ deliver[d].pc = "result" => deliver[d].ref = 0 \/ delivered[deliver[d].ref] = 0
  /\ deliver[d].pc = "send" => deliver[d].got # 0 /\ delivered[deliver[d].got] = 0
LookupRuns == \A d \in Delivers :
  meta.work # 0 /\ meta.work \in {deliver[d].ref, deliver[d].got} => Runnable
NextIsNew == \A d \in Delivers :
  deliver[d].pc = "store" =>
    Fresh(deliver[d].next) /\ \A u \in Users : user[u].work # deliver[d].next
FirstIsNew == \A u \in Users :
  user[u].pc = "refs" =>
    /\ Fresh(user[u].work)
    /\ \A v \in Users \ {u} : user[v].work # user[u].work
    /\ \A d \in Delivers : deliver[d].next # user[u].work
CurrentIsNew ==
  meta.work # 0 /\ delivered[meta.work] # 0 =>
    Runnable /\ \E d \in Delivers : deliver[d].pc \in PastSend
Fed ==
  UsersIdle /\ Runnable /\ (\A d \in Delivers : deliver[d].pc \notin PastSend) =>
    meta.work # 0 /\ work[meta.work].state # "removed"

FeedInv ==
  /\ PlainInv /\ ResultInv /\ NoFailures
  /\ \A w \in WorkId : delivered[w] <= 1
  /\ LookupIsNew /\ LookupRuns
  /\ NextIsNew /\ FirstIsNew /\ CurrentIsNew /\ Fed

(* What the values of a step can be. *)
LEMMA FeedTypes ==
  ASSUME FeedInv
  PROVE  /\ TypeInv /\ meta \in MetaState /\ delivered \in [WorkId -> Nat]
         /\ deliver \in [Delivers -> DeliverState] /\ user \in [Users -> UserState]
         /\ work \in [WorkId -> WorkState] /\ made \in Nat
         /\ meta.work \in Ref /\ meta.work <= made
         /\ \A d \in Delivers :
              /\ deliver[d] \in DeliverState /\ PlainJob(deliver[d])
              /\ deliver[d].ref \in Ref /\ deliver[d].got \in Ref /\ deliver[d].next \in Ref
              /\ deliver[d].ref <= made /\ deliver[d].got <= made /\ deliver[d].next <= made
         /\ \A u \in Users :
              user[u] \in UserState /\ user[u].work \in Ref /\ user[u].work <= made
<1>1. TypeInv
  BY DEF FeedInv, PlainInv
<1>2. meta \in MetaState /\ delivered \in [WorkId -> Nat] /\ meta.work \in Ref /\ meta.work <= made
  BY <1>1 DEF TypeInv, StateInv, StateOK, MetaOK, MetaState, HistoryOK
<1>3. work \in [WorkId -> WorkState] /\ made \in Nat
  BY <1>1, Numbers DEF TypeInv, StateInv, StateOK, WorkOK, Ref
<1>4. deliver \in [Delivers -> DeliverState] /\ user \in [Users -> UserState]
  BY <1>1 DEF TypeInv, StateInv, StateOK, DeliverOK, UserOK
<1>5. ASSUME NEW d \in Delivers
      PROVE  /\ deliver[d] \in DeliverState /\ PlainJob(deliver[d])
             /\ deliver[d].ref \in Ref /\ deliver[d].got \in Ref /\ deliver[d].next \in Ref
             /\ deliver[d].ref <= made /\ deliver[d].got <= made /\ deliver[d].next <= made
  BY <1>1, <1>4 DEF TypeInv, StateInv, StateOK, DeliverOK, DeliverState, FeedInv, PlainInv
<1>6. ASSUME NEW u \in Users
      PROVE  user[u] \in UserState /\ user[u].work \in Ref /\ user[u].work <= made
  BY <1>1, <1>4 DEF TypeInv, StateInv, StateOK, UserOK, UserState
<1>7. QED
  BY <1>1, <1>2, <1>3, <1>4, <1>5, <1>6

(* Without approvals and failures only these steps write the reference or the *)
(* status.                                                                    *)
LEMMA WhoRefers ==
  ASSUME FeedInv, [Next]_vars
  PROVE  \/ meta'.work = meta.work /\ meta'.status = meta.status
         \/ \E d \in Delivers : StoreNext(d)
         \/ \E u \in Users : Activate(u) \/ WriteStop(u) \/ StoreRefs(u)
<1>1. /\ ~Approve /\ ~BookApproved /\ ~FailApproved /\ ~ClearApproved /\ ~Expire
      /\ ~RejectAndPause /\ \A d \in Delivers : ~Reject(d)
  BY DEF FeedInv, PlainInv, Approve, BookApproved, FailApproved, ClearApproved, Expire,
     RejectAndPause, Reject
<1>2. \A w \in WorkId : ~CountWorkFailure(w)
  BY DEF CountWorkFailure, FeedInv, NoFailures
<1>3. \A d \in Delivers : ~CountDeliverFailure(d)
  BY DEF CountDeliverFailure, FeedInv, PlainInv, PlainJob
<1>4. \/ UNCHANGED meta
      \/ \E w \in WorkId : FinishWork(w)
      \/ \E d \in Delivers : Ask(d) \/ Book(d) \/ StoreNext(d)
      \/ \E u \in Users : Activate(u) \/ WriteStop(u) \/ StoreRefs(u)
  BY <1>1, <1>2, <1>3 DEF Next, vars, WorkNext, StartWork, FailWork, DeliverStep,
     AnswerNext, CronTick, StartDeliver, WorkUnfinished, WorkFailed, NoResult, GotResult, Send,
     Mark, CheckNext, AddNext, FailDeliver, ReadFailures, LoseFailure, Lapse,
     UserStep, PauseTask, CancelTask, ResumeTask, UpdateTaskSchedule, Begin, Reread, DropWork,
     DropCron, ScheduleCron, AddFirst, FailUser
<1>5. QED
  BY <1>4, FeedTypes DEF MetaState, FinishWork, Ask, Book

(* A look-up that was not misled reads the stored status and reference. *)
LEMMA TrueLookup ==
  ASSUME NEW d \in Delivers, StartDeliver(d), "lookup" \notin misled'
  PROVE  /\ deliver[d].pc = "waiting"
         /\ IF Runnable
            THEN deliver' = [deliver EXCEPT ![d].pc = "result", ![d].ref = meta.work]
            ELSE End(d)
         /\ UNCHANGED <<meta, work, user, delivered>>
<1>1. PICK m \in Readable :
        /\ misled' = LookedUp(m)
        /\ IF IsRunnable(m)
           THEN deliver' = [deliver EXCEPT ![d].pc = "result", ![d].ref = m.work]
           ELSE End(d)
  BY DEF StartDeliver
<1>2. m.work = meta.work /\ m.status = meta.status
  BY <1>1 DEF LookedUp
<1>3. IsRunnable(m) <=> Runnable
  BY <1>2 DEF IsRunnable, Runnable, IsRunnable
<1>4. deliver[d].pc = "waiting" /\ UNCHANGED <<meta, work, user, delivered>>
  BY DEF StartDeliver, history
<1>5. QED
  BY <1>1, <1>2, <1>3, <1>4

(* What a look-up refers to afterwards. *)
LEMMA WhatIsLookedUp ==
  ASSUME ~RequiresApproval, ~MayFail, FeedInv, [Next]_vars, "lookup" \notin misled',
         NEW d \in Delivers
  PROVE  /\ \/ deliver'[d].ref \in {0, deliver[d].ref}
            \/ StartDeliver(d) /\ Runnable /\ deliver'[d].ref = meta.work
         /\ deliver'[d].got \in {0, deliver[d].ref, deliver[d].got}
<1>1. /\ deliver[d] \in DeliverState /\ deliver \in [Delivers -> DeliverState] /\ TypeInv
      /\ PlainJob(deliver[d]) /\ PlainInv
  BY FeedTypes DEF FeedInv
<1>2. CASE CronTick(d)
  BY <1>1, <1>2, NewDeliverType, Numbers DEF CronTick
<1>3. CASE WorkUnfinished(d) \/ WorkFailed(d)
  <2>1. deliver'[d] = IdleDeliver \/ deliver'[d] = Again(d)
    BY <1>1, <1>3 DEF WorkUnfinished, WorkFailed, Throw
  <2>2. Again(d).ref = 0 /\ Again(d).got = 0
    BY Records DEF Again, DeliverState
  <2>3. QED
    BY <2>1, <2>2, Records
<1>4. CASE StartDeliver(d)
  <2>1. CASE Runnable
    <3>1. deliver' = [deliver EXCEPT ![d].pc = "result", ![d].ref = meta.work]
      BY <1>4, <2>1, TrueLookup
    <3>2. QED
      BY <1>1, <1>4, <2>1, <3>1 DEF DeliverState
  <2>2. CASE ~Runnable
    <3>1. End(d)
      BY <1>4, <2>2, TrueLookup
    <3>2. QED
      BY <1>1, <3>1, Records DEF End
  <2>3. QED
    BY <2>1, <2>2
<1>5. CASE GotResult(d)
  BY <1>1, <1>5 DEF GotResult, DeliverState, Wanted, PlainJob
<1>6. CASE NoResult(d) \/ Send(d) \/ Book(d) \/ CheckNext(d) \/ StoreNext(d)
  BY <1>1, <1>6, Records DEF NoResult, Send, Book, CheckNext, StoreNext, Goto, End, DeliverState
<1>7. CASE Mark(d) \/ AddNext(d)
  BY <1>1, <1>7 DEF Mark, AddNext, DeliverState
<1>8. CASE FailDeliver(d) \/ LoseFailure(d) \/ Ask(d) \/ ReadFailures(d) \/ CountDeliverFailure(d)
  BY <1>1, <1>8 DEF FailDeliver, LoseFailure, Ask, ReadFailures, CountDeliverFailure, PlainJob
<1>9. ~Reject(d)
  BY <1>1 DEF Reject, PlainInv
<1>10. QED
  BY <1>1, <1>2, <1>3, <1>4, <1>5, <1>6, <1>7, <1>8, <1>9, WhoMoves DEF DeliverStep

LEMMA WhoRemoves ==
  ASSUME TypeInv, [Next]_vars, NEW w \in WorkId, work'[w].state = "removed"
  PROVE  work[w].state = "removed" \/ \E u \in Users : DropWork(u) /\ user[u].work = w
<1>1. work \in [WorkId -> WorkState] /\ work[w] \in WorkState
  BY DEF TypeInv, StateInv, StateOK, WorkOK
<1>2. CASE AddWork
  BY <1>1, <1>2, Records DEF AddWork
<1>3. ASSUME NEW v \in WorkId, StartWork(v) \/ FinishWork(v) \/ FailWork(v) \/ CountWorkFailure(v)
      PROVE  work'[w].state = work[w].state \/ work'[w].state # "removed"
  <2>1. CASE StartWork(v)
    BY <1>1, <2>1 DEF StartWork, WorkState
  <2>4. CASE FinishWork(v)
    BY <1>1, <2>4 DEF FinishWork, WorkState
  <2>5. CASE FailWork(v)
    <3> DEFINE n == CountUp(meta.failures)
    <3>1. work' = [work EXCEPT ![v] = [work[v] EXCEPT !.state = "counting", !.seen = n]]
      BY <1>1, <2>5 DEF FailWork
    <3> HIDE DEF n
    <3>2. QED
      BY <1>1, <3>1 DEF WorkState
  <2>2. CASE CountWorkFailure(v)
    <3> DEFINE st == IF work[v].tries = 1 THEN "failed" ELSE "delayed"
               n == work[v].tries - 1
    <3>1. work' = [work EXCEPT ![v] = [work[v] EXCEPT !.tries = n, !.seen = 0, !.state = st]]
      BY <1>1, <2>2 DEF CountWorkFailure
    <3>2. st # "removed"
      OBVIOUS
    <3> HIDE DEF st, n
    <3>3. QED
      BY <1>1, <3>1, <3>2 DEF WorkState
  <2>3. QED
    BY <1>3, <2>1, <2>2, <2>4, <2>5
<1>4. ASSUME NEW u \in Users, DropWork(u)
      PROVE  work'[w].state = work[w].state \/ user[u].work = w
  BY <1>1, <1>4 DEF DropWork
<1>5. CASE UNCHANGED work
  BY <1>5
<1>6. QED
  BY <1>2, <1>3, <1>4, <1>5 DEF Next, vars, WorkNext, DeliverStep, AnswerNext, UserStep, CronTick,
     StartDeliver, WorkUnfinished, WorkFailed, NoResult, GotResult, Ask, Send, Mark, Book,
     CheckNext, AddNext, StoreNext, FailDeliver, ReadFailures, CountDeliverFailure, LoseFailure,
     Approve, BookApproved, FailApproved, ClearApproved, Lapse, Expire, RejectAndPause, Reject,
     PauseTask, CancelTask, ResumeTask, UpdateTaskSchedule, Begin, Activate, Reread, DropCron,
     WriteStop, ScheduleCron, AddFirst, StoreRefs, FailUser

LEMMA WhoHolds ==
  ASSUME TypeInv, [Next]_vars, NEW u \in Users
  PROVE  \/ user'[u] = user[u]
         \/ /\ user'[u].pc # "refs"
            /\ \/ user'[u].work \in {0, user[u].work}
               \/ \E m \in Readable : user'[u].work = m.work
         \/ AddFirst(u) /\ user'[u].work = made'
<1>1. user \in [Users -> UserState] /\ user[u] \in UserState
  BY DEF TypeInv, StateInv, StateOK, UserOK
<1>2. UNCHANGED user \/ \E v \in Users : UserStep(v)
  BY DEF Next, vars, WorkNext, StartWork, FinishWork, FailWork, CountWorkFailure, DeliverStep,
     AnswerNext, CronTick, StartDeliver, WorkUnfinished, WorkFailed, NoResult, GotResult, Send, Ask,
     Mark, Book, CheckNext, AddNext, StoreNext, FailDeliver, ReadFailures, CountDeliverFailure,
     LoseFailure, Approve, BookApproved, FailApproved, ClearApproved, Lapse, Expire,
     RejectAndPause, Reject
<1>3. ASSUME NEW v \in Users, UserStep(v) PROVE user'[u] = user[u] \/ u = v
  BY <1>1, <1>3 DEF UserStep, PauseTask, CancelTask, ResumeTask, UpdateTaskSchedule, Begin,
     Activate, Reread, DropWork, DropCron, WriteStop, ScheduleCron, AddFirst, StoreRefs, FailUser,
     UserGo
<1>4. CASE PauseTask(u) \/ CancelTask(u) \/ ResumeTask(u) \/ UpdateTaskSchedule(u)
  BY <1>1, <1>4 DEF PauseTask, CancelTask, ResumeTask, UpdateTaskSchedule, Begin
<1>5. CASE Activate(u) \/ DropWork(u) \/ DropCron(u) \/ ScheduleCron(u)
  BY <1>1, <1>5 DEF Activate, DropWork, DropCron, ScheduleCron, UserGo, UserState
<1>6. CASE WriteStop(u) \/ StoreRefs(u) \/ FailUser(u)
  BY <1>1, <1>6, Records DEF WriteStop, StoreRefs, FailUser
<1>7. CASE AddFirst(u)
  BY <1>1, <1>7 DEF AddFirst, UserState
<1>9. CASE Reread(u)
  <2>1. PICK m \in Readable :
          user' = [user EXCEPT ![u].pc = "drop", ![u].work = m.work, ![u].repeat = m.repeat]
    BY <1>9 DEF Reread
  <2>2. user'[u].pc = "drop" /\ user'[u].work = m.work
    BY <1>1, <2>1 DEF UserState
  <2>3. QED
    BY <2>1, <2>2
<1>8. QED
  BY <1>2, <1>3, <1>4, <1>5, <1>6, <1>7, <1>9 DEF UserStep

(* A fresh job stays fresh until it is referred to or dropped. *)
LEMMA FreshStays ==
  ASSUME ~RequiresApproval, ~MayFail, FeedInv, [Next]_vars, "lookup" \notin misled',
         NEW w \in WorkId, Fresh(w),
         \A u \in Users : DropWork(u) \/ StoreRefs(u) => user[u].work # w,
         \A d \in Delivers : StoreNext(d) => deliver[d].next # w
  PROVE  Fresh(w)'
<1>1. delivered'[w] = 0
  <2>1. ~Approve
    BY DEF Approve, FeedInv, PlainInv
  <2>2. \A d \in Delivers : Send(d) => delivered' = [delivered EXCEPT ![deliver[d].got] = @ + 1]
    BY DEF Send, Post
  <2>3. QED
    BY <2>1, <2>2, WhoPosts, FeedTypes DEF FeedInv, Fresh
<1>2. work'[w].state # "removed"
  BY WhoRemoves, FeedTypes DEF Fresh
<1>3. meta'.work # w
  <2>1. \A u \in Users : Activate(u) => meta'.work = meta.work
    BY FeedTypes DEF Activate, MetaState
  <2>2. \A u \in Users : WriteStop(u) => meta'.work = 0
    BY FeedTypes DEF WriteStop, MetaState
  <2>3. \A u \in Users : StoreRefs(u) => meta'.work = user[u].work
    BY FeedTypes DEF StoreRefs, MetaState, FirstRef
  <2>4. \A d \in Delivers : StoreNext(d) => meta'.work = deliver[d].next
    BY FeedTypes DEF StoreNext, MetaState, NextRef
  <2>5. QED
    BY <2>1, <2>2, <2>3, <2>4, WhoRefers DEF Fresh
<1>4. \A d \in Delivers : deliver'[d].ref # w /\ deliver'[d].got # w
  BY WhatIsLookedUp DEF Fresh
<1>5. \A m \in copies' : m.work # w
  BY OnlyEarlier DEF Fresh
<1>6. QED
  BY <1>1, <1>2, <1>3, <1>4, <1>5 DEF Fresh

(* A job that was just created is fresh, and nobody holds it yet. *)
LEMMA NewIsFresh ==
  ASSUME ~RequiresApproval, ~MayFail, FeedInv, [Next]_vars, AddWork,
         UNCHANGED <<meta, delivered>>
  PROVE  /\ made' \in WorkId
         /\ made' # 0 /\ delivered'[made'] = 0 /\ work'[made'].state # "removed"
         /\ meta'.work # made' /\ \A m \in copies : m.work # made'
         /\ \A d \in Delivers : /\ deliver[d].ref # made' /\ deliver[d].got # made'
                                /\ deliver[d].next # made'
         /\ \A u \in Users : user[u].work # made'
<1>1. made' \in WorkId /\ made' = made + 1 /\ made' > made /\ made' # 0
  BY AddWorkType, FeedTypes, Numbers DEF WorkId, TypeInv
<1>2. work'[made'].state # "removed"
  BY <1>1, FeedTypes, Records DEF AddWork
<1>3. delivered[made'] = 0
  <2>1. work[made'].state = "none"
    BY <1>1, FeedTypes DEF TypeInv, StateInv, StateOK, WorkOK
  <2>2. QED
    BY <1>1, <2>1 DEF FeedInv, ResultInv, Ran
<1>4. /\ meta.work # made' /\ \A m \in copies : m.work # made'
      /\ \A d \in Delivers : /\ deliver[d].ref # made' /\ deliver[d].got # made'
                             /\ deliver[d].next # made'
      /\ \A u \in Users : user[u].work # made'
  BY <1>1, FeedTypes, Numbers DEF Ref, TypeInv, CopiesOK, MetaState
<1>5. QED
  BY <1>1, <1>2, <1>3, <1>4

LEMMA WhoAddsNext ==
  ASSUME ~RequiresApproval, ~MayFail, FeedInv, [Next]_vars, NEW d \in Delivers,
         deliver'[d].pc = "store"
  PROVE  deliver'[d] = deliver[d] \/ AddNext(d)
<1>0. /\ deliver[d] \in DeliverState /\ deliver \in [Delivers -> DeliverState] /\ TypeInv
      /\ PlainJob(deliver[d]) /\ PlainInv
  BY FeedTypes DEF FeedInv
<1>1. CASE CronTick(d)
  BY <1>0, <1>1, NewDeliverType, Numbers DEF CronTick
<1>2. CASE WorkUnfinished(d) \/ WorkFailed(d)
  BY <1>0, <1>2, ThrowPlain DEF WorkUnfinished, WorkFailed
<1>3. CASE NoResult(d) \/ Send(d) \/ Book(d) \/ CheckNext(d) \/ StoreNext(d) \/ StartDeliver(d)
  BY <1>0, <1>3, Records DEF NoResult, Send, Book, CheckNext, StoreNext, StartDeliver, Goto, End,
     DeliverState
<1>4. CASE GotResult(d) \/ Mark(d)
  BY <1>0, <1>4 DEF GotResult, Mark, DeliverState
<1>5. CASE FailDeliver(d) \/ LoseFailure(d) \/ Ask(d) \/ ReadFailures(d) \/ CountDeliverFailure(d)
  BY <1>0, <1>5 DEF FailDeliver, LoseFailure, Ask, ReadFailures, CountDeliverFailure, PlainJob
<1>6. ~Reject(d)
  BY <1>0 DEF Reject, PlainInv
<1>7. QED
  BY <1>0, <1>1, <1>2, <1>3, <1>4, <1>5, <1>6, WhoMoves DEF DeliverStep

LEMMA NextIsNewStep ==
  ASSUME ~RequiresApproval, ~MayFail, FeedInv, [Next]_vars, "lookup" \notin misled',
         NEW d \in Delivers,
         deliver'[d].pc = "store"
  PROVE  /\ \A w \in WorkId : w = deliver'[d].next => Fresh(w)'
         /\ deliver'[d].next \in WorkId
         /\ \A u \in Users : user'[u].work # deliver'[d].next
<1>1. /\ deliver[d] \in DeliverState /\ deliver \in [Delivers -> DeliverState] /\ TypeInv
      /\ PlainJob(deliver[d]) /\ PlainInv
  BY FeedTypes DEF FeedInv
<1>2. deliver'[d] = deliver[d] \/ AddNext(d)
  BY WhoAddsNext
<1>3. CASE deliver'[d] = deliver[d]
  <2> DEFINE w == deliver[d].next
  <2>1. /\ deliver[d].pc = "store" /\ Fresh(w) /\ w \in WorkId
        /\ \A u \in Users : user[u].work # w
    BY <1>3, FeedTypes, Numbers DEF FeedInv, NextIsNew, Fresh, Ref, WorkId
  <2>2. \A e \in Delivers : ~StoreNext(e)
    <3>1. ASSUME NEW e \in Delivers, StoreNext(e) PROVE FALSE
      <4>1. e = d
        BY <1>1, <2>1, <3>1 DEF StoreNext, PlainInv, OneDeliver
      <4>2. QED
        BY <1>1, <1>3, <2>1, <3>1, <4>1, Records DEF StoreNext, End
    <3>2. QED
      BY <3>1
  <2>3. \A v \in WorkId : v = w => Fresh(v)'
    <3>1. \A v \in WorkId : v = w => Fresh(v)
      BY <2>1 DEF Fresh
    <3>2. QED
      BY <2>1, <2>2, <3>1, FreshStays
  <2>4. ASSUME NEW u \in Users PROVE user'[u].work # w
    <3>1. w # 0 /\ \A m \in Readable : m.work # w
      BY <2>1 DEF Fresh, Readable
    <3>2. AddFirst(u) => made' # w
      BY <1>1, AddWorkType, FeedTypes DEF AddFirst, Ref, TypeInv
    <3>3. QED
      BY <1>1, <2>1, <3>1, <3>2, WhoHolds
  <2>5. QED
    BY <1>3, <2>1, <2>3, <2>4
<1>4. CASE AddNext(d)
  <2>1. AddWork /\ UNCHANGED <<meta, copies, delivered, user>>
    BY <1>4 DEF AddNext, history
  <2>2. deliver' = [deliver EXCEPT ![d].pc = "store", ![d].next = made']
    BY <1>4 DEF AddNext
  <2>3. \A e \in Delivers : deliver'[e].ref = deliver[e].ref /\ deliver'[e].got = deliver[e].got
    BY <1>1, <2>2, FeedTypes DEF DeliverState
  <2>4. deliver'[d].next = made'
    BY <1>1, <2>2 DEF DeliverState
  <2>5. QED
    BY <2>1, <2>3, <2>4, NewIsFresh DEF Fresh
<1>5. QED
  BY <1>2, <1>3, <1>4

LEMMA FirstIsNewStep ==
  ASSUME ~RequiresApproval, ~MayFail, ~Overlap, FeedInv, [Next]_vars, "lookup" \notin misled',
         NEW u \in Users,
         user'[u].pc = "refs"
  PROVE  /\ \A w \in WorkId : w = user'[u].work => Fresh(w)'
         /\ user'[u].work \in WorkId
         /\ \A v \in Users \ {u} : user'[v].work # user'[u].work
         /\ \A d \in Delivers : deliver'[d].next # user'[u].work
<1>1. user \in [Users -> UserState] /\ TypeInv /\ PlainInv
  BY FeedTypes DEF FeedInv
<1>2. CASE user'[u] = user[u]
  <2> DEFINE w == user[u].work
  <2>1. /\ user[u].pc = "refs" /\ Fresh(w) /\ w \in WorkId
        /\ \A v \in Users \ {u} : user[v].work # w
        /\ \A d \in Delivers : deliver[d].next # w
    BY <1>2, FeedTypes, Numbers DEF FeedInv, FirstIsNew, Fresh, Ref, WorkId
  <2>2. \A v \in Users : DropWork(v) \/ StoreRefs(v) => user[v].work # w
    <3>1. ~DropWork(u)
      BY <2>1 DEF DropWork
    <3>2. ~StoreRefs(u)
      BY <1>1, <1>2, <2>1, Records DEF StoreRefs
    <3>3. QED
      BY <2>1, <3>1, <3>2
  <2>3. \A v \in WorkId : v = w => Fresh(v)'
    <3>1. \A v \in WorkId : v = w => Fresh(v)
      BY <2>1 DEF Fresh
    <3>2. QED
      BY <2>1, <2>2, <3>1, FreshStays
  <2>4. ASSUME NEW v \in Users \ {u} PROVE user'[v].work # w
    <3>1. w # 0 /\ \A m \in Readable : m.work # w
      BY <2>1 DEF Fresh, Readable
    <3>2. AddFirst(v) => made' # w
      BY <1>1, AddWorkType, FeedTypes DEF AddFirst, Ref, TypeInv
    <3>3. QED
      BY <1>1, <2>1, <3>1, <3>2, WhoHolds
  <2>5. ASSUME NEW d \in Delivers PROVE deliver'[d].next # w
    <3>1. w # 0 /\ w <= made /\ made \in Nat
      BY <2>1, FeedTypes DEF Fresh
    <3>2. deliver'[d].next \in {0, deliver[d].next} \/ deliver'[d].next = made + 1
      <4>1. deliver'[d].pc # "store" => deliver'[d].next = 0
        BY <1>1, PlainStep DEF PlainInv, PlainJob
      <4>2. AddNext(d) => deliver'[d].next = made + 1
        BY FeedTypes DEF AddNext, AddWork, DeliverState
      <4>3. QED
        BY <4>1, <4>2, WhoAddsNext
    <3>3. QED
      BY <2>1, <3>1, <3>2, FeedTypes DEF Ref
  <2>6. QED
    BY <1>2, <2>1, <2>3, <2>4, <2>5
<1>3. CASE AddFirst(u)
  <2>1. AddWork /\ UNCHANGED <<meta, copies, delivered, deliver>>
    BY <1>3 DEF AddFirst, history
  <2>2. user' = [user EXCEPT ![u].pc = "refs", ![u].work = made']
    BY <1>3 DEF AddFirst
  <2>3. user'[u].work = made' /\ \A v \in Users \ {u} : user'[v] = user[v]
    BY <1>1, <2>2, FeedTypes DEF UserState
  <2>4. QED
    BY <2>1, <2>3, NewIsFresh DEF Fresh
<1>4. QED
  BY <1>1, <1>2, <1>3, WhoHolds

(* No step fails a work job, when the agent does not. *)
LEMMA NoFailuresStep ==
  ASSUME ~AgentFails, FeedInv, [Next]_vars, NEW w \in WorkId
  PROVE  work'[w].state \notin {"failed", "counting"}
<1>1. work \in [WorkId -> WorkState] /\ work[w] \in WorkState
      /\ work[w].state \notin {"failed", "counting"} /\ TypeInv
  BY FeedTypes DEF FeedInv, NoFailures
<1>2. CASE AddWork
  BY <1>1, <1>2, Records DEF AddWork
<1>3. ASSUME NEW v \in WorkId, StartWork(v) \/ FinishWork(v)
      PROVE  work'[w].state = work[w].state \/ work'[w].state \in {"active", "completed"}
  <2>1. CASE StartWork(v)
    BY <1>1, <2>1 DEF StartWork, WorkState
  <2>2. CASE FinishWork(v)
    BY <1>1, <2>2 DEF FinishWork, WorkState
  <2>3. QED
    BY <1>3, <2>1, <2>2
<1>4. ASSUME NEW u \in Users, DropWork(u)
      PROVE  work'[w].state = work[w].state \/ work'[w].state = "removed"
  BY <1>1, <1>4 DEF DropWork, WorkState
<1>5. CASE UNCHANGED work
  BY <1>1, <1>5
<1>6. \A v \in WorkId : ~FailWork(v) /\ ~CountWorkFailure(v)
  BY DEF FailWork, CountWorkFailure, FeedInv, NoFailures
<1>7. QED
  BY <1>1, <1>2, <1>3, <1>4, <1>5, <1>6 DEF Next, vars, WorkNext, DeliverStep, AnswerNext, UserStep,
     CronTick, StartDeliver, WorkUnfinished, WorkFailed, NoResult, GotResult, Ask, Send, Mark, Book,
     CheckNext, AddNext, StoreNext, FailDeliver, ReadFailures, CountDeliverFailure, LoseFailure,
     Approve, BookApproved, FailApproved, ClearApproved, Lapse, Expire, RejectAndPause, Reject,
     PauseTask, CancelTask, ResumeTask, UpdateTaskSchedule, Begin, Activate, Reread, DropCron,
     WriteStop, ScheduleCron, AddFirst, StoreRefs, FailUser

(* Only a deliver job that sends changes what was delivered, and it delivers  *)
(* a new result.                                                              *)
LEMMA OnlySendDelivers ==
  ASSUME FeedInv, [Next]_vars, delivered' # delivered
  PROVE  \E d \in Delivers :
           /\ Send(d) /\ deliver[d].got \in WorkId /\ delivered[deliver[d].got] = 0
           /\ delivered' = [delivered EXCEPT ![deliver[d].got] = 1]
<1>1. ~Approve
  BY DEF Approve, FeedInv, PlainInv
<1>2. PICK d \in Delivers : Send(d)
  BY <1>1, WhoPosts DEF FeedInv
<1>3. deliver[d].got \in WorkId /\ delivered[deliver[d].got] = 0
  BY <1>2, FeedTypes, Numbers DEF Send, FeedInv, LookupIsNew, Ref, WorkId
<1>4. delivered' = [delivered EXCEPT ![deliver[d].got] = 1]
  BY <1>2, <1>3, FeedTypes DEF Send, Post
<1>5. QED
  BY <1>2, <1>3, <1>4

LEMMA OnceStep ==
  ASSUME FeedInv, [Next]_vars
  PROVE  \A w \in WorkId : delivered'[w] <= 1
<1>1. CASE UNCHANGED delivered
  BY <1>1 DEF FeedInv
<1>2. CASE delivered' # delivered
  BY <1>2, OnlySendDelivers, FeedTypes DEF FeedInv
<1>3. QED
  BY <1>1, <1>2

(* What a job is about to send, or has looked up, is new. *)
LEMMA LookupIsNewStep ==
  ASSUME ~RequiresApproval, ~MayFail, ~Overlap, FeedInv, [Next]_vars, "lookup" \notin misled',
         NEW d \in Delivers
  PROVE  /\ deliver'[d].pc = "result" =>
              deliver'[d].ref = 0 \/ delivered'[deliver'[d].ref] = 0
         /\ deliver'[d].pc = "send" =>
              deliver'[d].got # 0 /\ delivered'[deliver'[d].got] = 0
<1>1. /\ deliver[d] \in DeliverState /\ deliver \in [Delivers -> DeliverState] /\ TypeInv
      /\ PlainJob(deliver[d]) /\ PlainInv /\ ~Reject(d)
  BY FeedTypes DEF FeedInv, PlainInv, Reject
<1>2. CASE deliver'[d] = deliver[d]
  <2>1. CASE UNCHANGED delivered
    BY <1>2, <2>1 DEF FeedInv, LookupIsNew
  <2>2. CASE delivered' # delivered
    <3>1. PICK e \in Delivers : Send(e)
      BY <2>2, OnlySendDelivers
    <3>2. deliver'[e].pc = "mark" /\ deliver[e].pc = "send"
      BY <1>1, <3>1 DEF Send, Goto, DeliverState
    <3>3. deliver[d].pc = "idle"
      BY <1>1, <1>2, <3>2 DEF PlainInv, OneDeliver
    <3>4. QED
      BY <1>2, <3>3
  <2>3. QED
    BY <2>1, <2>2
<1>3. CASE StartDeliver(d)
  <2>1. CASE ~Runnable
    BY <1>1, <1>3, <2>1, TrueLookup, Records DEF End
  <2>2. CASE Runnable
    <3>0. /\ deliver' = [deliver EXCEPT ![d].pc = "result", ![d].ref = meta.work]
          /\ UNCHANGED delivered
      BY <1>3, <2>2, TrueLookup
    <3>1. deliver'[d].pc = "result" /\ deliver'[d].ref = meta.work /\ UNCHANGED delivered
      BY <1>1, <3>0 DEF DeliverState
    <3>2. \A e \in Delivers : deliver[e].pc \notin PastSend
      BY <1>1, <1>3 DEF StartDeliver, PlainInv, OneDeliver, PastSend
    <3>3. QED
      BY <3>1, <3>2 DEF FeedInv, CurrentIsNew
  <2>3. QED
    BY <2>1, <2>2
<1>4. CASE GotResult(d)
  <2>1. /\ deliver[d].pc = "result" /\ Wanted(d) = deliver[d].ref /\ Wanted(d) \in WorkId
        /\ deliver'[d].got = Wanted(d) /\ deliver'[d].pc # "result" /\ UNCHANGED delivered
    BY <1>1, <1>4 DEF GotResult, DeliverState, Wanted, In, PlainJob, history
  <2>2. deliver[d].ref # 0 /\ delivered[deliver[d].ref] = 0
    BY <2>1, Numbers DEF FeedInv, LookupIsNew, WorkId
  <2>3. QED
    BY <2>1, <2>2
<1>5. CASE ~StartDeliver(d) /\ ~GotResult(d) /\ deliver'[d] # deliver[d]
  <2>1. CASE CronTick(d)
    BY <1>1, <2>1, NewDeliverType, Numbers DEF CronTick
  <2>2. CASE WorkUnfinished(d) \/ WorkFailed(d)
    BY <1>1, <2>2, ThrowPlain DEF WorkUnfinished, WorkFailed
  <2>3. CASE NoResult(d) \/ Send(d) \/ Book(d) \/ CheckNext(d) \/ StoreNext(d)
    BY <1>1, <2>3, Records DEF NoResult, Send, Book, CheckNext, StoreNext, Goto, End, DeliverState
  <2>4. CASE AddNext(d) \/ Mark(d)
    BY <1>1, <2>4 DEF AddNext, Mark, DeliverState
  <2>5. CASE FailDeliver(d) \/ LoseFailure(d) \/ Ask(d) \/ ReadFailures(d) \/ CountDeliverFailure(d)
    BY <1>1, <2>5 DEF FailDeliver, LoseFailure, Ask, ReadFailures, CountDeliverFailure, PlainJob
  <2>6. QED
    BY <1>1, <1>5, <2>1, <2>2, <2>3, <2>4, <2>5, WhoMoves DEF DeliverStep
<1>6. QED
  BY <1>2, <1>3, <1>4, <1>5

(* The reference after a step: the old one with a task no less active, a fresh *)
(* one, or none with the task stopped.                                         *)
LEMMA WhatIsReferred ==
  ASSUME ~RequiresApproval, ~MayFail, FeedInv, [Next]_vars
  PROVE  \/ meta'.work = meta.work /\ (Runnable => Runnable') /\ \A d \in Delivers : ~StoreNext(d)
         \/ /\ meta'.work # 0 /\ delivered'[meta'.work] = 0 /\ work'[meta'.work].state # "removed"
            /\ \A d \in Delivers : meta'.work \notin {deliver'[d].ref, deliver'[d].got}
         \/ meta'.work = 0 /\ ~Runnable'
<1>1. CASE /\ meta'.work = meta.work /\ meta'.status = meta.status
           /\ \A d \in Delivers : ~StoreNext(d)
  BY <1>1 DEF Runnable, IsRunnable
<1>2. ASSUME NEW d \in Delivers, StoreNext(d)
      PROVE  /\ meta'.work # 0 /\ delivered'[meta'.work] = 0 /\ work'[meta'.work].state # "removed"
             /\ \A e \in Delivers : meta'.work \notin {deliver'[e].ref, deliver'[e].got}
  <2>1. /\ deliver[d].pc = "store" /\ meta'.work = deliver[d].next /\ UNCHANGED <<delivered, work>>
    BY <1>2, FeedTypes DEF StoreNext, NextRef, MetaState, history
  <2>2. Fresh(deliver[d].next)
    BY <2>1 DEF FeedInv, NextIsNew
  <2>3. \A e \in Delivers : /\ deliver'[e].ref \in {0, deliver[e].ref}
                            /\ deliver'[e].got \in {0, deliver[e].got}
    BY <1>2, FeedTypes, Records DEF StoreNext, End
  <2>4. QED
    BY <2>1, <2>2, <2>3 DEF Fresh
<1>3. ASSUME NEW u \in Users, StoreRefs(u)
      PROVE  /\ meta'.work # 0 /\ delivered'[meta'.work] = 0 /\ work'[meta'.work].state # "removed"
             /\ \A e \in Delivers : meta'.work \notin {deliver'[e].ref, deliver'[e].got}
  <2>1. /\ user[u].pc = "refs" /\ meta'.work = user[u].work /\ UNCHANGED <<delivered, work, deliver>>
    BY <1>3, FeedTypes DEF StoreRefs, FirstRef, MetaState, history
  <2>2. Fresh(user[u].work)
    BY <2>1 DEF FeedInv, FirstIsNew
  <2>3. QED
    BY <2>1, <2>2 DEF Fresh
<1>4. ASSUME NEW u \in Users, WriteStop(u)
      PROVE  meta'.work = 0 /\ ~Runnable'
  BY <1>4, FeedTypes DEF WriteStop, MetaState, Runnable, IsRunnable
<1>5. ASSUME NEW u \in Users, Activate(u)
      PROVE  meta'.work = meta.work /\ Runnable' /\ \A d \in Delivers : ~StoreNext(d)
  <2>1. meta'.work = meta.work /\ Runnable'
    BY <1>5, FeedTypes DEF Activate, MetaState, Runnable, IsRunnable
  <2>2. ASSUME NEW d \in Delivers, StoreNext(d) PROVE FALSE
    BY <1>5, <2>2, FeedTypes DEF Activate, StoreNext, UserGo, UserState
  <2>3. QED
    BY <2>1, <2>2
<1>6. QED
  BY <1>1, <1>2, <1>3, <1>4, <1>5, WhoRefers

LEMMA LookupRunsStep ==
  ASSUME ~RequiresApproval, ~MayFail, FeedInv, [Next]_vars, "lookup" \notin misled'
  PROVE  LookupRuns'
<1> SUFFICES ASSUME NEW d \in Delivers, meta'.work # 0,
                    meta'.work \in {deliver'[d].ref, deliver'[d].got}
             PROVE  Runnable'
  BY DEF LookupRuns
<1>1. meta'.work = meta.work /\ (Runnable => Runnable')
  BY WhatIsReferred
<1>2. \/ meta.work \in {deliver[d].ref, deliver[d].got}
      \/ Runnable
  BY <1>1, WhatIsLookedUp
<1>3. QED
  BY <1>1, <1>2 DEF FeedInv, LookupRuns

(* A job that has posted is past that until it ends, which in a running task  *)
(* it does by storing its successor.                                          *)
LEMMA PastSendStays ==
  ASSUME ~RequiresApproval, ~MayFail, FeedInv, [Next]_vars, NEW d \in Delivers,
         deliver[d].pc \in PastSend, ~StoreNext(d), Runnable
  PROVE  deliver'[d].pc \in PastSend
<1>1. /\ deliver[d] \in DeliverState /\ deliver \in [Delivers -> DeliverState] /\ TypeInv
      /\ PlainJob(deliver[d]) /\ PlainInv /\ ~Reject(d)
  BY FeedTypes DEF FeedInv, PlainInv, Reject
<1>2. CASE CheckNext(d)
  BY <1>1, <1>2 DEF CheckNext, WantsNext, Goto, PlainInv, DeliverState, PastSend
<1>3. CASE Mark(d) \/ AddNext(d) \/ Book(d)
  BY <1>1, <1>3 DEF Mark, AddNext, Book, Goto, DeliverState, PastSend
<1>4. ~CronTick(d) /\ ~FailDeliver(d)
  BY DEF CronTick, FailDeliver, PastSend
<1>5. /\ ~StartDeliver(d) /\ ~WorkUnfinished(d) /\ ~WorkFailed(d) /\ ~NoResult(d) /\ ~GotResult(d)
      /\ ~Ask(d) /\ ~Send(d) /\ ~ReadFailures(d) /\ ~CountDeliverFailure(d) /\ ~LoseFailure(d)
  BY DEF StartDeliver, WorkUnfinished, WorkFailed, NoResult, GotResult, Ask, Send, ReadFailures,
     CountDeliverFailure, LoseFailure, PastSend
<1>6. QED
  BY <1>1, <1>2, <1>3, <1>4, <1>5, WhoMoves DEF DeliverStep

LEMMA CurrentIsNewStep ==
  ASSUME ~RequiresApproval, ~MayFail, FeedInv, [Next]_vars
  PROVE  CurrentIsNew'
<1> SUFFICES ASSUME meta'.work # 0, delivered'[meta'.work] # 0
             PROVE  Runnable' /\ \E d \in Delivers : deliver'[d].pc \in PastSend
  BY DEF CurrentIsNew
<1>1. meta'.work = meta.work /\ (Runnable => Runnable') /\ \A d \in Delivers : ~StoreNext(d)
  BY WhatIsReferred
<1>2. CASE delivered[meta.work] # 0
  <2>1. Runnable /\ \E d \in Delivers : deliver[d].pc \in PastSend
    BY <1>1, <1>2 DEF FeedInv, CurrentIsNew
  <2>2. QED
    BY <1>1, <2>1, PastSendStays
<1>3. CASE delivered[meta.work] = 0
  <2>1. PICK d \in Delivers : /\ Send(d) /\ deliver[d].got \in WorkId
                              /\ delivered' = [delivered EXCEPT ![deliver[d].got] = 1]
    BY <1>1, <1>3, OnlySendDelivers
  <2>2. deliver[d].got = meta.work
    BY <1>1, <1>3, <2>1
  <2>3. Runnable
    BY <1>1, <2>2 DEF FeedInv, LookupRuns
  <2>4. deliver'[d].pc \in PastSend
    BY <2>1, FeedTypes DEF Send, Goto, DeliverState, PastSend
  <2>5. QED
    BY <1>1, <2>3, <2>4
<1>4. QED
  BY <1>2, <1>3

LEMMA FedStep ==
  ASSUME ~RequiresApproval, ~MayFail, FeedInv, [Next]_vars
  PROVE  Fed'
<1> SUFFICES ASSUME UsersIdle', Runnable', \A d \in Delivers : deliver'[d].pc \notin PastSend
             PROVE  meta'.work # 0 /\ work'[meta'.work].state # "removed"
  BY DEF Fed
<1>1. CASE meta'.work # 0 /\ delivered'[meta'.work] = 0 /\ work'[meta'.work].state # "removed"
  BY <1>1
<1>2. CASE \E u \in Users : UserStep(u) /\ user'[u].pc = "idle"
  <2>1. PICK u \in Users : WriteStop(u) \/ StoreRefs(u) \/ FailUser(u)
    <3>1. PICK u \in Users : UserStep(u) /\ user'[u].pc = "idle"
      BY <1>2
    <3>2. user \in [Users -> UserState] /\ user[u] \in UserState
      BY FeedTypes
    <3>3. ~PauseTask(u) /\ ~CancelTask(u) /\ ~ResumeTask(u) /\ ~UpdateTaskSchedule(u)
      BY <3>1, <3>2 DEF PauseTask, CancelTask, ResumeTask, UpdateTaskSchedule, Begin
    <3>4. ~Activate(u) /\ ~DropWork(u) /\ ~DropCron(u) /\ ~ScheduleCron(u)
      BY <3>1, <3>2 DEF Activate, DropWork, DropCron, ScheduleCron, UserGo, UserState
    <3>5. ~AddFirst(u)
      BY <3>1, <3>2 DEF AddFirst, UserState
    <3>7. ASSUME Reread(u) PROVE FALSE
      <4>1. PICK m \in Readable :
              user' = [user EXCEPT ![u].pc = "drop", ![u].work = m.work, ![u].repeat = m.repeat]
        BY <3>7 DEF Reread
      <4>2. QED
        BY <3>1, <3>2, <4>1 DEF UserState
    <3>6. QED
      BY <3>1, <3>3, <3>4, <3>5, <3>7 DEF UserStep
  <2>2. ~FailUser(u)
    BY DEF FailUser
  <2>3. WriteStop(u) => ~Runnable'
    BY FeedTypes DEF WriteStop, MetaState, Runnable, IsRunnable
  <2>4. StoreRefs(u) => meta'.work # 0 /\ work'[meta'.work].state # "removed"
    <3> SUFFICES ASSUME StoreRefs(u)
                 PROVE  meta'.work # 0 /\ work'[meta'.work].state # "removed"
      OBVIOUS
    <3>1. user[u].pc = "refs" /\ meta'.work = user[u].work /\ UNCHANGED work
      BY FeedTypes DEF StoreRefs, FirstRef, MetaState
    <3>2. QED
      BY <3>1 DEF FeedInv, FirstIsNew, Fresh
  <2>5. QED
    BY <2>1, <2>2, <2>3, <2>4
<1>3. CASE /\ ~\E u \in Users : UserStep(u)
           /\ meta'.work = meta.work /\ meta'.status = meta.status
           /\ \A d \in Delivers : ~StoreNext(d)
  <2>1. UNCHANGED user
    BY <1>3 DEF Next, vars, WorkNext, StartWork, FinishWork, FailWork, CountWorkFailure,
       DeliverStep, AnswerNext, CronTick, StartDeliver, WorkUnfinished, WorkFailed, NoResult,
       GotResult, Send, Ask, Mark, Book, CheckNext, AddNext, StoreNext, FailDeliver, ReadFailures,
       CountDeliverFailure, LoseFailure, Approve, BookApproved, FailApproved, ClearApproved,
       Lapse, Expire, RejectAndPause, Reject
  <2>2. UsersIdle /\ Runnable
    BY <1>3, <2>1 DEF UsersIdle, Runnable, IsRunnable
  <2>3. \A d \in Delivers : deliver[d].pc \notin PastSend
    BY <1>3, <2>2, PastSendStays
  <2>4. meta.work # 0 /\ work[meta.work].state # "removed" /\ meta.work \in WorkId
    BY <2>2, <2>3, FeedTypes, Numbers DEF FeedInv, Fed, Ref, WorkId
  <2>5. \A u \in Users : ~DropWork(u)
    BY <2>2 DEF UsersIdle, DropWork
  <2>6. QED
    BY <1>3, <2>4, <2>5, WhoRemoves, FeedTypes
<1>4. CASE /\ ~\E u \in Users : UserStep(u)
           /\ ~(/\ meta'.work = meta.work /\ meta'.status = meta.status
                /\ \A d \in Delivers : ~StoreNext(d))
  <2>1. PICK d \in Delivers : StoreNext(d)
    BY <1>4, WhoRefers DEF UserStep
  <2>2. deliver[d].pc = "store" /\ meta'.work = deliver[d].next /\ UNCHANGED work
    BY <2>1, FeedTypes DEF StoreNext, NextRef, MetaState
  <2>3. QED
    BY <2>2 DEF FeedInv, NextIsNew, Fresh
<1>5. CASE /\ \E u \in Users : UserStep(u)
           /\ ~\E u \in Users : UserStep(u) /\ user'[u].pc = "idle"
  BY <1>5 DEF UsersIdle
<1>6. QED
  BY <1>2, <1>3, <1>4, <1>5

LEMMA FeedStep ==
  ASSUME ~RequiresApproval, ~AgentFails, ~MayFail, ~Overlap, FeedInv, [Next]_vars, "lookup" \notin misled'
  PROVE  FeedInv'
<1>1. PlainInv' /\ ResultInv'
  BY PlainStep, ResultStep DEF FeedInv
<1>2. NoFailures'
  BY NoFailuresStep DEF NoFailures
<1>3. (\A w \in WorkId : delivered'[w] <= 1) /\ LookupRuns' /\ CurrentIsNew' /\ Fed'
  BY OnceStep, LookupRunsStep, CurrentIsNewStep, FedStep
<1>4. LookupIsNew'
  BY LookupIsNewStep DEF LookupIsNew
<1>5. NextIsNew'
  <2> SUFFICES ASSUME NEW d \in Delivers, deliver'[d].pc = "store"
               PROVE  /\ Fresh(deliver[d].next)'
                      /\ \A u \in Users : user'[u].work # deliver'[d].next
    BY DEF NextIsNew
  <2>1. \A w \in WorkId : w = deliver'[d].next => Fresh(w)'
    BY NextIsNewStep
  <2>2. QED
    BY <2>1, NextIsNewStep DEF Fresh
<1>6. FirstIsNew'
  <2> SUFFICES ASSUME NEW u \in Users, user'[u].pc = "refs"
               PROVE  /\ Fresh(user[u].work)'
                      /\ \A v \in Users \ {u} : user'[v].work # user'[u].work
                      /\ \A d \in Delivers : deliver'[d].next # user'[u].work
    BY DEF FirstIsNew
  <2>1. \A w \in WorkId : w = user'[u].work => Fresh(w)'
    BY FirstIsNewStep
  <2>2. QED
    BY <2>1, FirstIsNewStep DEF Fresh
<1>7. QED
  BY <1>1, <1>2, <1>3, <1>4, <1>5, <1>6 DEF FeedInv

LEMMA InitFeed == Init => FeedInv
<1> SUFFICES ASSUME Init PROVE FeedInv
  OBVIOUS
<1>1. /\ meta.work = 1 /\ Runnable /\ 1 \in WorkId
      /\ \A w \in WorkId : delivered[w] = 0
      /\ \A w \in WorkId : work[w] \in {FirstWork, NoWork}
      /\ \A d \in Delivers : deliver[d] = IdleDeliver
      /\ \A u \in Users : user[u] = IdleUser
  BY Numbers DEF Init, Runnable, IsRunnable, WorkId
<1>2. PlainInv /\ ResultInv
  BY <1>1, InitPlain, InitType, Records, Numbers DEF Init, ResultInv, WorkId
<1>3. QED
  BY <1>1, <1>2, Records DEF FeedInv, NoFailures, LookupIsNew, LookupRuns, NextIsNew,
     FirstIsNew, CurrentIsNew, Fed, Runnable, PastSend

(* What holds along every behaviour, until a deliver job looks up a copy. *)
LEMMA AlwaysFeed ==
  ASSUME ~RequiresApproval, ~AgentFails, ~MayFail, ~Overlap
  PROVE  Spec => [](TypeInv /\ ("lookup" \notin misled => FeedInv))
<1> DEFINE Inv == TypeInv /\ ("lookup" \notin misled => FeedInv)
<1>1. Init => Inv
  BY InitFeed, InitType
<1>2. Inv /\ [Next]_vars => Inv'
  <2> SUFFICES ASSUME Inv, [Next]_vars, "lookup" \notin misled' PROVE FeedInv'
    BY TypeStep
  <2>1. "lookup" \notin misled
    BY SmallType DEF TypeInv
  <2>2. QED
    BY <2>1, FeedStep
<1>3. QED
  BY <1>1, <1>2, PTL DEF Spec

(* No result is delivered twice, with any number of concurrent user           *)
(* operations of every kind, and whatever copies of the metadata they and the *)
(* work jobs read: a cancelled, paused, resumed or rescheduled task never      *)
(* refers again to a job whose result was posted.  (A deliver job that itself  *)
(* looked up a copy that was out of date may post again.)                      *)
THEOREM OnlyOnce ==
  ASSUME ~RequiresApproval, ~AgentFails, ~MayFail, ~Overlap
  PROVE  Spec => []DeliveredOnce
<1>1. TypeInv /\ ("lookup" \notin misled => FeedInv) => DeliveredOnce
  BY DEF FeedInv, DeliveredOnce
<1>2. QED
  BY <1>1, AlwaysFeed, PTL

(* An active task at rest is fed: it refers to a job that exists, was not     *)
(* removed and whose result is still to be delivered.                         *)
THEOREM AlwaysFed ==
  ASSUME ~RequiresApproval, ~AgentFails, ~MayFail, ~Overlap
  PROVE  Spec => []NextRunIsFed
<1>1. TypeInv /\ ("lookup" \notin misled => FeedInv) => NextRunIsFed
  BY DEF FeedInv, NextRunIsFed, Fed, CurrentIsNew, DeliversIdle, PastSend
<1>2. QED
  BY <1>1, AlwaysFeed, PTL
=============================================================================
