-------------------------- MODULE UsageBillingProofs --------------------------
(* Proofs about UsageBilling, for every value of its constants.             *)
EXTENDS UsageBilling, TLAPS

-----------------------------------------------------------------------------
(* Amounts.  What a run still has to claim, and the chunk it is claiming,   *)
(* stay within what was found held; nothing is held that was not used.      *)

RunFits(k) ==
  /\ run[k].pc # "idle" => run[k].todo # 0
  /\ run[k].pc \in Tasks \cup {"clear", "settle"} =>
         run[k].amount \in 1..MaxAmount /\ run[k].amount <= run[k].todo

HeldWasUsed == held <= used

AmountsInv == TypeOK /\ HeldWasUsed /\ \A k \in Runs : RunFits(k)

LEMMA Numbers ==
  /\ Credits \in Nat /\ MaxUsed \in Nat /\ MaxCrashes \in Nat /\ MaxSlips \in Nat
  /\ Threshold \in Nat /\ Threshold # 0 /\ MaxAmount \in Nat /\ MaxAmount # 0
  /\ \A c \in Costs : c \in Nat /\ c # 0
  BY BillingAssumption

LEMMA IdleTypes == IdleRequest \in RequestState /\ IdleRun \in RunState
  BY Numbers DEF IdleRequest, IdleRun, RequestState, RunState, Amount

LEMMA InitAmounts == Init => AmountsInv
<1> SUFFICES ASSUME Init PROVE AmountsInv
  OBVIOUS
<1>1. StoredOK /\ HeldWasUsed
  BY Numbers DEF Init, StoredOK, HeldWasUsed, Amount, None, MaxClaimed
<1> pending \in BOOLEAN
  BY DEF Init
<1>2. request \in [Requests -> RequestState] /\ run \in [Runs -> RunState]
  BY IdleTypes DEF Init
<1>3. \A k \in Runs : RunFits(k)
  BY DEF Init, RunFits, IdleRun, Tasks
<1>4. QED
  BY <1>1, <1>2, <1>3 DEF AmountsInv, TypeOK

(* What a step of a request or of the limiter leaves alone. *)
LEMMA RunsFrame ==
  ASSUME AmountsInv, UNCHANGED run
  PROVE  run' \in [Runs -> RunState] /\ \A k \in Runs : RunFits(k)'
  BY DEF AmountsInv, TypeOK, RunFits, RunState

LEMMA PendingType ==
  ASSUME AmountsInv, [Next]_vars
  PROVE  pending' \in BOOLEAN
<1>1. UNCHANGED pending \/ pending' = TRUE \/ pending' = FALSE
  BY DEF Next, vars, RequestStep, Subscription, StorePayload, ReadHeld, SetBalance, Limit,
     RunStep, StartRun, CheckCredits, NextClaim, SubmitIntent, SaveToMatrix, SubmitToChain,
     SendToSubsApi, ClearPending, Settle, FailTask, ExpireCache, ExpirePending, Crash
<1>2. QED
  BY <1>1 DEF AmountsInv, TypeOK

LEMMA RequestAmounts ==
  ASSUME AmountsInv, NEW r \in Requests, RequestStep(r)
  PROVE  AmountsInv'
<1>1. UNCHANGED <<run, held, used>>
  BY DEF RequestStep, Subscription, StorePayload, ReadHeld, SetBalance
<1>2. request[r] \in RequestState
  BY DEF AmountsInv, TypeOK
<1>3. StoredOK' /\ request' \in [Requests -> RequestState]
  <2>1. CASE Subscription(r)
    BY <2>1, BillingAssumption DEF AmountsInv, Subscription, TypeOK, StoredOK, RequestState, Amount, None
  <2>2. CASE StorePayload(r)
    BY <2>2, <1>2, BillingAssumption DEF AmountsInv, StorePayload, GoR, TypeOK, StoredOK, RequestState, Amount, None
  <2>3. CASE ReadHeld(r)
    BY <2>3, <1>2 DEF AmountsInv, ReadHeld, TypeOK, StoredOK, RequestState
  <2>4. CASE SetBalance(r)
    <3>1. /\ request[r].total \in Amount /\ request[r].held \in Int
          /\ NewBalance(request[r].total, request[r].held) \in Nat
      BY <1>2, Numbers DEF RequestState, Amount, NewBalance
    <3>2. request' \in [Requests -> RequestState]
      BY <2>4, IdleTypes DEF SetBalance, AmountsInv, TypeOK
    <3>3. QED
      BY <2>4, <3>1, <3>2, Numbers DEF AmountsInv, SetBalance, TypeOK, StoredOK, Amount, None
  <2>5. QED
    BY <2>1, <2>2, <2>3, <2>4 DEF RequestStep
<1>4. pending' \in BOOLEAN
  BY PendingType DEF Next
<1>5. QED
  BY <1>1, <1>3, <1>4, RunsFrame DEF AmountsInv, TypeOK, HeldWasUsed

LEMMA LimitAmounts ==
  ASSUME AmountsInv, NEW c \in Costs, Limit(c)
  PROVE  AmountsInv'
<1>1. StoredOK' /\ HeldWasUsed'
  BY BillingAssumption DEF AmountsInv, Limit, Affordable, TypeOK, StoredOK, HeldWasUsed, Amount, None, MaxClaimed
<1>2. pending' \in BOOLEAN
  BY PendingType DEF Next
<1>3. QED
  BY <1>1, <1>2, RunsFrame DEF AmountsInv, TypeOK, Limit

(* A run's record replaced by one that fits leaves every run fitting. *)
LEMMA RunUpdate ==
  ASSUME AmountsInv, NEW k \in Runs, NEW new \in RunState,
         run' = [run EXCEPT ![k] = new],
         new.pc # "idle" => new.todo # 0,
         new.pc \in Tasks \cup {"clear", "settle"} =>
             new.amount \in 1..MaxAmount /\ new.amount <= new.todo
  PROVE  run' \in [Runs -> RunState] /\ \A j \in Runs : RunFits(j)'
  BY DEF AmountsInv, TypeOK, RunFits

(* The amounts of a run that only goes on to its next step still fit. *)
LEMMA GoFits ==
  ASSUME AmountsInv, NEW k \in Runs, NEW pc, GoK(k, pc), run[k].pc # "idle",
         \/ pc = "claim"
         \/ {pc, run[k].pc} \subseteq Tasks \cup {"clear", "settle"}
  PROVE  run' \in [Runs -> RunState] /\ \A j \in Runs : RunFits(j)'
<1> DEFINE new == [run[k] EXCEPT !.pc = pc]
<1>1. run[k] \in RunState /\ RunFits(k)
  BY DEF AmountsInv, TypeOK
<1>2. /\ new \in RunState /\ new.pc = pc
      /\ new.todo = run[k].todo /\ new.amount = run[k].amount
  BY <1>1 DEF RunState
<1>3. run' = [run EXCEPT ![k] = new]
  BY DEF GoK
<1> HIDE DEF new
<1>4. QED
  BY <1>1, <1>2, <1>3, RunUpdate DEF RunFits, Tasks

LEMMA StopFits ==
  ASSUME AmountsInv, NEW k \in Runs, run' = [run EXCEPT ![k] = IdleRun]
  PROVE  run' \in [Runs -> RunState] /\ \A j \in Runs : RunFits(j)'
<1>1. IdleRun.pc = "idle"
  BY DEF IdleRun
<1>2. QED
  BY <1>1, IdleTypes, RunUpdate DEF Tasks

LEMMA ChunkFits ==
  ASSUME NEW todo \in Nat, todo # 0
  PROVE  Chunk(todo) \in 1..MaxAmount /\ Chunk(todo) <= todo
  BY Numbers DEF Chunk

LEMMA RunAmounts ==
  ASSUME AmountsInv, NEW k \in Runs, RunStep(k)
  PROVE  AmountsInv'
<1>1. StoredOK' /\ HeldWasUsed' /\ request' \in [Requests -> RequestState]
  <2>1. run[k] \in RunState
    BY DEF AmountsInv, TypeOK
  <2> USE <2>1, Numbers
  <2>2. CASE SubmitIntent(k)
    BY <2>2 DEF AmountsInv, SubmitIntent, TypeOK, StoredOK, HeldWasUsed, Amount, RunState
  <2>3. CASE SubmitToChain(k)
    BY <2>3 DEF AmountsInv, SubmitToChain, TypeOK, StoredOK, HeldWasUsed, Amount, RunState
  <2>4. CASE Settle(k)
    BY <2>4 DEF AmountsInv, Settle, HeldAfter, TypeOK, StoredOK, HeldWasUsed, Amount, RunState
  <2>5. CASE NextClaim(k)
    BY <2>5 DEF AmountsInv, NextClaim, TypeOK, StoredOK, HeldWasUsed
  <2>6. CASE ClearPending(k)
    BY <2>6 DEF AmountsInv, ClearPending, TypeOK, StoredOK, HeldWasUsed
  <2>7. CASE StartRun(k) \/ CheckCredits(k) \/ SaveToMatrix(k) \/ SendToSubsApi(k)
    BY <2>7 DEF AmountsInv, StartRun, CheckCredits, SaveToMatrix, SendToSubsApi,
       TypeOK, StoredOK, HeldWasUsed
  <2>8. CASE FailTask(k)
    BY <2>8 DEF AmountsInv, FailTask, TypeOK, StoredOK, HeldWasUsed
  <2>9. QED
    BY <2>2, <2>3, <2>4, <2>5, <2>6, <2>7, <2>8 DEF RunStep
<1>2. run' \in [Runs -> RunState] /\ \A j \in Runs : RunFits(j)'
  <2>1. run[k] \in RunState /\ RunFits(k)
    BY DEF AmountsInv, TypeOK
  <2>2. CASE StartRun(k)
    <3> DEFINE new == [pc |-> "check", todo |-> held, amount |-> 0, split |-> held > MaxAmount]
    <3>1. new \in RunState /\ new.todo # 0
      BY <2>2, Numbers DEF StartRun, Due, AmountsInv, TypeOK, StoredOK, HeldWasUsed, RunState
    <3>2. run' = [run EXCEPT ![k] = new] /\ new.pc = "check"
      BY <2>2 DEF StartRun
    <3> HIDE DEF new
    <3>3. QED
      BY <3>1, <3>2, RunUpdate DEF Tasks
  <2>3. CASE CheckCredits(k)
    <3>1. run[k].pc = "check" /\ (GoK(k, "claim") \/ run' = [run EXCEPT ![k] = IdleRun])
      BY <2>3 DEF CheckCredits
    <3>2. CASE GoK(k, "claim")
      BY <3>1, <3>2, GoFits
    <3>3. QED
      BY <3>1, <3>2, StopFits
  <2>4. CASE NextClaim(k)
    <3>1. run[k].todo \in Nat /\ run[k].todo # 0
      BY <2>1, <2>4, Numbers DEF NextClaim, RunState, RunFits
    <3>2. Chunk(run[k].todo) \in 1..MaxAmount /\ Chunk(run[k].todo) <= run[k].todo
      BY <3>1, ChunkFits
    <3>3. /\ Chunk(run[k].todo) \in 0..MaxAmount
          /\ "intent" \in {"idle", "check", "claim", "clear", "settle"} \cup Tasks
      BY <3>2, Numbers DEF Tasks
    <3> DEFINE new == [run[k] EXCEPT !.pc = "intent", !.amount = Chunk(run[k].todo)]
    <3>4. /\ new \in RunState /\ new.todo = run[k].todo
          /\ new.amount = Chunk(run[k].todo)
      BY <2>1, <3>3 DEF RunState
    <3>5. run' = [run EXCEPT ![k] = new]
      BY <2>4 DEF NextClaim
    <3> HIDE DEF new
    <3>6. QED
      BY <3>1, <3>2, <3>4, <3>5, RunUpdate
  <2>5. CASE SubmitIntent(k) \/ SaveToMatrix(k) \/ SubmitToChain(k) \/ SendToSubsApi(k) \/ ClearPending(k)
    BY <2>5, GoFits DEF SubmitIntent, SaveToMatrix, SubmitToChain, SendToSubsApi, ClearPending, Tasks
  <2>6. CASE Settle(k)
    <3> DEFINE rest == run[k].todo - run[k].amount
               new == [run[k] EXCEPT !.pc = "claim", !.todo = rest]
    <3>1. rest \in 0..MaxUsed
      BY <2>1, <2>6, Numbers DEF Settle, RunState, RunFits
    <3>2. CASE rest = 0
      BY <2>6, <3>2, StopFits DEF Settle
    <3>3. CASE rest # 0
      <4>1. run' = [run EXCEPT ![k] = new]
        BY <2>6, <3>3 DEF Settle
      <4> HIDE DEF rest
      <4>2. new \in RunState /\ new.pc = "claim" /\ new.todo = rest
        BY <2>1, <3>1 DEF RunState
      <4> HIDE DEF new
      <4>3. QED
        BY <3>3, <4>1, <4>2, RunUpdate DEF Tasks
    <3>4. QED
      BY <3>2, <3>3
  <2>7. CASE FailTask(k)
    BY <2>7, StopFits DEF FailTask
  <2>8. QED
    BY <2>2, <2>3, <2>4, <2>5, <2>6, <2>7 DEF RunStep
<1>3. pending' \in BOOLEAN
  BY PendingType DEF Next
<1>4. QED
  BY <1>1, <1>2, <1>3 DEF AmountsInv, TypeOK

LEMMA OtherAmounts ==
  ASSUME AmountsInv, ExpireCache \/ ExpirePending \/ Crash
  PROVE  AmountsInv'
<1>1. StoredOK' /\ HeldWasUsed'
  BY Numbers DEF AmountsInv, ExpireCache, ExpirePending, Crash, TypeOK, StoredOK, HeldWasUsed, None
<1> pending' \in BOOLEAN
  BY PendingType DEF Next
<1>2. CASE Crash
  <2>1. request' \in [Requests -> RequestState] /\ run' \in [Runs -> RunState]
    BY <1>2, IdleTypes DEF Crash
  <2>2. \A k \in Runs : RunFits(k)'
    BY <1>2 DEF Crash, RunFits, IdleRun, Tasks
  <2>3. QED
    BY <1>1, <2>1, <2>2 DEF AmountsInv, TypeOK
<1>3. CASE ExpireCache \/ ExpirePending
  BY <1>1, <1>3, RunsFrame DEF ExpireCache, ExpirePending, AmountsInv, TypeOK
<1>4. QED
  BY <1>2, <1>3

LEMMA AmountsStep == AmountsInv /\ [Next]_vars => AmountsInv'
<1> SUFFICES ASSUME AmountsInv, [Next]_vars PROVE AmountsInv'
  OBVIOUS
<1>1. CASE UNCHANGED vars
  BY <1>1, RunsFrame DEF vars, AmountsInv, TypeOK, StoredOK, HeldWasUsed
<1>2. CASE Next
  BY <1>2, RequestAmounts, LimitAmounts, RunAmounts, OtherAmounts DEF Next
<1>3. QED
  BY <1>1, <1>2

(* Splitting a held amount into claims loses nothing and asks for no more    *)
(* than the price list allows, and nothing is held that was not used, however *)
(* requests, charges, runs (overlapping ones too), failures and restarts mix. *)
THEOREM AmountsAlwaysFit == Spec => []AmountsFit
<1>1. AmountsInv => AmountsFit
  BY DEF AmountsInv, HeldWasUsed, AmountsFit, RunFits
<1>2. QED
  BY <1>1, InitAmounts, AmountsStep, PTL DEF Spec

-----------------------------------------------------------------------------
(* The cost of a restart or a late failure.  With one run at a time (the     *)
(* cron waits for the run before), what is held always covers what the run   *)
(* has still to claim, so taking a chunk off the held amount takes off just  *)
(* what was claimed, and never more than is held.                            *)

Claiming == Tasks \cup {"clear", "settle"}

OneRun == \A j, k \in Runs : run[j].pc # "idle" /\ run[k].pc # "idle" => j = k

Covered(k) ==
  /\ run[k].pc # "idle" =>
         run[k].todo <= held /\ (run[k].split \/ run[k].todo <= MaxAmount)
  /\ run[k].pc \in Claiming => run[k].split \/ run[k].amount = run[k].todo

RestartInv == AmountsInv /\ OneRun /\ (\A k \in Runs : Covered(k)) /\ BilledOnce

LEMMA NothingInFlight ==
  ASSUME NEW r, NEW S, S = {}
  PROVE  Amounts(r, S) = 0
<1> DEFINE D(it) == [s \in SUBSET S |-> IF s = {} THEN 0
             ELSE r[CHOOSE x \in s : TRUE].amount + it[s \ {CHOOSE x \in s : TRUE}]]
           iter == CHOOSE it : it = D(it)
           zero == [s \in SUBSET S |-> 0]
<1>1. zero = D(zero)
  OBVIOUS
<1>2. iter = D(iter)
  BY <1>1
<1>3. iter[S] = 0
  BY <1>2
<1>4. Amounts(r, S) = iter[S]
  BY DEF Amounts, MapThenSumSet, MapThenFoldSet
<1>5. QED
  BY <1>3, <1>4

LEMMA OneInFlight ==
  ASSUME NEW r, NEW k, NEW S, S = {k}, r[k].amount \in Nat
  PROVE  Amounts(r, S) = r[k].amount
<1> DEFINE D(it) == [s \in SUBSET S |-> IF s = {} THEN 0
             ELSE r[CHOOSE x \in s : TRUE].amount + it[s \ {CHOOSE x \in s : TRUE}]]
           iter == CHOOSE it : it = D(it)
           sum == [s \in SUBSET S |-> IF s = {} THEN 0 ELSE r[k].amount + 0]
<1>1. \A s \in SUBSET S : s # {} => s = {k} /\ (CHOOSE x \in s : TRUE) = k /\ s \ {k} = {}
  OBVIOUS
<1>2. \A s \in SUBSET S : sum[s] = IF s = {} THEN 0
             ELSE r[CHOOSE x \in s : TRUE].amount + sum[s \ {CHOOSE x \in s : TRUE}]
  BY <1>1
<1>3. iter = D(iter)
  <2>1. sum = D(sum)
    BY <1>2
  <2>2. QED
    BY <2>1
<1>4. iter[{}] = 0
  BY <1>3
<1>5. iter[S] = r[k].amount + 0
  <2>1. iter[S] = r[CHOOSE x \in S : TRUE].amount + iter[S \ {CHOOSE x \in S : TRUE}]
    BY ZenonT(30), <1>3
  <2>2. (CHOOSE x \in S : TRUE) = k /\ S \ {k} = {}
    BY <1>1
  <2> HIDE DEF iter
  <2>3. QED
    BY <1>4, <2>1, <2>2
<1>6. Amounts(r, S) = iter[S]
  BY DEF Amounts, MapThenSumSet, MapThenFoldSet
<1>7. QED
  BY <1>5, <1>6

(* With all other runs idle, what is in flight is this run's chunk or nothing. *)
LEMMA FlightOf ==
  ASSUME NEW r \in [Runs -> RunState], NEW k \in Runs,
         \A j \in Runs : j # k => r[j].pc = "idle"
  PROVE  Amounts(r, {j \in Runs : r[j].pc \in Landed}) =
             IF r[k].pc \in Landed THEN r[k].amount ELSE 0
<1> DEFINE S == {j \in Runs : r[j].pc \in Landed}
<1>1. CASE r[k].pc \in Landed
  <2>1. S = {k}
    BY <1>1 DEF Landed
  <2>2. r[k].amount \in Nat
    BY Numbers DEF RunState
  <2>3. QED
    BY <1>1, <2>1, <2>2, OneInFlight
<1>2. CASE r[k].pc \notin Landed
  <2>1. S = {}
    BY <1>2 DEF Landed
  <2>2. QED
    BY <1>2, <2>1, NothingInFlight
<1>3. QED
  BY <1>1, <1>2

(* A run that takes a step is the only one that is not idle. *)
LEMMA Alone ==
  ASSUME RestartInv, ~Overlap, NEW k \in Runs, RunStep(k)
  PROVE  \A j \in Runs : j # k => run[j].pc = "idle" /\ run'[j] = run[j]
<1>1. run[k].pc # "idle" \/ \A j \in Runs : run[j].pc = "idle"
  <2>1. CASE StartRun(k)
    BY <2>1 DEF StartRun
  <2>2. CASE FailTask(k)
    BY <2>2, BillingAssumption DEF FailTask, Tasks
  <2>3. QED
    BY <2>1, <2>2 DEF RunStep, CheckCredits, NextClaim, SubmitIntent, SaveToMatrix,
       SubmitToChain, SendToSubsApi, ClearPending, Settle
<1>2. \A j \in Runs : j # k => run[j].pc = "idle"
  BY <1>1 DEF RestartInv, OneRun
<1>3. \A j \in Runs : j # k => run'[j] = run[j]
  BY DEF RunStep, StartRun, CheckCredits, NextClaim, SubmitIntent, SaveToMatrix,
     SubmitToChain, SendToSubsApi, ClearPending, Settle, FailTask, GoK, RestartInv,
     AmountsInv, TypeOK
<1>4. QED
  BY <1>2, <1>3

LEMMA FlightType ==
  ASSUME RestartInv
  PROVE  InFlight \in Nat
<1>1. CASE \E k \in Runs : run[k].pc # "idle"
  <2>1. PICK k \in Runs : run[k].pc # "idle"
    BY <1>1
  <2>2. \A j \in Runs : j # k => run[j].pc = "idle"
    BY <2>1 DEF RestartInv, OneRun
  <2>3. run \in [Runs -> RunState]
    BY DEF RestartInv, AmountsInv, TypeOK
  <2>4. InFlight = IF run[k].pc \in Landed THEN run[k].amount ELSE 0
    BY <2>2, <2>3, FlightOf DEF InFlight, Unsettled, Landed
  <2>5. run[k].amount \in Nat
    BY <2>3, Numbers DEF RunState
  <2>6. QED
    BY <2>4, <2>5
<1>2. CASE \A k \in Runs : run[k].pc = "idle"
  BY <1>2, NothingInFlight DEF InFlight, Unsettled, Landed
<1>3. QED
  BY <1>1, <1>2

LEMMA InitRestart == Init => RestartInv
<1> SUFFICES ASSUME Init PROVE RestartInv
  OBVIOUS
<1>1. OneRun /\ \A k \in Runs : Covered(k)
  BY DEF Init, IdleRun, OneRun, Covered, Claiming, Tasks
<1>2. InFlight = 0
  BY NothingInFlight DEF Init, IdleRun, InFlight, Unsettled, Landed
<1>3. BilledOnce
  BY <1>2, Numbers DEF Init, BilledOnce
<1>4. QED
  BY <1>1, <1>3, InitAmounts DEF RestartInv

LEMMA StoredNumbers ==
  ASSUME RestartInv
  PROVE  /\ held \in Nat /\ used \in Nat /\ claimed \in Nat
         /\ crashes \in Nat /\ slips \in Nat /\ (crashes + slips) * MaxAmount \in Nat
<1>1. held \in Nat /\ used \in Nat /\ claimed \in Nat /\ crashes \in Nat /\ slips \in Nat
  BY Numbers DEF RestartInv, BilledOnce, AmountsInv, TypeOK, StoredOK, MaxClaimed
<1>2. crashes + slips \in Nat /\ \A n \in Nat : n * MaxAmount \in Nat
  BY <1>1, Numbers
<1>3. QED
  BY <1>1, <1>2

(* One restart or late failure more allows for one claim more. *)
LEMMA OneMore ==
  ASSUME AmountsInv
  PROVE  /\ (crashes + 1 + slips) * MaxAmount = (crashes + slips) * MaxAmount + MaxAmount
         /\ (crashes + (slips + 1)) * MaxAmount = (crashes + slips) * MaxAmount + MaxAmount
<1>1. \A n \in Nat : (n + 1) * MaxAmount = n * MaxAmount + MaxAmount
  BY Numbers
<1>2. /\ crashes \in Nat /\ slips \in Nat
      /\ crashes + slips \in Nat
      /\ crashes + 1 + slips = (crashes + slips) + 1
      /\ crashes + (slips + 1) = (crashes + slips) + 1
  BY Numbers DEF AmountsInv, TypeOK, StoredOK
<1>3. ((crashes + slips) + 1) * MaxAmount = (crashes + slips) * MaxAmount + MaxAmount
  BY <1>1, <1>2, Zenon
<1>4. QED
  BY <1>2, <1>3

LEMMA ChargedBoth ==
  ASSUME NEW a \in Nat, NEW h \in Nat, NEW u \in Nat, NEW f \in Nat, NEW l \in Nat,
         NEW g \in Nat, NEW v \in Nat, a + h <= u + f + l, g + u = h + v
  PROVE  a + g <= v + f + l
  OBVIOUS

(* Steps that leave the runs alone; a charge is both used and held. *)
LEMMA QuietRestart ==
  ASSUME RestartInv, [Next]_vars, UNCHANGED <<run, claimed, crashes, slips>>,
         held' - held = used' - used, held <= held'
  PROVE  RestartInv'
<1>1. AmountsInv'
  BY AmountsStep DEF RestartInv
<1>2. /\ held \in Nat /\ held' \in Nat /\ used \in Nat /\ used' \in Nat
      /\ claimed \in Nat /\ InFlight \in Nat
  BY <1>1, StoredNumbers, FlightType, Numbers DEF RestartInv, AmountsInv, TypeOK, StoredOK
<1>3. OneRun' /\ InFlight' = InFlight
  BY DEF RestartInv, OneRun, InFlight, Unsettled
<1>4. \A k \in Runs : Covered(k)'
  BY <1>2, Numbers DEF RestartInv, AmountsInv, TypeOK, RunState, Covered
<1>5. BilledOnce'
  <2> DEFINE lost == (crashes + slips) * MaxAmount
  <2>1. lost \in Nat /\ lost' = lost /\ claimed + held <= used + InFlight + lost
    BY StoredNumbers DEF RestartInv, BilledOnce
  <2> HIDE DEF lost
  <2>2. claimed' = claimed /\ held' + used = held + used'
    BY <1>2
  <2>3. claimed + held' <= used' + InFlight + lost
    BY <1>2, <2>1, <2>2, ChargedBoth
  <2>4. claimed' + held' <= used' + InFlight' + lost'
    BY <1>3, <2>1, <2>2, <2>3
  <2>5. 0 <= held'
    BY <1>2
  <2>6. QED
    BY <2>4, <2>5 DEF BilledOnce, lost
<1>6. QED
  BY <1>1, <1>3, <1>4, <1>5 DEF RestartInv

(* A restart forgets the chunk in flight, which is no larger than a claim. *)
LEMMA CrashRestart ==
  ASSUME RestartInv, Crash
  PROVE  RestartInv'
<1>1. AmountsInv' /\ AmountsInv
  BY OtherAmounts DEF RestartInv
<1>2. OneRun' /\ \A k \in Runs : Covered(k)'
  BY DEF Crash, IdleRun, OneRun, Covered, Claiming, Tasks
<1>3. InFlight' = 0
  BY NothingInFlight DEF Crash, IdleRun, InFlight, Unsettled, Landed
<1>4. InFlight \in Nat /\ InFlight <= MaxAmount
  <2>1. CASE \E k \in Runs : run[k].pc # "idle"
    <3>1. PICK k \in Runs : run[k].pc # "idle"
      BY <2>1
    <3>2. \A j \in Runs : j # k => run[j].pc = "idle"
      BY <3>1 DEF RestartInv, OneRun
    <3>3. run \in [Runs -> RunState]
      BY <1>1 DEF AmountsInv, TypeOK
    <3>4. InFlight = IF run[k].pc \in Landed THEN run[k].amount ELSE 0
      BY <3>2, <3>3, FlightOf DEF InFlight, Unsettled, Landed
    <3>5. run[k].amount \in 0..MaxAmount
      BY <3>3 DEF RunState
    <3>6. QED
      BY <3>4, <3>5, Numbers
  <2>2. CASE \A k \in Runs : run[k].pc = "idle"
    BY <2>2, NothingInFlight, Numbers DEF InFlight, Unsettled, Landed
  <2>3. QED
    BY <2>1, <2>2
<1>5. (crashes' + slips') * MaxAmount = (crashes + slips) * MaxAmount + MaxAmount
  BY <1>1, OneMore DEF Crash
<1>6. BilledOnce'
  <2> DEFINE lost == (crashes + slips) * MaxAmount
  <2>1. /\ lost \in Nat /\ lost' = lost + MaxAmount
        /\ claimed + held <= used + InFlight + lost
    BY <1>5, StoredNumbers DEF RestartInv, BilledOnce
  <2> HIDE DEF lost
  <2>2. /\ claimed' = claimed /\ held' = held /\ used' = used
        /\ claimed \in Nat /\ held \in Nat /\ used \in Nat
    BY StoredNumbers DEF Crash
  <2>3. claimed' + held' <= used' + InFlight' + lost'
    BY <1>3, <1>4, <2>1, <2>2, Numbers
  <2>4. QED
    BY <2>2, <2>3 DEF BilledOnce, lost
<1>7. QED
  BY <1>1, <1>2, <1>6 DEF RestartInv

LEMMA RunRestart ==
  ASSUME RestartInv, ~Overlap, NEW k \in Runs, RunStep(k)
  PROVE  RestartInv'
<1>1. AmountsInv /\ AmountsInv'
  BY RunAmounts DEF RestartInv
<1>2. /\ \A j \in Runs : j # k => run[j].pc = "idle" /\ run'[j] = run[j]
      /\ run \in [Runs -> RunState] /\ run' \in [Runs -> RunState]
  BY <1>1, Alone DEF AmountsInv, TypeOK
<1>3. OneRun'
  BY <1>2 DEF OneRun
<1>4. /\ InFlight = IF run[k].pc \in Landed THEN run[k].amount ELSE 0
      /\ InFlight' = IF run'[k].pc \in Landed THEN run'[k].amount ELSE 0
  <2>1. InFlight = IF run[k].pc \in Landed THEN run[k].amount ELSE 0
    BY <1>2, FlightOf DEF InFlight, Unsettled, Landed
  <2>2. \A j \in Runs : j # k => run'[j].pc = "idle"
    BY <1>2
  <2>3. InFlight' = Amounts(run', {j \in Runs : run'[j].pc \in Landed})
    BY DEF InFlight, Unsettled, Landed
  <2>4. QED
    BY <1>2, <2>1, <2>2, <2>3, FlightOf
<1>5. /\ run[k] \in RunState /\ run'[k] \in RunState
      /\ RunFits(k) /\ Covered(k) /\ \A j \in Runs : j # k => Covered(j)'
  BY <1>1, <1>2 DEF AmountsInv, RestartInv, Covered, Claiming, Tasks
<1> DEFINE lost == (crashes + slips) * MaxAmount
<1>6. /\ lost \in Nat /\ used' = used /\ claimed + held <= used + InFlight + lost
      /\ held \in Nat /\ used \in Nat /\ claimed \in Nat
      /\ run[k].amount \in Nat /\ run[k].todo \in Nat
  <2>1. UNCHANGED used
    BY DEF RunStep, StartRun, CheckCredits, NextClaim, SubmitIntent, SaveToMatrix,
       SubmitToChain, SendToSubsApi, ClearPending, Settle, FailTask
  <2>2. QED
    BY <1>1, <1>5, <2>1, StoredNumbers, Numbers DEF RestartInv, BilledOnce, RunState
<1>20. StartRun(k) \/ CheckCredits(k) \/ NextClaim(k) \/ SubmitIntent(k) \/ SaveToMatrix(k)
          \/ SubmitToChain(k) \/ SendToSubsApi(k) \/ ClearPending(k) \/ Settle(k) => lost' = lost
  BY DEF StartRun, CheckCredits, NextClaim, SubmitIntent, SaveToMatrix,
     SubmitToChain, SendToSubsApi, ClearPending, Settle
<1>21. FailTask(k) => lost' = IF run[k].pc \in Landed THEN lost + MaxAmount ELSE lost
  BY <1>1, OneMore DEF FailTask
<1> HIDE DEF lost
<1> SUFFICES /\ Covered(k)' /\ 0 <= held'
             /\ claimed' + held' <= used' + InFlight' + lost'
  BY <1>1, <1>3, <1>5 DEF RestartInv, BilledOnce, lost
<1>7. CASE StartRun(k)
  <2>1. /\ run'[k] = [pc |-> "check", todo |-> held, amount |-> 0, split |-> held > MaxAmount]
        /\ UNCHANGED <<claimed, held>> /\ run[k].pc = "idle"
    BY <1>2, <1>7 DEF StartRun
  <2>2. Covered(k)'
    <3>1. run'[k].pc = "check" /\ run'[k].todo = held
      BY <2>1
    <3>2. run'[k].split = (held > MaxAmount)
      <4>1. \A b : [pc |-> "check", todo |-> held, amount |-> 0, split |-> b].split = b
        OBVIOUS
      <4>2. QED
        BY <2>1, <4>1, Zenon
    <3>3. held <= held /\ (held <= MaxAmount \/ held > MaxAmount)
      BY <1>6, Numbers
    <3>4. "check" \notin Claiming
      BY DEF Claiming, Tasks
    <3>5. QED
      BY <2>1, <3>1, <3>2, <3>3, <3>4, Zenon DEF Covered
  <2>3. QED
    BY <1>7, <1>20, <1>4, <1>6, <2>1, <2>2 DEF Landed
<1>8. CASE CheckCredits(k) \/ SaveToMatrix(k) \/ SendToSubsApi(k) \/ ClearPending(k)
  <2>1. /\ UNCHANGED <<claimed, held>>
        /\ \/ run'[k] = IdleRun /\ run[k].pc = "check"
           \/ run'[k] = [run[k] EXCEPT !.pc = "claim"] /\ run[k].pc = "check"
           \/ run'[k] = [run[k] EXCEPT !.pc = "submit"] /\ run[k].pc = "save"
           \/ run'[k] = [run[k] EXCEPT !.pc = "clear"] /\ run[k].pc = "webhook"
           \/ run'[k] = [run[k] EXCEPT !.pc = "settle"] /\ run[k].pc = "clear"
    BY <1>2, <1>8 DEF CheckCredits, SaveToMatrix, SendToSubsApi, ClearPending, GoK
  <2>2. Covered(k)'
    <3>1. CASE run'[k] = IdleRun
      BY <3>1 DEF Covered, Claiming, Tasks, IdleRun
    <3>2. CASE run'[k].pc # "idle"
      <4>1. /\ run[k].pc # "idle" /\ run'[k].todo = run[k].todo
            /\ run'[k].amount = run[k].amount /\ run'[k].split = run[k].split
            /\ run'[k].pc \in Claiming => run[k].pc \in Claiming
        BY <1>5, <2>1, <3>2 DEF RunState, Claiming, Tasks, IdleRun
      <4>2. held' = held /\ run[k].todo \in Nat
        BY <1>6, <2>1
      <4>3. QED
        BY <1>5, <4>1, <4>2 DEF Covered
    <3>3. run'[k] = IdleRun \/ run'[k].pc # "idle"
      BY <1>5, <2>1 DEF RunState
    <3> HIDE DEF Covered
    <3>4. QED
      BY <3>1, <3>2, <3>3
  <2>3. QED
    BY <1>8, <1>20, <1>4, <1>5, <1>6, <2>1, <2>2 DEF Landed, RunState, IdleRun
<1>9. CASE NextClaim(k)
  <2>1. /\ UNCHANGED <<claimed, held>> /\ run[k].pc = "claim"
        /\ run'[k] = [run[k] EXCEPT !.pc = "intent", !.amount = Chunk(run[k].todo)]
    BY <1>2, <1>9 DEF NextClaim
  <2>2. /\ run'[k].pc = "intent" /\ run'[k].todo = run[k].todo
        /\ run'[k].split = run[k].split /\ run'[k].amount = Chunk(run[k].todo)
    BY <1>5, <2>1 DEF RunState
  <2>3. run[k].todo <= MaxAmount => Chunk(run[k].todo) = run[k].todo
    BY <1>6, Numbers DEF Chunk
  <2>4. Covered(k)'
    BY <1>5, <2>1, <2>2, <2>3 DEF Covered, Claiming, Tasks
  <2>5. QED
    BY <1>9, <1>20, <1>4, <1>6, <2>1, <2>2, <2>4 DEF Landed
<1>10. CASE SubmitIntent(k)
  <2>1. /\ UNCHANGED <<claimed, held>> /\ run[k].pc = "intent"
        /\ run'[k] = [run[k] EXCEPT !.pc = "save"]
    BY <1>2, <1>10 DEF SubmitIntent, GoK
  <2>2. Covered(k)'
    BY <1>5, <2>1 DEF Covered, Claiming, Tasks, RunState
  <2>3. QED
    BY <1>10, <1>20, <1>4, <1>5, <1>6, <2>1, <2>2 DEF Landed, RunState
<1>11. CASE SubmitToChain(k)
  <2>1. /\ claimed' = claimed + run[k].amount /\ held' = held /\ run[k].pc = "submit"
        /\ run'[k] = [run[k] EXCEPT !.pc = "webhook"]
    BY <1>2, <1>11 DEF SubmitToChain, GoK
  <2>2. Covered(k)'
    BY <1>5, <2>1 DEF Covered, Claiming, Tasks, RunState
  <2>3. InFlight = 0 /\ InFlight' = run[k].amount
    BY <1>4, <1>5, <2>1 DEF Landed, RunState
  <2>4. QED
    BY <1>11, <1>20, <1>6, <2>1, <2>2, <2>3
<1>12. CASE Settle(k)
  <2> DEFINE rest == run[k].todo - run[k].amount
  <2>1. /\ UNCHANGED claimed /\ run[k].pc = "settle" /\ held' = HeldAfter(k)
        /\ run'[k] = IF rest = 0 THEN IdleRun ELSE [run[k] EXCEPT !.pc = "claim", !.todo = rest]
    BY <1>2, <1>12 DEF Settle
  <2>2. /\ run[k].amount <= run[k].todo /\ run[k].todo <= held
        /\ run[k].split \/ run[k].amount = run[k].todo
    BY <1>5, <2>1 DEF RunFits, Covered, Claiming
  <2>3. IF run[k].split THEN held' = held - run[k].amount
        ELSE held' = 0 /\ rest = 0
    BY <1>6, <2>1, <2>2 DEF HeldAfter
  <2>4. Covered(k)'
    <3>1. CASE rest = 0
      BY <2>1, <3>1 DEF Covered, IdleRun, Claiming, Tasks
    <3>2. CASE rest # 0
      <4>1. /\ run'[k].pc = "claim" /\ run'[k].todo = rest /\ run'[k].split = run[k].split
            /\ run[k].split
        BY <1>5, <2>1, <2>3, <3>2 DEF RunState
      <4>2. rest <= held'
        BY <1>6, <2>2, <2>3, <4>1
      <4>3. QED
        BY <4>1, <4>2 DEF Covered, Claiming, Tasks
    <3>3. QED
      BY <3>1, <3>2
  <2>5. InFlight = run[k].amount /\ InFlight' = 0
    <3>1. run'[k].pc \in {"idle", "claim"}
      BY <1>5, <2>1 DEF RunState, IdleRun
    <3>2. QED
      BY <1>4, <2>1, <3>1 DEF Landed
  <2>6. held' <= held - run[k].amount
    BY <1>6, <2>2, <2>3
  <2>7. QED
    <3>1. held' \in Nat
      BY <1>6, <2>2, <2>3, <1>5
    <3>2. QED
      BY <1>12, <1>20, <1>6, <2>1, <2>4, <2>5, <2>6, <3>1
<1>13. CASE FailTask(k)
  <2>1. UNCHANGED <<claimed, held>> /\ run'[k] = IdleRun
    BY <1>2, <1>13 DEF FailTask
  <2>2. Covered(k)'
    BY <2>1 DEF Covered, IdleRun, Claiming, Tasks
  <2>3. InFlight' = 0
    BY <1>4, <2>1 DEF Landed, IdleRun
  <2>4. lost' = IF run[k].pc \in Landed THEN lost + MaxAmount ELSE lost
    BY <1>13, <1>21
  <2>5. run[k].amount <= MaxAmount
    BY <1>5, Numbers DEF RunState
  <2>6. QED
    BY <1>4, <1>6, <2>1, <2>2, <2>3, <2>4, <2>5, Numbers
<1>14. QED
  BY <1>7, <1>8, <1>9, <1>10, <1>11, <1>12, <1>13 DEF RunStep

LEMMA RestartStep ==
  ASSUME RestartInv, ~Overlap, [Next]_vars
  PROVE  RestartInv'
<1>1. /\ held \in Nat /\ used \in Nat
      /\ \A c \in Costs : c \in Nat
  BY StoredNumbers, Numbers DEF RestartInv
<1>2. CASE UNCHANGED vars
  BY <1>1, <1>2, QuietRestart DEF vars
<1>3. CASE \E r \in Requests : RequestStep(r)
  <2>1. UNCHANGED <<run, claimed, crashes, slips, held, used>>
    BY <1>3 DEF RequestStep, Subscription, StorePayload, ReadHeld, SetBalance
  <2>2. QED
    BY <1>1, <2>1, QuietRestart
<1>4. CASE \E c \in Costs : Limit(c)
  <2>1. PICK c \in Costs : Limit(c)
    BY <1>4
  <2>2. UNCHANGED <<run, claimed, crashes, slips>> /\ held' = held + c /\ used' = used + c
    BY <2>1 DEF Limit
  <2>3. QED
    BY <1>1, <2>2, QuietRestart
<1>5. CASE ExpireCache \/ ExpirePending
  BY <1>1, <1>5, QuietRestart DEF ExpireCache, ExpirePending
<1>6. QED
  BY <1>2, <1>3, <1>4, <1>5, CrashRestart, RunRestart DEF Next

(* While the cron waits for its last run, nothing is billed twice: the claims *)
(* on the chain and what is still held exceed what was used by no more than   *)
(* the chunk in flight and one largest claim for each restart and each call   *)
(* that failed after its claim had landed; and no more is taken off the held  *)
(* amount than is held.                                                       *)
THEOREM ClaimsAreBilledOnce ==
  ASSUME ~Overlap
  PROVE  Spec => []BilledOnce
<1>1. RestartInv /\ [Next]_vars => RestartInv'
  BY RestartStep
<1>2. RestartInv => BilledOnce
  BY DEF RestartInv
<1>3. QED
  BY <1>1, <1>2, InitRestart, PTL DEF Spec
=============================================================================
