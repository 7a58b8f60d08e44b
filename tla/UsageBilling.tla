---------------------------- MODULE UsageBilling ----------------------------
(***************************************************************************)
(* How one user's model usage is limited and billed.                       *)
(*                                                                         *)
(* Every chat request reloads the user's credits into a Redis balance, less *)
(* what is held (SubscriptionMiddleware, overrideUserBalance).  After every *)
(* model call a Lua script moves its cost from the balance to the held      *)
(* amount (TokenLimiter.limit).  Once a minute a cron turns the held amount *)
(* into claims on the chain: escrow, signed claim, submission, webhook, and *)
(* then takes the claimed credits off the held amount.                      *)
(*                                                                          *)
(* Requests, model calls and cron runs interleave at every await.  Amounts  *)
(* are credits; a cron run handles users one after the other, so one user   *)
(* is enough.                                                               *)
(***************************************************************************)
EXTENDS Integers, FiniteSets, FiniteSetsExt

CONSTANTS
    Requests,       \* chat requests passing through the subscription middleware
    Runs,           \* runs of the processHeldAmount cron
    Costs,          \* costs of model calls
    Credits,        \* what the user's subscription holds at first
    Threshold,      \* MINIMUM_CLAIM_THRESHOLD
    MaxAmount,      \* largest amount of one claim (oracle pricing list)
    MaxUsed,        \* bound: credits used
    Overlap,        \* TRUE: the cron fires although a run is unfinished
    MaxCrashes,     \* bound: process restarts
    MaxSlips        \* bound: runs that fail after their claim has landed

Tasks == {"intent", "save", "submit", "webhook"}

ASSUME BillingAssumption ==
    /\ Costs \subseteq Nat \ {0} /\ Overlap \in BOOLEAN
    /\ {Credits, MaxUsed, MaxCrashes, MaxSlips} \subseteq Nat
    /\ {Threshold, MaxAmount} \subseteq Nat \ {0}

None == Credits + 1         \* absence of a cached number
MaxClaimed == Credits       \* bound: no claim beyond it is explored

VARIABLES
    chain,      \* credits the subscription service reports
    cache,      \* subscription_{did} in the cache manager (3 minutes), or None
    payload,    \* token_limit:{did}:subscription_payload, or None
    balance,    \* token_limit:{did}:balance
    held,       \* score of did in held_amounts
    pending,    \* a pending claim is stored
    escrow,     \* amount of the active intent on the chain, 0 = none
    request, run,
    crashes,
    slips,      \* history: runs that failed after their claim had landed
    used,       \* history: credits charged by the limiter
    claimed     \* history: credits of the claims submitted to the chain

vars == <<chain, cache, payload, balance, held, pending, escrow, request, run,
          crashes, slips, used, claimed>>

Amount == 0..Credits
IdleRequest == [pc |-> "idle", total |-> 0, held |-> 0, cached |-> FALSE]
IdleRun == [pc |-> "idle", todo |-> 0, amount |-> 0, split |-> FALSE]

RequestState == [pc : {"idle", "store", "read", "set"},
                 total : Amount, held : Int, cached : BOOLEAN]
RunState == [pc : {"idle", "check", "claim", "clear", "settle"} \cup Tasks,
             todo : 0..MaxUsed, amount : 0..MaxAmount, split : BOOLEAN]

StoredOK ==
    /\ chain \in Amount /\ cache \in 0..None /\ payload \in 0..None
    /\ balance \in Nat /\ held \in Int
    /\ escrow \in 0..MaxAmount
    /\ crashes \in 0..MaxCrashes /\ slips \in 0..MaxSlips
    /\ used \in 0..MaxUsed /\ claimed \in 0..MaxClaimed

(* Every variable keeps its type; what is in escrow or claimed never exceeds *)
(* the credits the user had.                                                *)
TypeOK ==
    /\ StoredOK /\ pending \in BOOLEAN
    /\ request \in [Requests -> RequestState]
    /\ run \in [Runs -> RunState]

Init ==
    /\ chain = Credits /\ cache = None /\ payload = None
    /\ balance = 0 /\ held = 0 /\ pending = FALSE /\ escrow = 0
    /\ request = [r \in Requests |-> IdleRequest]
    /\ run = [k \in Runs |-> IdleRun]
    /\ crashes = 0 /\ slips = 0 /\ used = 0 /\ claimed = 0

-----------------------------------------------------------------------------
(* SubscriptionMiddleware.use and overrideUserBalance *)

GoR(r, pc) == request' = [request EXCEPT ![r].pc = pc]

(* checkCanContinue: a user with (about) no credits is turned away. *)
Subscription(r) ==
    LET total == IF cache = None THEN chain ELSE cache IN
    /\ request[r].pc = "idle"
    /\ total > 0
    /\ request' = [request EXCEPT ![r] = [pc |-> "store", total |-> total, held |-> 0,
                                          cached |-> cache # None]]
    /\ UNCHANGED <<chain, cache, payload, balance, held, pending, escrow, run,
                   crashes, slips, used, claimed>>

StorePayload(r) ==
    /\ request[r].pc = "store"
    /\ payload' = request[r].total
    /\ GoR(r, "read")
    /\ UNCHANGED <<chain, cache, balance, held, pending, escrow, run, crashes, slips,
                   used, claimed>>

ReadHeld(r) ==
    /\ request[r].pc = "read"
    /\ request' = [request EXCEPT ![r].pc = "set", ![r].held = held]
    /\ UNCHANGED <<chain, cache, payload, balance, held, pending, escrow, run,
                   crashes, slips, used, claimed>>

NewBalance(total, h) == IF h > total THEN 0 ELSE total - h

(* When the held amount exceeds the total the request fails, uncached. *)
SetBalance(r) ==
    LET total == request[r].total IN
    /\ request[r].pc = "set"
    /\ balance' = NewBalance(total, request[r].held)
    /\ cache' = IF request[r].cached \/ request[r].held > total THEN cache ELSE total
    /\ request' = [request EXCEPT ![r] = IdleRequest]
    /\ UNCHANGED <<chain, payload, held, pending, escrow, run, crashes, slips, used,
                   claimed>>

-----------------------------------------------------------------------------
(* TokenLimiterMiddleware.afterModel charges the call in one script, or not  *)
(* at all; beforeModel adds a message on an empty balance and goes on.        *)

Affordable(c) == c <= balance

Limit(c) ==
    /\ used + c <= MaxUsed
    /\ Affordable(c)
    /\ balance' = balance - c
    /\ held' = held + c
    /\ used' = used + c
    /\ UNCHANGED <<chain, cache, payload, pending, escrow, request, run, crashes, slips,
                   claimed>>

-----------------------------------------------------------------------------
(* ClaimProcessingService.processHeldAmount and processAmount *)

GoK(k, pc) == run' = [run EXCEPT ![k].pc = pc]

(* Mutant: the threshold is exclusive. *)
Due_strict == held > Threshold
Due == held >= Threshold

StartRun(k) ==
    /\ run[k].pc = "idle"
    /\ Due
    /\ Overlap \/ \A j \in Runs : run[j].pc = "idle"
    /\ run' = [run EXCEPT ![k] = [pc |-> "check", todo |-> held, amount |-> 0,
                                  split |-> held > MaxAmount]]
    /\ UNCHANGED <<chain, cache, payload, balance, held, pending, escrow, request,
                   crashes, slips, used, claimed>>

(* The stored subscription decides whether the user can pay. *)
CheckCredits(k) ==
    /\ run[k].pc = "check"
    /\ IF payload # None /\ payload >= run[k].todo
       THEN GoK(k, "claim")
       ELSE run' = [run EXCEPT ![k] = IdleRun]
    /\ UNCHANGED <<chain, cache, payload, balance, held, pending, escrow, request,
                   crashes, slips, used, claimed>>

(* Mutant: chunks as large as the rest. *)
Chunk_whole(todo) == todo
Chunk(todo) == IF todo < MaxAmount THEN todo ELSE MaxAmount

(* getOrCreatePendingClaim for the next chunk of calculateSplits. *)
NextClaim(k) ==
    /\ run[k].pc = "claim"
    /\ pending' = TRUE
    /\ run' = [run EXCEPT ![k].pc = "intent", ![k].amount = Chunk(run[k].todo)]
    /\ UNCHANGED <<chain, cache, payload, balance, held, escrow, request, crashes, slips,
                   used, claimed>>

(* submitIntentTask: an active intent is taken as one's own. *)
SubmitIntent(k) ==
    /\ run[k].pc = "intent"
    /\ \/ /\ escrow # 0
          /\ UNCHANGED <<chain, escrow>>
       \/ /\ escrow = 0
          /\ run[k].amount <= chain
          /\ escrow' = run[k].amount
          /\ chain' = chain - run[k].amount
    /\ GoK(k, "save")
    /\ UNCHANGED <<cache, payload, balance, held, pending, request, crashes, slips, used,
                   claimed>>

(* saveToMatrixTask signs a new credential, which gives the claim its id. *)
SaveToMatrix(k) ==
    /\ run[k].pc = "save"
    /\ GoK(k, "submit")
    /\ UNCHANGED <<chain, cache, payload, balance, held, pending, escrow, request,
                   crashes, slips, used, claimed>>

(* submitToChainTask: the claim is paid from the intent. *)
SubmitToChain(k) ==
    /\ run[k].pc = "submit"
    /\ escrow # 0
    /\ claimed + run[k].amount <= MaxClaimed
    /\ escrow' = 0
    /\ claimed' = claimed + run[k].amount
    /\ GoK(k, "webhook")
    /\ UNCHANGED <<chain, cache, payload, balance, held, pending, request, crashes, slips,
                   used>>

SendToSubsApi(k) ==
    /\ run[k].pc = "webhook"
    /\ GoK(k, "clear")
    /\ UNCHANGED <<chain, cache, payload, balance, held, pending, escrow, request,
                   crashes, slips, used, claimed>>

ClearPending(k) ==
    /\ run[k].pc = "clear"
    /\ pending' = FALSE
    /\ GoK(k, "settle")
    /\ UNCHANGED <<chain, cache, payload, balance, held, escrow, request, crashes, slips,
                   used, claimed>>

(* A split takes its chunk off the held amount; a single claim deletes it.    *)
(* Mutant: the chunk is not taken off.                                        *)
HeldAfter_kept(k) == IF run[k].split THEN held ELSE 0
HeldAfter(k) == IF run[k].split THEN held - run[k].amount ELSE 0

Settle(k) ==
    LET rest == run[k].todo - run[k].amount IN
    /\ run[k].pc = "settle"
    /\ held' = HeldAfter(k)
    /\ run' = [run EXCEPT ![k] =
           IF rest = 0 THEN IdleRun ELSE [run[k] EXCEPT !.pc = "claim", !.todo = rest]]
    /\ UNCHANGED <<chain, cache, payload, balance, pending, escrow, request,
                   crashes, slips, used, claimed>>

Landed == {"webhook", "clear", "settle"}

(* Any call of a run may fail (a task after three tries), or the chain        *)
(* refuses the transaction: the run is over for this user; the next one       *)
(* invokes the workflow with a new input, which starts it from the first      *)
(* task.  A call that throws after it took effect is its step and then this.  *)
FailTask(k) ==
    /\ run[k].pc # "idle"
    /\ slips' = IF run[k].pc \in Landed THEN slips + 1 ELSE slips
    /\ slips' <= MaxSlips
    /\ run' = [run EXCEPT ![k] = IdleRun]
    /\ UNCHANGED <<chain, cache, payload, balance, held, pending, escrow, request,
                   crashes, used, claimed>>

-----------------------------------------------------------------------------
ExpireCache ==
    /\ cache # None
    /\ cache' = None
    /\ UNCHANGED <<chain, payload, balance, held, pending, escrow, request, run,
                   crashes, slips, used, claimed>>

ExpirePending ==
    /\ pending
    /\ pending' = FALSE
    /\ UNCHANGED <<chain, cache, payload, balance, held, escrow, request, run,
                   crashes, slips, used, claimed>>

(* Redis and the chain outlive the process. *)
Crash ==
    /\ crashes < MaxCrashes
    /\ crashes' = crashes + 1
    /\ request' = [r \in Requests |-> IdleRequest]
    /\ run' = [k \in Runs |-> IdleRun]
    /\ UNCHANGED <<chain, cache, payload, balance, held, pending, escrow, slips,
                   used, claimed>>

RequestStep(r) == Subscription(r) \/ StorePayload(r) \/ ReadHeld(r) \/ SetBalance(r)

RunStep(k) ==
    \/ StartRun(k) \/ CheckCredits(k) \/ NextClaim(k) \/ SubmitIntent(k)
    \/ SaveToMatrix(k) \/ SubmitToChain(k) \/ SendToSubsApi(k) \/ ClearPending(k)
    \/ Settle(k) \/ FailTask(k)

Next ==
    \/ \E r \in Requests : RequestStep(r)
    \/ \E c \in Costs : Limit(c)
    \/ \E k \in Runs : RunStep(k)
    \/ ExpireCache \/ ExpirePending \/ Crash

Spec == Init /\ [][Next]_vars

(* The scheduler fires every minute, the event loop keeps running, and a     *)
(* call that is tried again and again succeeds in the end.                   *)
FairSpec ==
    /\ Spec
    /\ \A k \in Runs :
           /\ WF_vars(RunStep(k))
           /\ SF_vars(CheckCredits(k)) /\ SF_vars(NextClaim(k))
           /\ SF_vars(SubmitIntent(k)) /\ SF_vars(SaveToMatrix(k))
           /\ SF_vars(SubmitToChain(k))

-----------------------------------------------------------------------------
(* Properties *)

RunsIdle == \A k \in Runs : run[k].pc = "idle"

(* Claims on the chain whose credits are still counted as held. *)
Unsettled == {k \in Runs : run[k].pc \in Landed}
Amounts(r, S) == MapThenSumSet(LAMBDA k : r[k].amount, S)
InFlight == Amounts(run, Unsettled)

(* A credit that was used is billed at most once, but for the chunk that is  *)
(* on the chain and not yet off the held amount when the run ends there: each *)
(* restart, and each call that fails after the claim has landed (the submit   *)
(* itself, the webhook, the pending claim, the held amount), costs the user   *)
(* at most one claim.  And no run takes more off the held amount than is held. *)
BilledOnce ==
    /\ 0 <= held
    /\ claimed + held <= used + InFlight + (crashes + slips) * MaxAmount

(* The user's usage is claimed in the end: a held amount over the threshold  *)
(* goes down, whatever tasks fail on the way and in spite of restarts, unless *)
(* the subscription (as stored, or as the chain has it) cannot pay for it.    *)
HeldIsClaimed ==
    (held >= Threshold) ~>
        (held < Threshold \/ payload = None \/ payload < held \/ chain < held)

(* Splitting loses nothing: a run works through exactly what it found held,  *)
(* in claims the oracle's price list allows, and nothing is held that was not *)
(* used, whatever is charged, claimed or given back meanwhile.                *)
AmountsFit ==
  /\ TypeOK
  /\ held <= used
  /\ \A k \in Runs :
       run[k].pc \in Tasks => run[k].amount \in 1..MaxAmount /\ run[k].amount <= run[k].todo

(* What the texts say, and the code does not do. *)

(* payments-and-claims.md, 25: credits accumulate as a held amount, and every *)
(* minute held amounts are submitted as claims: no used credit disappears.    *)
UsageAccounted == RunsIdle => used <= claimed + held
=============================================================================
