---------------------------- MODULE OpenIdToken ----------------------------
(***************************************************************************)
(* The token a service proves its Matrix account with                      *)
(* (oracles-chain-client: matrix-bot/openid-token-provider.ts), which      *)
(* createMainAgent asks for in every request.  One provider serves all     *)
(* requests: a chain of promises lets in one caller at a time, and a token *)
(* is kept until some minutes before it expires.                           *)
(***************************************************************************)
EXTENDS Naturals, SequencesExt

CONSTANTS
  Askers,
  Life,      \* expires_in
  Margin,    \* EXPIRY_BUFFER_MS
  Attempts,  \* tries of fetchWithRetry
  Delay,     \* the longest way of an answer
  MaxTime,   \* bound: the clock
  MaxRefusals \* bound: answers that are no token

OpenIdTokenAssumption ==
  /\ Life \in Nat /\ Margin \in Nat /\ Delay \in Nat /\ Attempts \in Nat \ {0}
  /\ Delay < Margin /\ Margin < Life

VARIABLES
  now,
  known,     \* the account's name is known
  turn,      \* the chain of callers; the first holds the mutex
  pc, tries,
  cached,    \* [token, until], or [token |-> 0, until |-> 0]
  minted,    \* tokens the server has made: [at, kept]
  told,      \* the last token a caller was given, and when
  refusals

vars == <<now, known, turn, pc, tries, cached, minted, told, refusals>>

Nothing == [token |-> 0, until |-> 0]

Init ==
  /\ now = 0 /\ known \in BOOLEAN
  /\ turn = <<>> /\ pc = [a \in Askers |-> "idle"] /\ tries = 0
  /\ cached = Nothing /\ minted = <<>>
  /\ told = [a \in Askers |-> [token |-> 0, at |-> 0]]
  /\ refusals = 0

Fresh == cached # Nothing /\ now + Margin < cached.until

To(a, p) == pc' = [pc EXCEPT ![a] = p]

(* withMutex: wait for the promise that was last in the chain.              *)
GetToken(a) ==
  /\ pc[a] = "idle"
  /\ turn' = Append(turn, a)
  /\ To(a, "waiting")
  /\ UNCHANGED <<now, known, tries, cached, minted, told, refusals>>

Enter(a) ==
  /\ pc[a] = "waiting" /\ turn[1] = a
  /\ To(a, "inside")
  /\ UNCHANGED <<now, known, turn, tries, cached, minted, told, refusals>>

(* The finally of withMutex, whatever came of the call.                     *)
Release(a) == /\ turn' = Tail(turn)
              /\ To(a, "idle")

Tell(a, token) == told' = [told EXCEPT ![a] = [token |-> token, at |-> now]]

Reuse(a) ==
  /\ pc[a] = "inside" /\ Fresh
  /\ Tell(a, cached.token)
  /\ Release(a)
  /\ UNCHANGED <<now, known, tries, cached, minted, refusals>>

(* whoami, when no name was configured; fetchWithRetry's first attempt.     *)
Send(a) ==
  /\ pc[a] = "inside" /\ ~Fresh
  /\ To(a, IF known THEN "asking" ELSE "naming")
  /\ tries' = 1
  /\ UNCHANGED <<now, known, turn, cached, minted, told, refusals>>

Whoami(a) ==
  /\ pc[a] = "naming"
  /\ To(a, "asking")
  /\ UNCHANGED <<now, known, turn, tries, cached, minted, told, refusals>>

Mint(a) ==
  /\ pc[a] = "asking"
  /\ minted' = Append(minted, [at |-> now, kept |-> FALSE])
  /\ To(a, "answered")
  /\ UNCHANGED <<now, known, turn, tries, cached, told, refusals>>

Receive(a) ==
  /\ pc[a] = "answered"
  /\ cached' = [token |-> Len(minted), until |-> now + Life]
  /\ minted' = [minted EXCEPT ![Len(minted)].kept = TRUE]
  /\ known' = TRUE
  /\ Tell(a, Len(minted))
  /\ Release(a)
  /\ UNCHANGED <<now, tries, refusals>>

Refusal == /\ refusals < MaxRefusals
           /\ refusals' = refusals + 1
           /\ UNCHANGED <<now, known, cached, minted, told>>

(* An answer that is worth another attempt, and one that is the last.       *)
Retry(a) ==
  /\ pc[a] = "asking" /\ tries < Attempts
  /\ tries' = tries + 1
  /\ UNCHANGED <<turn, pc>>
  /\ Refusal

(* 401, 403, no attempt left, a lost connection: the caller gets an error.  *)
Throw(a) ==
  /\ pc[a] \in {"naming", "asking", "answered"}
  /\ Release(a)
  /\ UNCHANGED tries
  /\ Refusal

Late == \E a \in Askers : pc[a] = "answered" /\ now >= Last(minted).at + Delay

Tick ==
  /\ now < MaxTime /\ ~Late
  /\ now' = now + 1
  /\ UNCHANGED <<known, turn, pc, tries, cached, minted, told, refusals>>

Next ==
  \/ Tick
  \/ \E a \in Askers :
       \/ GetToken(a) \/ Enter(a) \/ Reuse(a) \/ Send(a) \/ Whoami(a)
       \/ Mint(a) \/ Receive(a) \/ Retry(a) \/ Throw(a)

Spec == Init /\ [][Next]_vars

------------------------------------------------------------------------------
(***************************************************************************)
(* However many requests ask at once, a token is asked for only when the   *)
(* one before it was lost or is about to expire (the mutex and the cache   *)
(* of getToken): two kept tokens are made at least Life - Margin apart.    *)
(***************************************************************************)
TokenOnce ==
  \A i, j \in DOMAIN minted :
    i < j /\ minted[i].kept => minted[j].at + Margin >= minted[i].at + Life

(***************************************************************************)
(* A caller is never given a token that its service would refuse: what is  *)
(* left of its life is the buffer, less the way the answer took.           *)
(***************************************************************************)
TokenLives ==
  \A a \in Askers :
    told[a].token # 0 =>
      told[a].at + Margin < minted[told[a].token].at + Life + Delay

(* One caller at a time, in the order they came, and none is left behind.   *)
InTurn ==
  /\ \A a \in Askers : pc[a] \in {"inside", "naming", "asking", "answered"} => turn[1] = a
  /\ \A a \in Askers : pc[a] # "idle" <=> a \in ToSet(turn)
=============================================================================
