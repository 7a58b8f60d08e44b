----------------------------- MODULE ProofChain -----------------------------
(***************************************************************************)
(* packages/ucan: what a service does with a UCAN it is handed.  A token   *)
(* (a delegation, or an invocation) is signed by its issuer, made out to an *)
(* audience, and carries the delegations it rests on.  The issuers' keys    *)
(* are looked up in documents that may be out of reach.                     *)
(*                                                                         *)
(* Tokens[t] = [issuer, audience, key, exp, proofs, with]: key signed it,   *)
(* exp is 0 when it does not end, proofs are tokens before t, and with is    *)
(* the resource, a path whose last element may be the wildcard.             *)
(***************************************************************************)
EXTENDS Integers, FiniteSets, Sequences, SequencesExt

CONSTANTS
  Tokens,        (* the tokens there are, proofs before what rests on them     *)
  Documents,     (* identity -> [method, keys]: keys a sequence of [key, type, form] *)
  Server,        (* serverDid                                                  *)
  RootIssuers,   (* rootIssuers                                                *)
  Asked,         (* resources a service asks for                               *)
  Ttl,           (* defaultTtlMs of the invocation store                       *)
  Calls,         (* validations that may run at once                           *)
  MaxTime,       (* bound on time                                              *)
  Serial         (* no two validations of one token at once                    *)

Ids == DOMAIN Tokens
Wild == "*"

ProofChainAssumption ==
  /\ Tokens \in Seq(Range(Tokens)) /\ \A t \in Ids : Tokens[t].exp \in Nat
  /\ \A t \in Ids : Tokens[t].proofs \in Seq({p \in Ids : p < t})
  /\ \A t \in Ids : {Tokens[t].issuer, Tokens[t].audience} \subseteq DOMAIN Documents
  /\ Server \in DOMAIN Documents /\ RootIssuers \subseteq DOMAIN Documents \cup {Wild}
  /\ Ttl \in Nat \ {0} /\ MaxTime \in Nat \ {0} /\ Serial \in BOOLEAN

VARIABLES
  now,
  verifier,   (* the key of the server once it was resolved, or {}            *)
  store,      (* store[t]: when the entry of t expires, 0 when there is none   *)
  call,       (* call[c]: an invocation being validated                       *)
  said,       (* what the last step answered, about which token               *)
  accepted    (* accepted[t]: when t was accepted last, and whether too early   *)

chainVars == <<now, verifier, store, call, said, accepted>>

-----------------------------------------------------------------------------
(* Resolvers: a document is found when its identity is in "up".              *)

Unknown == [mine |-> FALSE, keys |-> {}]
Answer(ks) == [mine |-> TRUE, keys |-> ks]      \* no keys: an error

(* publicKeyToDidKey: multibase with prefix z, hex and base58 are understood. *)
PublicKeyToDidKey(vm) == IF vm.form \in {"z", "hex", "base58"} THEN {vm.key} ELSE {}

IxoDIDResolver(did, up) ==
  IF Documents[did].method # "ixo" THEN Unknown
  ELSE IF did \notin up THEN Answer({})
  ELSE Answer(UNION {PublicKeyToDidKey(vm) :
                       vm \in {v \in Range(Documents[did].keys) : v.type = "ed25519"}})

WebDIDResolver(did, up) ==
  IF Documents[did].method # "web" THEN Unknown
  ELSE IF did \notin up THEN Answer({})
  ELSE Answer({vm.key : vm \in {v \in Range(Documents[did].keys) :
                                  v.type = "ed25519" /\ v.form = "z"}})

(* createCompositeDIDResolver: the first resolver whose method it is answers. *)
CompositeDIDResolver(did, up) ==
  LET tried == <<IxoDIDResolver(did, up), WebDIDResolver(did, up)>>
      mine == {i \in DOMAIN tried : tried[i].mine}
  IN IF mine = {} THEN {} ELSE tried[CHOOSE i \in mine : \A j \in mine : i <= j].keys

(* A did:key is its own key.                                                 *)
ResolveDIDKey(did, up) ==
  IF Documents[did].method = "key" THEN {Documents[did].keys[1].key}
  ELSE CompositeDIDResolver(did, up)

-----------------------------------------------------------------------------
(* Chains.  The functions below follow the recursion of the code.            *)

BuildProofChain ==
  LET chain[t \in Ids] ==
        Append(IF Tokens[t].proofs = << >> THEN << >> ELSE chain[Tokens[t].proofs[1]],
               Tokens[t].issuer)
  IN chain

Earlier(a, b) == IF a = 0 THEN b ELSE IF b = 0 \/ a <= b THEN a ELSE b
ComputeEffectiveExpiration ==
  LET end[t \in Ids] ==
        IF Tokens[t].proofs = << >> THEN Tokens[t].exp
        ELSE Earlier(Tokens[t].exp, end[Tokens[t].proofs[1]])
  IN end

(* The audience of a proof is the issuer, or has the key the issuer signed with. *)
LinkedTo(t, p, up) ==
  \/ Tokens[p].audience = Tokens[t].issuer
  \/ Tokens[t].key \in ResolveDIDKey(Tokens[p].audience, up)

(* Signature first, then each proof: its link, then its own chain.           *)
VerifyDelegationChain(up) ==
  LET verdict[t \in Ids] ==
        LET ps == Tokens[t].proofs
            bad == {i \in DOMAIN ps : ~LinkedTo(t, ps[i], up) \/ verdict[ps[i]] # "ok"}
            first == CHOOSE i \in bad : \A j \in bad : i <= j
        IN IF Tokens[t].key \notin ResolveDIDKey(Tokens[t].issuer, up) THEN "INVALID_SIGNATURE"
           ELSE IF bad = {} THEN "ok"
           ELSE IF ~LinkedTo(t, ps[first], up) THEN "UNAUTHORIZED"
           ELSE verdict[ps[first]]
  IN verdict

(* A resource is covered by itself or by a wildcard over it.                  *)
Covers(wide, narrow) ==
  \/ wide = narrow
  \/ wide # << >> /\ Last(wide) = Wild /\ IsStrictPrefix(Front(wide), narrow)

CanIssue(with, issuer) ==
  Wild \in RootIssuers \/ issuer \in RootIssuers \/ issuer \in Range(with)

(* claim of @ucanto/validator, from how validate() calls it: a token in force  *)
(* whose issuer may issue, or rests on a proof made out to its issuer that      *)
(* covers what it asks for and is itself such a token.                         *)
Claim(up) ==
  LET ok[t \in Ids] ==
        /\ Tokens[t].exp = 0 \/ now < Tokens[t].exp
        /\ Tokens[t].key \in ResolveDIDKey(Tokens[t].issuer, up)
        /\ \/ CanIssue(Tokens[t].with, Tokens[t].issuer)
           \/ \E p \in Range(Tokens[t].proofs) :
                /\ Tokens[p].audience = Tokens[t].issuer
                /\ Covers(Tokens[p].with, Tokens[t].with) /\ ok[p]
  IN ok

-----------------------------------------------------------------------------
(* validate                                                                  *)

Idle == [pc |-> "idle"]
Silent == [code |-> "nothing"]
Busy(t) == {c \in Calls : call[c] # Idle /\ call[c].token = t}
Goto(c, pc) == call' = [call EXCEPT ![c].pc = pc] /\ said' = Silent
Say(t, code) == said' = [code |-> code, token |-> t]
End(c, code) == call' = [call EXCEPT ![c] = Idle] /\ Say(call[c].token, code)
Remote == {d \in DOMAIN Documents : Documents[d].method # "key"}

(* The store forgets an entry that has expired when it is asked for it.       *)
Has(t) == store[t] # 0 /\ now <= store[t]

Validate(c, t, res) ==
  /\ call[c] = Idle /\ (Serial => Busy(t) = {})
  /\ UNCHANGED <<now, verifier, accepted>>
  /\ IF Tokens[t].audience # Server
       THEN Say(t, "UNAUTHORIZED") /\ UNCHANGED <<store, call>>
     ELSE IF Has(t) THEN Say(t, "REPLAY") /\ UNCHANGED <<store, call>>
     ELSE /\ store' = [store EXCEPT ![t] = 0] /\ said' = Silent
          /\ call' = [call EXCEPT ![c] = [pc |-> "key", token |-> t, resource |-> res]]

(* getServerVerifier: resolved once; a failure is tried again at the next call. *)
GetServerVerifier(c) ==
  /\ call[c].pc = "key" /\ UNCHANGED <<now, store, accepted>>
  /\ \/ verifier # {} /\ Goto(c, "claim") /\ UNCHANGED verifier
     \/ /\ verifier = {}
        /\ \E up \in {{}, {Server}} :
             IF ResolveDIDKey(Server, up) = {}
               THEN End(c, "INVALID_FORMAT") /\ UNCHANGED verifier
               ELSE Goto(c, "claim") /\ \E k \in ResolveDIDKey(Server, up) : verifier' = {k}

(* The claim, the match of the resource, and the mark.                        *)
ClaimAndMark(c) ==
  LET t == call[c].token IN
  /\ call[c].pc = "claim" /\ UNCHANGED <<now, verifier>>
  /\ \E up \in SUBSET Remote :
       IF Claim(up)[t] /\ Covers(Tokens[t].with, call[c].resource)
         THEN /\ store' = [store EXCEPT ![t] = now + Ttl]
              /\ accepted' = [accepted EXCEPT ![t] =
                  [at |-> now, early |-> @.early \/ (@.at # 0 /\ now <= @.at + Ttl)]]
              /\ End(c, "ok")
         ELSE End(c, "UNAUTHORIZED") /\ UNCHANGED <<store, accepted>>

(* validateDelegation: audience, expiration, then the signatures of the chain. *)
(* It reads no state but the clock, so it is looked at between validations.    *)
Ended(t) == LET e == ComputeEffectiveExpiration[t] IN e # 0 /\ e < now
ValidateDelegation(t) ==
  /\ \A c \in Calls : call[c] = Idle
  /\ UNCHANGED <<now, verifier, store, call, accepted>>
  /\ \E up \in SUBSET Remote :
       LET verdict == VerifyDelegationChain(up)[t] IN
       said' = [code |-> IF Tokens[t].audience # Server THEN "UNAUTHORIZED"
                         ELSE IF Ended(t) THEN "EXPIRED"
                         ELSE IF verdict = "ok" THEN "verified" ELSE verdict,
                token |-> t, up |-> up]

Cleanup ==
  /\ store' = [t \in Ids |-> IF now > store[t] THEN 0 ELSE store[t]]
  /\ store' # store /\ said' = Silent /\ UNCHANGED <<now, verifier, call, accepted>>

Tick ==
  /\ now < MaxTime /\ now' = now + 1 /\ said' = Silent
  /\ UNCHANGED <<verifier, store, call, accepted>>

Init ==
  /\ now = 1 /\ verifier = {} /\ said = Silent
  /\ store = [t \in Ids |-> 0] /\ call = [c \in Calls |-> Idle]
  /\ accepted = [t \in Ids |-> [at |-> 0, early |-> FALSE]]

Next ==
  \/ Tick \/ Cleanup
  \/ \E c \in Calls : GetServerVerifier(c) \/ ClaimAndMark(c)
  \/ \E c \in Calls, t \in Ids, r \in Asked : Validate(c, t, r)
  \/ \E t \in Ids : ValidateDelegation(t)

Spec == Init /\ [][Next]_chainVars

-----------------------------------------------------------------------------
(* The tokens t rests on, t included: those in every set of tokens that holds  *)
(* t and, with a token, its proofs.                                          *)
Closed(S) == \A p \in S : Range(Tokens[p].proofs) \subseteq S
Under(t) == {p \in Ids : \A S \in SUBSET Ids : t \in S /\ Closed(S) => p \in S}

Ending(S) == {Tokens[p].exp : p \in S} \ {0}

(* Types of the variables.                                                   *)
TypeOK ==
  /\ now \in 1..MaxTime
  /\ \A t \in Ids : store[t] \in 0..MaxTime + Ttl
  /\ \A c \in Calls : call[c].pc \in {"idle", "key", "claim"}
  /\ said.code \in {"nothing", "ok", "verified", "REPLAY", "EXPIRED", "UNAUTHORIZED",
                    "INVALID_FORMAT", "INVALID_SIGNATURE"}

(* validateDelegation says yes (validator.ts:624) only when every token of the *)
(* chain, on every branch of its proofs, bears a key of its issuer, and each    *)
(* step of it goes to whom its proof was made out to, under either name.        *)
ChainIsSound ==
  said.code = "verified" =>
    \A t \in Under(said.token) :
      /\ Tokens[t].key \in ResolveDIDKey(Tokens[t].issuer, said.up)
      /\ \A p \in Range(Tokens[t].proofs) : LinkedTo(t, p, said.up)

(* The end that is computed, and cached by the caller, is the earliest of the  *)
(* chain (validator.ts:327) when each token carries one proof, as those do      *)
(* which createServiceInvocation and the SDK make; the chain that is returned    *)
(* goes from the root to who calls.                                            *)
OneProof == \A t \in Ids : Len(Tokens[t].proofs) <= 1
EndIsEarliest ==
  OneProof /\ said.code = "verified" =>
    LET t == said.token  e == ComputeEffectiveExpiration[t] IN
    /\ IF Ending(Under(t)) = {} THEN e = 0
       ELSE e \in Ending(Under(t)) /\ \A x \in Ending(Under(t)) : e <= x
    /\ Len(BuildProofChain[t]) = Cardinality(Under(t))
    /\ Last(BuildProofChain[t]) = Tokens[t].issuer

(* An invocation is accepted once in the life of its mark, also when the mark  *)
(* is cleaned up, forgotten on look-up or about to expire; and an invocation    *)
(* that was refused, for whatever reason, is not marked: it may be sent again.  *)
AcceptedOnce ==
  \A t \in Ids :
    /\ ~accepted[t].early
    /\ store[t] # 0 => accepted[t].at # 0 /\ store[t] = accepted[t].at + Ttl
=============================================================================
