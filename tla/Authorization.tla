--------------------------- MODULE Authorization ---------------------------
(***************************************************************************)
(* Delegations from end to end: the device and the oracle, which make and  *)
(* keep them (Delegations), and the service that validates what it is       *)
(* handed (ProofChain).  They run on machines of their own, each by its own  *)
(* clock: a step of one leaves the other as it is.                          *)
(***************************************************************************)
EXTENDS Naturals

CONSTANTS
  Devices, Lives, Services, RenewBefore, Week, Hour, MaxTime, MaxMade,
  Tokens, Documents, Server, RootIssuers, Asked, Ttl, Validations, Serial

VARIABLES
  now, ends, held, known, asked, minted, ready, handed,
  instant, verifier, store, call, said, accepted

ucan == <<now, ends, held, known, asked, minted, ready, handed>>
proofs == <<instant, verifier, store, call, said, accepted>>

Ucan == INSTANCE Delegations
Proofs == INSTANCE ProofChain WITH now <- instant, Calls <- Validations

AuthorizationAssumption == Ucan!DelegationsAssumption /\ Proofs!ProofChainAssumption
ASSUME AuthorizationAssumption

AuthInit == Ucan!Init /\ Proofs!Init

AuthNext ==
  \/ Ucan!Next /\ UNCHANGED proofs
  \/ Proofs!Next /\ UNCHANGED ucan

AuthSpec == AuthInit /\ [][AuthNext]_<<ucan, proofs>>

(***************************************************************************)
(* Delegations (ucan.service, the SDK's cache, packages/ucan): services are *)
(* called with an invocation whose delegation is in force; a chain that is  *)
(* accepted is signed and linked throughout and ends when its first token   *)
(* does; an invocation is accepted once.                                    *)
(***************************************************************************)
InForce ==
  /\ Ucan!TypeOK /\ Ucan!InForce
  /\ Proofs!TypeOK /\ Proofs!ChainIsSound /\ Proofs!EndIsEarliest /\ Proofs!AcceptedOnce
=============================================================================
