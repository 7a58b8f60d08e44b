--------------------------- MODULE MCApprovalGate ---------------------------
(* Instances of ApprovalGate for TLC.                                        *)
EXTENDS ApprovalGate, TLC

CONSTANTS t1, t2, r1, r2, u1, u2

OwnRooms == t1 :> r1 @@ t2 :> r2
OneRoom == t1 :> r1 @@ t2 :> r1
FirstRoom == t1 :> r1

ResponderSymmetry == Permutations(Responders)
=============================================================================
