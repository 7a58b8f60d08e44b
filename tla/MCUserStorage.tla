---------------------------- MODULE MCUserStorage ----------------------------
(* Instances of UserStorage for TLC: requests are interchangeable.           *)
EXTENDS UserStorage, TLC

RequestSymmetry == Permutations(Requests)
=============================================================================
