---------------------------- MODULE MCTaskIndex ----------------------------
(* Instances of TaskIndex for TLC: tasks are interchangeable, and so are    *)
(* what entries say.                                                        *)
EXTENDS TaskIndex, TLC

Symmetry == Permutations(Tasks) \cup Permutations(Values)
=============================================================================
