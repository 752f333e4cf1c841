--------------------------- MODULE MCCan232ObjWin ---------------------------
(* Symmetry for the model checker: threads and messages are interchangeable. *)
EXTENDS Can232ObjWin, TLC

Symmetry == Permutations(Threads) \cup Permutations(Messages)
=============================================================================
