------------------------------ MODULE MCTables ------------------------------
(***************************************************************************)
(* The two handle tables, on small instances.                              *)
(***************************************************************************)
EXTENDS CanalTables, TLC

\* Threads and objects differ in name only.
Symmetry == Permutations(Threads) \cup Permutations(Objects)
=============================================================================
