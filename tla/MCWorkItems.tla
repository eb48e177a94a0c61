---------------------------- MODULE MCWorkItems -----------------------------
(* A small instance of WorkItems for TLC.                                  *)
EXTENDS WorkItems, TLC

Symmetry == Permutations(Items) \cup Permutations(Analyses) \cup Permutations(Sessions)
=============================================================================
