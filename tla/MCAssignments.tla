--------------------------- MODULE MCAssignments ---------------------------
(* A small instance of Assignments, and of the audit trail, for TLC.       *)
EXTENDS Assignments, TLC

Symmetry == Permutations(Rows) \cup Permutations(Users) \cup Permutations(Writers)
=============================================================================
