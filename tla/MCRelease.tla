----------------------------- MODULE MCRelease -----------------------------
(* Small instances of Release for TLC.                                     *)
EXTENDS Release, TLC

Symmetry == Permutations(Sessions) \cup Permutations(Deployments)
=============================================================================
