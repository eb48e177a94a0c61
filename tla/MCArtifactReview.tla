-------------------------- MODULE MCArtifactReview --------------------------
(* A small instance of ArtifactReview for TLC.                             *)
EXTENDS ArtifactReview, TLC

CONSTANTS baseline, architecture

\* An artifact and one that is made from it.
Pair         == {baseline, architecture}
PairSource   == (baseline :> NoSource) @@ (architecture :> baseline)
BaselineOnly == {baseline}

Symmetry == Permutations(Sessions)
=============================================================================
