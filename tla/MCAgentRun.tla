----------------------------- MODULE MCAgentRun -----------------------------
(* Small instances of AgentRun for TLC.                                    *)
EXTENDS AgentRun, TLC

OneRun  == {1}
TwoRuns == {1, 2}

\* Workers that may crash are not interchangeable with those that may not.
Symmetry == Permutations(Crashable) \cup Permutations(Workers \ Crashable)
            \cup Permutations(Operators)
=============================================================================
