---------------------------- MODULE MCProjectGates ---------------------------
(* A small instance of ProjectGates for TLC.                               *)
EXTENDS ProjectGates, TLC

CONSTANTS c1, k1

\* The defaults of GATE_POLICY_DEFAULTS, and a policy that automation works
\* under and that asks for no more than approvals.
Default   == [mode |-> "human_api", require_gate_decisions |-> TRUE,
              require_previous_gate_closed |-> TRUE, allow_waivers |-> TRUE,
              auto_sync_evidence |-> TRUE]
Automated == [mode |-> "api_automation", require_gate_decisions |-> TRUE,
              require_previous_gate_closed |-> FALSE, allow_waivers |-> FALSE,
              auto_sync_evidence |-> FALSE]
TwoPolicies == {Default, Automated}

Submission(n, result, key) == [gate |-> n, check |-> c1, status |-> result, key |-> key]

\* The first gate is reported failed under a key, and waived without one;
\* a synchronisation reports it passed.
Reports == {Submission(1, "failed", k1), Submission(1, "waived", NoKey)}

SessionSymmetry == Permutations(Sessions)
=============================================================================
