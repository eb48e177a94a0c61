SPECIFICATION Spec
CONSTANTS
    N = 1
    c1 = c1
    k1 = k1
    Checks = {c1}
    Responsibilities = {r1, r2}
    Verdicts = {"approved", "rejected"}
    Policies <- TwoPolicies
    Keys = {k1}
    NoKey = NoKey
    Submissions <- Reports
    Sessions = {s1, s2}
SYMMETRY SessionSymmetry
INVARIANTS TypeOK ClosedOnEvidence ClosedOnApproval
CHECK_DEADLOCK FALSE
