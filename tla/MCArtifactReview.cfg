SPECIFICATION Spec
CONSTANTS
    baseline = baseline
    architecture = architecture
    Artifacts <- Pair
    Baselines <- BaselineOnly
    SourceOf <- PairSource
    NoSource = NoSource
    Verdicts = {"approved", "cancelled"}
    Sessions = {s1, s2}
    MaxVersion = 2
SYMMETRY Symmetry
INVARIANTS TypeOK NoRevisionLost DecisionsOnRecord FreshUnlessRaced
CHECK_DEADLOCK FALSE
