SPECIFICATION FairSpec
CONSTANTS
    Tabs = {p1, p2}
    Bench = bench
    Cli = cli
    Users = {u1, u2}
    Leavers = {u1}
    MaxTokens = 2
    MaxCalls = 2
    None = None
INVARIANTS TypeOK EndedStaysOut ShownUnlessCrossed
PROPERTIES LoadingEnds
CHECK_DEADLOCK FALSE
