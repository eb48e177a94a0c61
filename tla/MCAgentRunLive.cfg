SPECIFICATION FairSpec
CONSTANTS
    Runs <- TwoRuns
    Workers = {w1, w2}
    Crashable = {w1}
    Operators = {}
    NoWorker = NoWorker
    MaxAttempts = 2
    MaxEvents = 5
INVARIANTS OptimisticLock
PROPERTIES Settles
CHECK_DEADLOCK FALSE
