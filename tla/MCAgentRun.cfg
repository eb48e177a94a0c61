SPECIFICATION Spec
CONSTANTS
    Runs <- OneRun
    Workers = {w1, w2}
    Crashable = {w1, w2}
    Operators = {o1}
    NoWorker = NoWorker
    MaxAttempts = 3
    MaxEvents = 4
SYMMETRY Symmetry
INVARIANTS TypeOK LeaseDiscipline OneChangeSet
PROPERTIES ImplementsLifecycle PauseHonoured
CHECK_DEADLOCK FALSE
