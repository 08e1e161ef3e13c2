SPECIFICATION FairSpec
CONSTANTS
    None = None
    Calls = {t1, t2}
    Ids = {i1, i2}
    Bodies = {b1}
    Executors = {x1, x2}
    MaxAttempts = 2
    Cancellable = TRUE
    ExclusiveIntents = TRUE
    KeepFirstCompletion = TRUE
CHECK_DEADLOCK FALSE
INVARIANTS OutcomeDurable
PROPERTIES FinalizationEnds
