SPECIFICATION Spec
CONSTANTS
    None = None
    Calls = {t1, t2}
    Ids = {i1}
    Bodies = {b1}
    Executors = {x1}
    MaxAttempts = 1
    Cancellable = TRUE
    ExclusiveIntents = TRUE
    KeepFirstCompletion = FALSE
SYMMETRY CallSymmetry
CHECK_DEADLOCK FALSE
INVARIANT CompletionBounded
