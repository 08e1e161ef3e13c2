SPECIFICATION Spec
CONSTANTS
    Turns = {t1}
    Choices = {1, 2}
    Width = 2
    MaxAttempts = 1
    Cancellable = TRUE
CHECK_DEADLOCK FALSE
INVARIANT ObserveNeverBlocks

