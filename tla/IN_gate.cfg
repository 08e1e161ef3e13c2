SPECIFICATION FairSpec
CONSTANTS
    Turns = {t1}
    Choices = {1, 2}
    Width = 2
    MaxAttempts = 3
    Cancellable = TRUE
CHECK_DEADLOCK FALSE
INVARIANTS TypeOK ReleasedOnlyIfAllowed SingleDecision ReportedInFull
PROPERTIES VerdictFinal ImplementsGate TurnEnds
