SPECIFICATION FairSpec
CONSTANTS
    Resolvers = {r1}
    Timeout = 5
    Interval = 2
    Horizon = 9
    Cancellable = TRUE
CHECK_DEADLOCK FALSE
INVARIANTS TypeOK DecisionFaithful PollsPaced TimeoutNotEarly NoDecisionMissed
PROPERTIES ResolveEnds
