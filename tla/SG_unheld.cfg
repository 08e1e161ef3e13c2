SPECIFICATION Spec
CONSTANTS
    Groups = {g1, g2}
    Tools = {0, 1}
    MaxBuffers = 2
    ArgLimit = 2
    BatchLimit = 3
    MaxCalls = 3
    MaxFragments = 3
    MaxFinishes = 2
SYMMETRY Symmetry
INVARIANT EveryCallInspected
CHECK_DEADLOCK FALSE
