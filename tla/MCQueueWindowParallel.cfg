SPECIFICATION FairSpec
CONSTANTS
    j1 = j1
    j2 = j2
    w1 = w1
    w2 = w2
    Jobs = {j1, j2}
    Windows = {w1}
    Parallel = 2
    MaxRequeues = 1
    LiveRecovery = FALSE
    Overlapping = FALSE
    Surfaces = {"bulk"}
    Commands = {"cancel", "retry"}
INVARIANTS StatesAreTrue
PROPERTIES NothingDropped PauseImmediateEnds
CHECK_DEADLOCK FALSE
