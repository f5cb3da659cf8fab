SPECIFICATION Spec
CONSTANTS
    j1 = j1
    j2 = j2
    w1 = w1
    w2 = w2
    Jobs = {j1}
    Windows = {w1, w2}
    Parallel = 1
    MaxRequeues = 3
    LiveRecovery = FALSE
    Overlapping = FALSE
    Surfaces = {"bulk", "cli", "desktop"}
    Commands = {"resume", "retry"}
INVARIANTS OneOwner
PROPERTIES DeliversAsPromised NeverOverwrites RecoveryInterruptsAll
CHECK_DEADLOCK FALSE
