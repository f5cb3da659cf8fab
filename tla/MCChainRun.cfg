SPECIFICATION FairSpec
CONSTANTS
    Hops = 2
    MaxRequeues = 2
    Callers = {"service", "observer"}
INVARIANTS
    DeliversLastHop
    FailedDeliversNothing
    LeftoverExplained
PROPERTIES
    PauseEndsChain
CHECK_DEADLOCK FALSE
