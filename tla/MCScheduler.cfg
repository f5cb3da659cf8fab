SPECIFICATION FairSchedulerSpec
CONSTANTS
    j1 = j1
    j2 = j2
    j3 = j3
    j4 = j4
    Jobs = {j1, j2, j3, j4}
    Order <- FourJobs
    Plans <- SomePlans
    Parallel = 3
    LogicalCpus = 2
INVARIANTS
    LedgerHolds
    WithinPolicy
    ExclusiveKeys
PROPERTIES
    EveryoneServed
CHECK_DEADLOCK FALSE
