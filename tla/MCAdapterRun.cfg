SPECIFICATION FairSpec
CONSTANTS
    Adapters <- AllAdapters
    Attempts = 2
INVARIANTS
    StagingAccounted
    PublishesOnlyValidated
PROPERTIES
    ToldBeforePublished
    ForeignKept
    RunsEnd
CHECK_DEADLOCK FALSE
