SPECIFICATION Spec
CONSTANTS
    presets = presets
    settings = settings
    reports = reports
    SwapOrder <- TwoParts
    Versions = {"v1", "v2"}
    Retention = 5
INVARIANTS
    AllOrNothing
    NothingLost
    OutcomeIsHonest
CHECK_DEADLOCK FALSE
