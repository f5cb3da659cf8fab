SPECIFICATION Spec
CONSTANTS
    presets = presets
    settings = settings
    reports = reports
    SwapOrder <- TwoParts
    Versions = {"v1"}
    Retention = 5
INVARIANTS
    StartupRecovers
CHECK_DEADLOCK FALSE
