SPECIFICATION Spec
CONSTANTS
    Jobs = {j1}
    Paths = {p1}
    Keys = {k1, k2}
    TextKey <- MCTextKeyOne
    Intents = {"a"}
    IdemKeys = {"i1"}
    MaxSeq = 8
    MaxMembers = 1
    NoJob = NoJob
    j1 = j1
    j2 = j2
    p1 = p1
    p2 = p2
    k1 = k1
    k2 = k2
INVARIANTS
    HistoryIntegrity
    OneRunPerClaim
PROPERTIES
    SuccessIsFinal
