SPECIFICATION Spec
CONSTANTS
    Jobs = {j1, j2}
    Paths = {p1, p2}
    Keys = {k1, k2}
    TextKey <- MCTextKey
    Intents = {"a"}
    IdemKeys = {"i1"}
    MaxSeq = 2
    MaxMembers = 2
    NoJob = NoJob
    j1 = j1
    j2 = j2
    p1 = p1
    p2 = p2
    k1 = k1
    k2 = k2
INVARIANTS
    ReservationIntegrity
PROPERTIES
    BulkOutcomesTruthful
    BindingStable
    ReopenChangesNothing
SYMMETRY JobSymmetry
