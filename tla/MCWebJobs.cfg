SPECIFICATION FairSpec
CONSTANTS
    Clients = {c1, c2}
    Uploads = {u1}
    Jobs = {j1, j2}
    Readers = {r1}
    Slots = 1
    NoOne = NoOne
    c1 = c1
    c2 = c2
    u1 = u1
    j1 = j1
    j2 = j2
    r1 = r1
INVARIANTS
    FilesMatchJobs
    AdmissionExact
PROPERTIES
    EverythingEnds
CHECK_DEADLOCK FALSE
