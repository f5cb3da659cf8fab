\* A document may have six pages, and the details of five of them are left of what pdfinfo prints; a job is run twice.
CONSTANTS
    Cases <- AllCases
    MaxTries = 2
    MaxPdfPages = 6
    TailPages = 5
SPECIFICATION Spec
CHECK_DEADLOCK FALSE
INVARIANTS
    
    LanesAgree
    PlannedRuns
    VerdictsRight
    LossIsDeclared
    LadderIsExhausted
    PasswordsServeOnce
