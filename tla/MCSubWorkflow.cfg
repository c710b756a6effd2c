SPECIFICATION Spec
CONSTANTS
    MaxRuns = 3
    MaxRequests = 4
    MaxInputs = 3
    ChildMayFail = TRUE
    Restorable = TRUE
    None = None
INVARIANTS
    TypeOK
    OutputsForwardedOnce
    AnswersReachChildren
CHECK_DEADLOCK FALSE
