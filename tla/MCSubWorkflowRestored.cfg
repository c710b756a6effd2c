SPECIFICATION Spec
CONSTANTS
    MaxRuns = 2
    MaxRequests = 3
    MaxInputs = 2
    ChildMayFail = FALSE
    Restorable = TRUE
    None = None
INVARIANTS
    ResponsesReturn
CHECK_DEADLOCK FALSE
