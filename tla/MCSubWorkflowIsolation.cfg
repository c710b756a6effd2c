SPECIFICATION Spec
CONSTANTS
    MaxRuns = 2
    MaxRequests = 3
    MaxInputs = 2
    ChildMayFail = FALSE
    Restorable = FALSE
    None = None
INVARIANTS
    RunsIsolated
CHECK_DEADLOCK FALSE
