SPECIFICATION Spec
CONSTANTS
    s = s
    t = t
    Host = Host
    Missing = Missing
    None = None
    Tools = {t}
    Requested = {t, Host}
    Policies <- FreePolicies
    Sessions = {TRUE}
    MaxIterations = 2
    MaxFunctionCalls = 2
    MaxDuration = 99
    Concurrent = TRUE
    TerminateOnUnknown = FALSE
    Background = FALSE
    Retries = TRUE
    MaxBatch = 2
    MaxCalls = 2
    Ids = {0, 1}
    CallId <- ReusedIds
    MaxRepeats = 1
    MaxClock = 0
INVARIANTS
    NoDanglingCall
