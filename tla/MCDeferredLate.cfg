SPECIFICATION Spec
CONSTANTS
    s = s
    t = t
    Host = Host
    Missing = Missing
    None = None
    Tools = {t}
    Requested = {t, Host}
    Policies <- FreePolicies
    Sessions = {TRUE}
    MaxIterations = 2
    MaxFunctionCalls = 2
    MaxDuration = 1
    Concurrent = TRUE
    TerminateOnUnknown = FALSE
    Background = FALSE
    Retries = FALSE
    MaxBatch = 2
    MaxCalls = 2
    Ids = {0, 1}
    CallId <- ReusedIds
    MaxRepeats = 1
    MaxClock = 1
PROPERTIES
    SpentStopsTools
