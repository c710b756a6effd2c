SPECIFICATION Spec
CONSTANTS
    s = s
    t = t
    Host = Host
    Missing = Missing
    None = None
    Tools = {s, t}
    Requested = {s, t}
    Policies <- GatedPolicies
    Sessions = {TRUE, FALSE}
    MaxIterations = 2
    MaxFunctionCalls = 2
    MaxDuration = 1
    Concurrent = FALSE
    TerminateOnUnknown = TRUE
    Background = FALSE
    Retries = TRUE
    MaxBatch = 2
    MaxCalls = 3
    Ids = {0, 1}
    CallId <- ReusedIds
    MaxRepeats = 1
    MaxClock = 1
INVARIANTS
    TypeOK
    CallsMatchResults
    ExecutedOnce
PROPERTIES
    ApprovedOnly
    SpentStopsTools
