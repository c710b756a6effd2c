SPECIFICATION Spec
CONSTANTS
    c1 = c1
    c2 = c2
    none = none
    CallIds = {c1, c2, none}
    Bodies <- SmallBodies
    Tokens <- Costs
    Pipelines <- SmallPipelines
    Retentions <- SmallRetentions
    Unlimited <- NoCap
    Openings <- SmallOpenings
    NewInputs <- SmallInputs
    Replies <- SmallReplies
    MaxReplay = 3
    ReuseOpenIds = FALSE
    MaxRuns = 3
INVARIANTS
    NoHalfExchange
    NeverSystemOnly
    InOrder
    ResultsKeepTheirCalls
    TurnsKept
CHECK_DEADLOCK FALSE
