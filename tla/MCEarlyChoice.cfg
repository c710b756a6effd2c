SPECIFICATION Spec
CONSTANTS
    Calls <- AllCalls
    ToolOf <- Tools
    AutoApproved = {}
    MaxRequests = 3
    MaxBatch = 2
    MaxTexts = 1
    MaxFailures = 1
    MaxReruns = 1
    Streaming = TRUE
    CanLeave = FALSE
    CanSkip = FALSE
    EarlyChoices = TRUE
INVARIANTS
    RulesAsChosen
