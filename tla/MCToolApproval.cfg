SPECIFICATION FairSpec
CONSTANTS
    Calls <- AllCalls
    ToolOf <- Tools
    AutoApproved = {"read_x"}
    MaxRequests = 3
    MaxBatch = 3
    MaxTexts = 2
    MaxFailures = 1
    MaxReruns = 1
    Streaming = TRUE
    CanLeave = TRUE
    CanSkip = FALSE
    EarlyChoices = FALSE
INVARIANTS
    TypeOK
    DecisionsAreTheCallers
    AccountedFor
    OneByOneThenTogether
PROPERTIES
    EveryRequestAnswered
