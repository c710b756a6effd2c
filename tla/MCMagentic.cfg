SPECIFICATION FairSpec
CONSTANTS
    MaxRounds = 5
    MaxResets = 3
    MaxStalls = 1
    MaxReviews = 2
    PlanReview = TRUE
    StallIntervention = TRUE
    MaxFailures = 2
INVARIANTS
    TypeOK
    RequestMatchesState
PROPERTIES
    CoordinationEnds
CHECK_DEADLOCK FALSE
