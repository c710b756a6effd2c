SPECIFICATION FairSpec
CONSTANTS
    a = a
    b = b
    c = c
    d = d
    plain = plain
    special = special
    broken = broken
    stray = stray
    key = key
    Ids <- DiamondIds
    StartId = a
    Labels = {plain}
    EdgeGroups <- DiamondGroups
    MaxIterations = 5
    Stateful = {a, b, c, d}
    Effects <- DiamondEffects
    Keys = {key}
    Checkpointing = TRUE
    Abandonable = FALSE
    MaxRequests = 3
    NoEntry = NoEntry
    Tombstone = Tombstone
    AllEdges = AllEdges
    SourceStart = SourceStart
    Unregistered = Unregistered
    RoutingError = RoutingError
    Nothing = Nothing
INVARIANTS
    TypeOK
    BarriersFireWhenFull
    ExactlyOnce
    AnswersHandled
    HaltHonoured
PROPERTIES
    CommitsOwnWritesOnly
    DriveEnds
