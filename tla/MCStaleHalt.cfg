SPECIFICATION Spec
CONSTANTS
    a = a
    b = b
    c = c
    d = d
    plain = plain
    special = special
    broken = broken
    stray = stray
    key = key
    Ids <- PausedIds
    StartId = a
    Labels = {plain}
    EdgeGroups <- PausedGroups
    MaxIterations = 5
    Stateful = {a, b}
    Effects <- PausedEffects
    Keys = {key}
    Checkpointing = FALSE
    Abandonable = FALSE
    MaxRequests = 2
    NoEntry = NoEntry
    Tombstone = Tombstone
    AllEdges = AllEdges
    SourceStart = SourceStart
    Unregistered = Unregistered
    RoutingError = RoutingError
    Nothing = Nothing
PROPERTIES
    HaltDropsOwnMessagesOnly
