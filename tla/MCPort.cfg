SPECIFICATION Spec
CONSTANTS
    a = a
    b = b
    c = c
    d = d
    plain = plain
    special = special
    broken = broken
    stray = stray
    key = key
    Ids <- PortIds
    StartId = a
    Labels = {plain}
    EdgeGroups <- NoGroups
    MaxIterations = 2
    Stateful = {a}
    Effects <- PortEffects
    Keys = {key}
    Checkpointing = FALSE
    Abandonable = FALSE
    MaxRequests = 1
    NoEntry = NoEntry
    Tombstone = Tombstone
    AllEdges = AllEdges
    SourceStart = SourceStart
    Unregistered = Unregistered
    RoutingError = RoutingError
    Nothing = Nothing
INVARIANTS
    RequestsRoutable
