SPECIFICATION Spec
CONSTANTS
    a = a
    b = b
    c = c
    d = d
    plain = plain
    special = special
    broken = broken
    stray = stray
    key = key
    Ids <- DiamondIds
    StartId = a
    Labels = {plain}
    EdgeGroups <- SideEdgeGroups
    MaxIterations = 3
    Stateful = {a, b, c, d}
    Effects <- SideEdgeEffects
    Keys = {key}
    Checkpointing = FALSE
    Abandonable = FALSE
    MaxRequests = 0
    NoEntry = NoEntry
    Tombstone = Tombstone
    AllEdges = AllEdges
    SourceStart = SourceStart
    Unregistered = Unregistered
    RoutingError = RoutingError
    Nothing = Nothing
INVARIANTS
    BarrierComplete
