SPECIFICATION Spec
CONSTANTS
    a = a
    b = b
    c = c
    d = d
    plain = plain
    special = special
    broken = broken
    stray = stray
    key = key
    Ids <- RoutedIds
    StartId = a
    Labels = {plain, special, broken, stray}
    EdgeGroups <- RoutedGroups
    MaxIterations = 4
    Stateful = {a, b, c}
    Effects <- RoutedEffects
    Keys = {key}
    Checkpointing = TRUE
    Abandonable = TRUE
    MaxRequests = 2
    NoEntry = NoEntry
    Tombstone = Tombstone
    AllEdges = AllEdges
    SourceStart = SourceStart
    Unregistered = Unregistered
    RoutingError = RoutingError
    Nothing = Nothing
INVARIANT
    AnswersHandled
