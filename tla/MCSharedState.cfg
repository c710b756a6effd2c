SPECIFICATION Spec
CONSTANTS
    Keys = {k1, k2}
    Values = {v1, v2}
    NoEntry = NoEntry
    Tombstone = Tombstone
PROPERTIES
    ImplementsTransactionalState
