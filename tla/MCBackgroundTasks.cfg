SPECIFICATION Spec
CONSTANTS
    a = a
    b = b
    Runs = {a, b}
    MaxTasks = 2
    MaxExecutions = 3
    MaxRuntimes = 2
    CarefulHost = TRUE
    CanPanic = FALSE
    CanRestart = TRUE
SYMMETRY OverlappingRuns
INVARIANTS
    TypeOK
    TasksCoherent
PROPERTIES
    IdsUnique
