SPECIFICATION FairSpec
CONSTANTS
    a = a
    b = b
    Runs = {a, b}
    MaxTasks = 2
    MaxExecutions = 2
    MaxRuntimes = 2
    CarefulHost = TRUE
    CanPanic = FALSE
    CanRestart = TRUE
INVARIANTS
    TypeOK
    TasksCoherent
PROPERTIES
    IdsUnique
    EndedTasksSettle

