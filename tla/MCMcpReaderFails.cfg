SPECIFICATION FairSpec
CONSTANTS
    Callers = {c1, c2}
    c1 = c1
    c2 = c2
    Modes = {"auto"}
    Pages = 2
    MaxBegins = 2
    MaxChanges = 1
    Refuses = {"discover"}
    TimesOut = TRUE
    CanCancel = TRUE
    CanTear = FALSE
    CanMisread = TRUE
PROPERTIES
    CallsReturn
CHECK_DEADLOCK FALSE
