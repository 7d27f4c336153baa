SPECIFICATION Spec
CONSTANTS
    Widths = {2, 3, 8}
    Keyint = 5
    MacroBlock = 2
    Monitors <- MCMonitors
INVARIANTS
    RecoveryPointTrue
    RepairedByPeriod
    RepairedOnRequest
    NothingLeaked
    PictureFits
PROPERTIES
    StopLeadsToExit
CHECK_DEADLOCK FALSE
