SPECIFICATION FairSpec
CONSTANTS
    TsSize = 4
    Early = 0
    MaxWait = 1
    MaxLag = 1
    MaxTime = 4
    Viewers = {v1, v2}
    QueueMax = 2
    MaxFrames = 3
INVARIANTS
    HoldsLatest
    ViewerAwake
    OnSchedule
PROPERTIES
    SteadyKept
    EveryViewerServed
CHECK_DEADLOCK FALSE
