SPECIFICATION FairSpec
CONSTANTS
    Window = 1
    MaxBreaks = 1
    MaxAsks = 0
    MaxSplits = 0
    Silent = TRUE
PROPERTIES StreamsAgain
CHECK_DEADLOCK FALSE
