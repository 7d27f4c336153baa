SPECIFICATION FairSpec
CONSTANTS
    MaxLosses = 0
    MaxOutages = 1
PROPERTIES
    RecoversFromOutage
CHECK_DEADLOCK FALSE
