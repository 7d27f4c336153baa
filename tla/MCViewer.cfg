SPECIFICATION FairSpec
CONSTANTS
    MaxLosses = 3
    MaxOutages = 1
INVARIANTS
    OneOpenPeer
PROPERTIES
    StaysConnected
CHECK_DEADLOCK FALSE
