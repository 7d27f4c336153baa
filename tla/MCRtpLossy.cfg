SPECIFICATION LossySpec
CONSTANTS
    SeqSize = 4
    TsSize = 6
    StartAge = 1
    StaleAge = 3
    TsStep = 1
    MaxPayload = 2
    Frames <- MCFrames
    MaxFrames = 3
    MaxHeard = 4
    Packets <- MCPackets
    MaxFed = 2
    MaxFragments = 3
INVARIANTS
    OnlyWholeNals
    FedFramed
CHECK_DEADLOCK FALSE
