SPECIFICATION Spec
CONSTANTS
    SeqSize = 4
    TsSize = 4
    StartAge = 2
    StaleAge = 3
    TsStep = 1
    MaxPayload = 2
    Frames <- MCFrames
    MaxFrames = 4
    MaxBreaks = 2
    Packets = {}
    MaxFed = 0
    MaxFragments = 0
INVARIANTS
    FrameWhole
    ArriveWhole
    NothingLostInSession
PROPERTIES
    ImplementsNalPipe
CHECK_DEADLOCK FALSE
