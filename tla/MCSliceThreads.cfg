SPECIFICATION Spec
CONSTANTS
    Threads = 3
    Keyframes = {1, 3}
    Payloads <- MCPayloads
    MaxFrames = 3
INVARIANTS
    WholeFrame
    ReferenceComplete
    RoundTrip
    NoLostWakeup
    NeverStuck
PROPERTIES
    ImplementsFrameEncoder
CHECK_DEADLOCK FALSE
