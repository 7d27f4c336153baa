SPECIFICATION FairSpec
CONSTANTS
    Window = 2
    MaxBreaks = 3
    MaxAsks = 2
    MaxSplits = 1
    Silent = FALSE
INVARIANTS
    RepliesPaired
    HandshakeAgreed
PROPERTIES
    KeyframeForwarded
    StreamsAgain
