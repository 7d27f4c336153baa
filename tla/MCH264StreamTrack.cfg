SPECIFICATION FairSpec
CONSTANTS
    NalKinds = {"sps", "slice"}
    DecodeQueueMax = 1
    DequeMax = 2
    MaxNal = 3
INVARIANTS
    TypeOK
    NoSilentGap
    SpliceRepaired
    ParamsNotStale
    NoLostWakeup
PROPERTIES
    DeliveredInOrder
    DropLeadsToKeyframeRequest
    FreshFrameDelivered
    StopEndsDecoder
CHECK_DEADLOCK FALSE
