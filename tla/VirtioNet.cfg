SPECIFICATION FairSpec
CONSTANTS
    NumQueues = 2
    Offered = {"EVENT_IDX", "VERSION_1"}
    TxSize = 1
    RxSize = 2
    MaxPending = 2
    MaxFrames = 3
INVARIANTS
    FeaturesHonest
    FramesInOrder
    RxNoticed
    NoTxForgotten
PROPERTY
    FramesDelivered
