SPECIFICATION FairSpec
CONSTANTS
    CallSizes = {0, 1, 3}
    Capacity = 2
    BatchSizeThreshold = 2
    MaxInBlock = 2
    MaxTxs = 5
    MaxDisconnects = 1
    MaxRejected = 1
INVARIANTS
    KeptInOrder
    SmallCallsFit
PROPERTIES
    EveryTxSettles
CHECK_DEADLOCK FALSE
