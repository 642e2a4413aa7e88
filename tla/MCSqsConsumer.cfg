SPECIFICATION Spec
CONSTANTS
    c1 = c1
    c2 = c2
    Consumers = {c1, c2}
    Messages = {1, 2, 3, 4, 5}
    Kind <- GroupKind
    Uuid <- GroupUuid
    Fifo = TRUE
    Batch = 2
    Window = 1
    Visibility = 1
    Attempts = 2
    CacheLimit = 10
    MaxCrashes = 1
INVARIANTS
    NoMessageLost
    StoppedIsDrained
    FifoOrder
SYMMETRY Symmetric
CHECK_DEADLOCK FALSE
