SPECIFICATION DedupDrainSpec
CONSTANTS
    Consumers = {"c"}
    Messages = {1, 2, 3}
    Kind <- UuidOrUnusable
    Uuid <- EachItsOwn
    Fifo = FALSE
    Batch = 2
    Window = 2
    Visibility = 1
    Attempts = 2
    CacheLimit = 1
    MaxCrashes = 0
PROPERTIES
    ImplementsAtLeastOnce
    StopTerminates
    StartsSpaced
    EveryMessageLeaves
CHECK_DEADLOCK FALSE
