SPECIFICATION Spec
CONSTANTS
    Services = {"a"}
    Messages = {1, 2, 3, 4}
    Of <- MixedOf
    Kind <- MixedKind
    Uuid <- MixedUuid
    Prefetch = 2
    CacheLimit = 1
    MaxTag = 3
INVARIANTS
    OneHandlerPerUuid
    EveryDeliveryAnswered
PROPERTIES
    ImplementsAtLeastOnce
