SPECIFICATION Spec
CONSTANTS
    Instants <- TwoSeconds
    Base = 3
    Clock = {"forward", "still", "back"}
    Limits <- SomeLimits
    DefaultLimit = 2
    LargestLimit = 3
    MaxEvents = 4
INVARIANTS
    TypeOK
    ListsNewestFirst
    OrderedChainVerifies
    ListableExactly
PROPERTIES
    DamageIsForGood
