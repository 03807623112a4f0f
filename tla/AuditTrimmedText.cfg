SPECIFICATION Spec
CONSTANTS
    Instants <- TwoSeconds
    Base = 3
    Clock = {"forward"}
    Limits <- SomeLimits
    DefaultLimit = 2
    LargestLimit = 3
    MaxEvents = 3
INVARIANTS
    ChainVerifies
