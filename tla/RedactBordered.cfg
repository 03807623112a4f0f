SPECIFICATION Spec
CONSTANTS
    Symbols = {"a", "b"}
    Configurations <- BorderedConfiguration
    MaxInput = 6
    MaxChunk = 3
CHECK_DEADLOCK FALSE
INVARIANTS
    SplitIsInvisible
