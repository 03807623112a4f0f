SPECIFICATION Spec
CONSTANTS
    Symbols = {"a", "b"}
    Configurations <- ApartConfigurations
    MaxInput = 8
    MaxChunk = 3
\* The writer is closed once.
CHECK_DEADLOCK FALSE
INVARIANTS
    TypeOK
    SplitIsInvisible
    NothingSlips
    HeldStartsValue
