SPECIFICATION Spec
CONSTANTS
    Inits = {i1, i2}
    Brokers = {b1, b2}
    MaxFiles = 2
    NoSocket = NoSocket
    Stale = Stale
SYMMETRY ProcessSymmetry
INVARIANTS
    TypeOK
    StoreIsVault
    HalfMadeByCrash
    ServesAtPath
    FailsBesideOthers
PROPERTIES
    ReportedIsKept
    OnlyCrowdTakes
