SPECIFICATION FairSpec
CONSTANTS
    Conns = {c1, c2}
    Operations = {"status", "unlock", "unlock.wrong", "lock"}
    Outcomes = {"hold", "nohold", "error"}
    Exits = {"signal", "killed"}
    MaxOrphans = 2
INVARIANTS
    TypeOK
    OneInhibitor
PROPERTIES
    LockTakesEffect
    RequestsEnd
    SignalEnds
