SPECIFICATION Spec
CONSTANTS
    Conns = {c1, c2}
    Operations = {"unlock", "lock"}
    Outcomes = {"hold"}
    Exits = {}
    MaxOrphans = 1
INVARIANTS
    UnlockedIsHeld
