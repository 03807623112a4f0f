SPECIFICATION Spec
CONSTANTS
    Conns = {c1}
    Operations = {"unlock"}
    Outcomes = {"hold"}
    Exits = {"signal"}
    MaxOrphans = 1
INVARIANTS
    NoOrphans
