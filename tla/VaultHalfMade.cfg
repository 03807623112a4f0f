SPECIFICATION Spec
CONSTANTS
    Inits = {i1}
    Brokers = {b1}
    MaxFiles = 1
INVARIANTS
    InitCanRun
