SPECIFICATION Spec
CONSTANTS
    Names = {n1}
    Writers = {w1, w2}
    Runners = {}
    EnvNames = {}
    Operations = {"secret.create", "secret.rotate", "secret.revoke"}
    NoName = NoName
    MaxVersion = 4
    MaxEvents = 4
SYMMETRY WriterSymmetry
INVARIANTS
    RotatePossible
