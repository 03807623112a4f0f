SPECIFICATION Spec
CONSTANTS
    n1 = n1
    n2 = n2
    c1 = c1
    c2 = c2
    e1 = e1
    e2 = e2
    Names = {n1, n2}
    Writers = {w1}
    Runners = {r1}
    EnvNames = {e1, e2}
    Operations = {"secret.create", "secret.rotate", "secret.revoke"}
    NoName = NoName
    MaxVersion = 2
    MaxEvents = 3
    Actions = {a1}
    Configs = {c1, c2}
    Users = {u1, u2}
    NoAction = NoAction
    NoConfig = NoConfig
    MaxPuts = 3
    Mapping <- TwoMappings
    Redacted = {c1}
    MaxChanges = 3
    MaxBusy = 2
SYMMETRY UserSymmetry
INVARIANTS
    TypeOK
    ChildIsSound
    ZeroExitIsSuccess
    RecordTellsRun
    MetadataIsLatest
    RevisionCountsUpdates
    ActionsOpen
    GetsApproved
PROPERTIES
    ImplementsRegister
