SPECIFICATION Spec
CONSTANTS
    Names = {n1}
    Writers = {w1, w2, w3}
    Runners = {r1}
    EnvNames = {e1}
    Operations = {"secret.create", "secret.rotate", "secret.revoke"}
    NoName = NoName
    MaxVersion = 4
    MaxEvents = 5
SYMMETRY WriterSymmetry
INVARIANTS
    TypeOK
    MetadataOpens
    StateAgrees
    HistoryGapFree
    AuditTellsState
    ResolvesLive
    UnseenIsRevoked
PROPERTIES
    EndedStaysEnded
    ImplementsLifecycle
