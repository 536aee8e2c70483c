CONSTANTS
    Server = {b1, b2}
    Request = {r1, r2}
    Limit = 1
    Overfull = TRUE
    NoServer = NoServer
    NoMetrics = NoMetrics
    MaxAttempts = 2
SPECIFICATION Spec
INVARIANTS
    TypeOK
    IInv
    ServedOnlyChecked
    OnlyEarlyRequestsLoseSlots
    AttemptsCounted
PROPERTIES
    ComesUp
CHECK_DEADLOCK FALSE
