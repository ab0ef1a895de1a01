SPECIFICATION Spec
CONSTANTS
    Account = {u1}
    Ref = {r1}
    Exit = {}
    NoExit = NoExit
    NoRow = NoRow
    SeenLimit = 1
    PendingLimit = 1
    OverHttp = {0, 1}
    Backlog = 2
    Movers = {0}
    MaxRevision = 1
INVARIANTS
    TypeOK
    DeliveredIsDurable
    RelayedIsFresh
PROPERTIES
    HandlersReturn
