SPECIFICATION Spec
CONSTANTS
    r1 = r1
    r2 = r2
    r3 = r3
    x1 = x1
    x2 = x2
    Account = {u1}
    Ref = {r1, r2, r3}
    Exit = {x1, x2}
    NoExit = NoExit
    NoRow = NoRow
    SeenLimit = 0
    PendingLimit = 1
    HostOf <- Hosts
    ExitOf <- Exits
    Owned <- Pools
    MaxRevision = 3
    MaxLate = 1
PROPERTIES
    NoEcho
