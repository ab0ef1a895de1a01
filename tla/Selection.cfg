SPECIFICATION Spec
CONSTANTS
    p1 = p1
    p2 = p2
    p3 = p3
    p4 = p4
    x1 = x1
    x2 = x2
    Account = {u1, u2, u3}
    Callers = {u1, u2}
    Pool <- PoolFile
    ExitOf <- Outlet
    Unmapped = {p4}
    BusyExits = {}
    MaxAccounts = 2
    Limit = 2
    Nothing = Nothing
SYMMETRY Interchangeable
INVARIANTS
    TypeOK
    NoSharing
    NothingFreeIsMissed
    CandidatesAreFreest
PROPERTIES
    MovesOnlyFromTheBad
