SPECIFICATION FairSpec
CONSTANTS
    Proxy = {p1, p2}
    Owner = {a, b}
    Jobs = 1
    Ttl = {0, 1}
    Cooldown = {1, 2}
    MaxFailures = 1
    FailBound = 1
    NoProxy = NoProxy
    NoLease = NoLease
INVARIANTS
    TypeOK
    HeldIsRecorded
    Exclusive
PROPERTIES
    FailuresNeverForgive
    AcquiresReturn
