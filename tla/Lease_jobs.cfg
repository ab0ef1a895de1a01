SPECIFICATION Spec
CONSTANTS
    Proxy = {p1}
    Owner = {a, b}
    Jobs = 2
    Ttl = {2}
    Cooldown = {0}
    MaxFailures = 1
    FailBound = 1
    NoProxy = NoProxy
    NoLease = NoLease
INVARIANTS
    Exclusive
