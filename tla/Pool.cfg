SPECIFICATION FairSpec
CONSTANTS
    Periodic = {t1}
    Callback = {t2}
    Picker = {t3}
    Nobody = Nobody
    Proxy = {p1, p2}
    MinCount = 1
    MaxDropPercent = 40
    Pushes = TRUE
    MaxVersion = 2
INVARIANTS
    TypeOK
PROPERTIES
    OnlyPullsAreUndone
    DeltaIsTheChange
    AssignsThePool
    EventuallyCurrent
