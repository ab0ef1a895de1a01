SPECIFICATION FairSpec
CONSTANTS
    Account = {u1, u2}
    Ref = {r1}
    Exit = {}
    NoExit = NoExit
    NoRow = NoRow
    SeenLimit = 1
    PendingLimit = 1
    FileFallback = TRUE
    MaxRevision = 1
    MaxLate = 0
INVARIANTS
    Inv
    QuietMeansAgreed
PROPERTIES
    EventuallyAgreed
    OutboxDrains
\* All outboxes drained and all revisions used up: nothing is left to do.
CHECK_DEADLOCK FALSE
