SPECIFICATION FairSpec
CONSTANTS
    Account = {u1}
    Ref = {r1, r2}
    Exit = {}
    NoExit = NoExit
    NoRow = NoRow
    SeenLimit = 1
    PendingLimit = 1
    FileFallback = FALSE
    MaxRevision = 2
    MaxLate = 0
PROPERTIES
    OutboxDrains
\* All outboxes drained and all revisions used up: nothing is left to do.
CHECK_DEADLOCK FALSE
