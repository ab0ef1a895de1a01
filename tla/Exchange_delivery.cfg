SPECIFICATION Spec
CONSTANTS
    Account = {u1}
    Ref = {r1, r2}
    Exit = {}
    NoExit = NoExit
    NoRow = NoRow
    SeenLimit = 1
    PendingLimit = 1
    FileFallback = TRUE
    MaxRevision = 3
    MaxLate = 1
SYMMETRY Interchangeable
INVARIANTS
    TypeOK
    NothingForgotten
    VersionNamesOneEvent
    SeenIsCovered
    OutboxIsNewest
PROPERTIES
    PreferencesAdvance
    ImplementsSync
    RowsLeaveOnlyWhenSafe
\* All outboxes drained and all revisions used up: nothing is left to do.
CHECK_DEADLOCK FALSE
