SPECIFICATION Spec
CONSTANTS
    NRoles = 2
    NBuckets = 2
    Size <- MCSize
    Skippable <- MCSkippable
    PageSize = 2
    PoolLimit = 2
    Unreadable <- MCUnreadable
    Unlistable <- MCUnlistable
    Unusable <- MCUnusable
    MayCancel = TRUE
    MaxRestarts = 2
    None = None
INVARIANTS
    CompleteScanMissesNothing
    MarkStaysBelowPending
    CheckpointCoversDone
PROPERTIES
    CheckpointAdvances
