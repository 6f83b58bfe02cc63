SPECIFICATION Spec
CONSTANTS
    NRoles = 2
    NBuckets = 2
    Size <- MCSize
    Skippable <- MCSkippable
    PageSize = 2
    PoolLimit = 2
    Unreadable <- MCUnreadable
    Unlistable <- MCUnlistable
    Unusable <- MCUnusable
    MayCancel = FALSE
    MaxRestarts = 0
    None = None
INVARIANTS
    FailedIsNotPassed
