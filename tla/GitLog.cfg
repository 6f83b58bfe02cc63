SPECIFICATION Spec
CONSTANTS
    MaxDiffSize = 3
    Histories <- MCHistories
    GroupSizes = {0, 1, 2}
    Depths = {0, 1, 2}
    DiffCap = 1
    PipeCap = 1
    MaxTroubles = 1
    MaxCommits = 3
INVARIANTS
    TypeOK
    DiffsAreTheLog
    FewGitsAtOnce
PROPERTIES
    EndsAndCleansUp
CHECK_DEADLOCK FALSE
