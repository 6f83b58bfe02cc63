SPECIFICATION Spec
CONSTANTS
    Root <- MCRoot
    Trees <- MCTrees
    MaxSymlinkDepth = 2
    Concurrency = 2
    MaxStops = 2
    MaxDeletions = 1
INVARIANTS
    TypeOK
    OnlyLaunchedAreLost
PROPERTIES
    ScanEnds
CHECK_DEADLOCK FALSE
