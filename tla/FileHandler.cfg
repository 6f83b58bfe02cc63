SPECIFICATION Spec
CONSTANTS
    Files <- MCFiles
    MaxEntries = 3
    MaxChunks = 5
    Threshold = 2
    CopySize = 1
    EOFWithData = FALSE
    Header = 1
    DataCap = 1
    ChunkCap = 1
INVARIANTS
    TypeOK
    
    ReadersAreJoined
PROPERTIES
    ReturnsAndCleansUp
CHECK_DEADLOCK FALSE
