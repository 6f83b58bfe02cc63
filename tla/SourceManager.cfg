CONSTANTS
    j1 = j1
    j2 = j2
    u1 = u1
    u2 = u2
    u3 = u3
    c1 = c1
    c2 = c2
    None = None
    Jobs = {j1, j2}
    Units = {u1, u2, u3}
    Chunks = {c1, c2}
    UnitsOf <- MCUnitsOf
    ChunksOf <- MCChunksOf
    WithUnits = {j1}
    Limit = 2
    ConcurrentUnits = 1
    OutputCap = 1
    UnitCap = 1
    MayFail = TRUE
    MayCancel = TRUE
SPECIFICATION Spec
INVARIANTS
    TypeOK
    NoSendOnClosedOutput
    SemaphoreBalanced
    WaitErrorIffFatal
    NoChunkLost
PROPERTIES
    HooksAreBracketed
    ImplementsStream
