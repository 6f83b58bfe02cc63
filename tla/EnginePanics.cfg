CONSTANTS
    A = A
    B = B
    c1 = c1
    c2 = c2
    p1 = p1
    p2 = p2
    p3 = p3
    s = s
    None = None
    Scanners = {scan1, scan2}
    Overlappers = {over1}
    DetectWorkers = {det1}
    Notifiers = {note1, note2}
    Chunks = {c1, c2}
    Pieces = {p1, p2, p3}
    Dets = {A, B}
    Results <- MCResults
    Keys <- MCKeys
    PiecesOf <- MCPiecesOf
    Matching <- MCMatching
    AllowOverlap = FALSE
    OverlapOutcomes <- MCPanickingOutcomes
    Detected <- MCDetected
    KeyOf <- MCKeyOf
    Filtered <- MCFiltered
    Reverified = {}
    ScanPanics = {c2}
    DetectPanics <- MCDetectPanics
    DispatchPanics <- MCDispatchPanics
    DispatchMayFail = TRUE
    SourceMayStop = TRUE
    ChunksCap = 1
    OverlapCap = 1
    DetectCap = 1
    ResultsCap = 1
    DedupeSize = 4
SPECIFICATION Spec
SYMMETRY WorkerSymmetry
INVARIANTS
    NoSendOnClosed
    WaitGroupsCover
    DispatchedOncePerKey
CHECK_DEADLOCK FALSE
