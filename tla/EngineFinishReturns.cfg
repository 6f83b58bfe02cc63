CONSTANTS
    A = A
    B = B
    c1 = c1
    c2 = c2
    p1 = p1
    p2 = p2
    p3 = p3
    s = s
    None = None
    Scanners = {scan1}
    Overlappers = {over1}
    DetectWorkers = {det1, det2}
    Notifiers = {note1}
    Chunks = {c1, c2}
    Pieces = {p1, p2, p3}
    Dets = {A, B}
    Results <- MCResults
    Keys <- MCKeys
    PiecesOf <- MCPiecesOf
    Matching <- MCMatching
    AllowOverlap = FALSE
    OverlapOutcomes <- MCOverlapOutcomes
    Detected <- MCDetected
    KeyOf <- MCKeyOf
    Filtered = {}
    Reverified = {}
    ScanPanics = {}
    DetectPanics <- MCDetectPanics
    DispatchPanics = {}
    DispatchMayFail = FALSE
    SourceMayStop = FALSE
    ChunksCap = 1
    OverlapCap = 1
    DetectCap = 1
    ResultsCap = 1
    DedupeSize = 1
SPECIFICATION Spec
PROPERTIES
    FinishReturns
CHECK_DEADLOCK FALSE
