CONSTANTS
    u1 = u1
    u2 = u2
    job = job
    Callers = {u1, u2, job}
    Unitless = {job}
    Closers = {close1, close2}
    BufferSize = 1
    MaxChunks = 2
    ReaderMayStop = TRUE
SPECIFICATION Spec
INVARIANTS
    NoSendOnClosedMetrics
    MetricsAreExact
    NothingDroppedBeforeClose
CHECK_DEADLOCK FALSE
PROPERTIES
    CloseReturns
    CallersGoOn
