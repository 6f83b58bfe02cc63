CONSTANTS
    A = A
    B = B
    C = C
    s1 = s1
    s2 = s2
    t = t
    u = u
    Dets <- MCDets
    TypeOf <- MCTypeOf
    Secrets <- MCSecrets
    Similar <- MCSimilar
    Dropped = {u}
    Inputs <- MCInputs
SPECIFICATION Spec
INVARIANTS
    UnrivalledIsVerified
    SharedIsReported
    OverlapIsGenuine
CHECK_DEADLOCK FALSE
