SPECIFICATION Spec
CONSTANTS
    MaxRepo = 4
    Limits = {1, 2, 3}
    MaxStops = 2
    MaxVanish = 1
INVARIANTS
    TypeOK
    ForgottenAreUnstarted
    FewAreForgotten
CHECK_DEADLOCK FALSE
