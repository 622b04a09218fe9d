SPECIFICATION Spec
CONSTANTS
    Names = {n1, n2}
    Workers = {w1, w2}
    Free = Free
    Dead = Dead
    MaxConfirms = 2
    MaxRetries = 1
    ReindexRetries = 1
    MaxBacklog = 0
    Failures = {}
    TurnsRace = FALSE
INVARIANT ProcessingHasTask
SYMMETRY Alike
CHECK_DEADLOCK FALSE
