SPECIFICATION Spec
CONSTANTS
    Names = {n1}
    Workers = {w1}
    Free = Free
    Dead = Dead
    MaxConfirms = 2
    MaxRetries = 1
    ReindexRetries = 1
    MaxBacklog = 0
    Failures = {"ai", "storage", "vectors", "database", "redis", "death", "time"}
    TurnsRace = FALSE
INVARIANTS
    FailedIsClean
PROPERTIES
    LearnedIsKept
    RefinesDocumentLife
CHECK_DEADLOCK FALSE
