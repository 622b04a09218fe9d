SPECIFICATION FairSpec
CONSTANTS
    Names = {n1}
    Workers = {w1, w2}
    Free = Free
    Dead = Dead
    MaxConfirms = 2
    MaxRetries = 1
    ReindexRetries = 1
    MaxBacklog = 0
    Failures = {"ai", "storage", "broker"}
    TurnsRace = TRUE
INVARIANTS
    ReadyIsSearchable
PROPERTIES
    DeletedIsFinal
    OvertakenLeavesNoVectors
    TasksDrain
CHECK_DEADLOCK FALSE
