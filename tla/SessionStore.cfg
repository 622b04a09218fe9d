SPECIFICATION FairSpec
CONSTANTS
    MaxRequests = 3
    Nobody = Nobody
    NoCopy = NoCopy
    LockCanFail = FALSE
INVARIANTS
    NoTurnLost
    EventLogContiguous
    AnsweredOnce
    CompletedOnce
    HotIsBehind
    TurnsSerialised
PROPERTIES
    ViewNeverGoesBack
    RefinesLinearSession
    LockIsReleased
CHECK_DEADLOCK FALSE
