SPECIFICATION FairSpec
CONSTANTS
    Nobody = Nobody
    Request = Request
    MaxRetries = 1
    MaxFaults = 2
    MaxMessages = 1
    MaxRequests = 1
INVARIANTS
    ActiveIsAttended
PROPERTIES
    WaitingEnds
CHECK_DEADLOCK FALSE
