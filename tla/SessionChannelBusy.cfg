SPECIFICATION Spec
CONSTANTS
    Nobody = Nobody
    Request = Request
    MaxRetries = 1
    MaxFaults = 1
    MaxMessages = 1
    MaxRequests = 0
INVARIANTS
    ClosedOnlyWhenEnded
CHECK_DEADLOCK FALSE
