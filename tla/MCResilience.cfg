SPECIFICATION ResilienceSpec
CONSTANTS
    Callers = {c1, c2, c3}
    FailureThreshold = 2
    SuccessThreshold = 2
    MaxFailures = 5
    Events = {e1, e2, e3}
    BatchLimit = 2
    MaxRetries = 3
INVARIANTS
    TypeOK
    NeverWedged
    ClosedBelowThreshold
    NothingLost
    FirstAttemptsInOrder
PROPERTIES
    ClosesOnlyAfterRecovery
    Recovers
    EventuallySettled
    NotRepublished
