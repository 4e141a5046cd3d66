SPECIFICATION Spec
CONSTANTS
    Callers = {c1, c2, c3}
    FailureThreshold = 2
    SuccessThreshold = 2
    MaxFailures = 5
INVARIANTS
    OneProbeAtATime
