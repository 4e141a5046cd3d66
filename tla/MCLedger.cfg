SPECIFICATION FairSpec
CONSTANTS
    u1 = u1
    u2 = u2
    Users = {u1, u2}
    Calls <- PaymentsAndConsents
    MirroredCalls <- Neutral
    Windows = {1, 2}
    MaxEvents = 3
    MaxInFlight = 2
    MaxBlock = 2
    MaxTime = 1
    MaxFailures = 1
    MaxDrops = 1
INVARIANTS
    ChainIntact
    MirrorCompleteBehindWatermark
    GateAgreesWithRule
PROPERTIES
    ImplementsLog
    MirrorCatchesUp
CHECK_DEADLOCK FALSE
