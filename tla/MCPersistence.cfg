SPECIFICATION PersistSpec
CONSTANTS
    MaxOps = 3
    MaxFaults = 2
INVARIANT AcknowledgedIsDurable
CHECK_DEADLOCK FALSE
