SPECIFICATION ServicesSpec
CONSTANTS
    Workloads <- MCWorkloads
    GlobalLimit = 3
    AuthLimit = 1
    RegisterLimit = 1
    Window = 2
    KeyTTL = 2
    MaxClock = 3
    Pushes = {n1, n2}
    BareEvents = {e1}
    Streams = {s1, s2, s3}
    Dismissals = {d1, d2}
    MaxStored = 2
    MaxConnections = 2
    Buffer = 1
    MaxActivity = 2
    LedgerUsers = {u1, u2}
    LedgerPayloads = {"p", "q"}
    CoolingOffWindow = 2
    MaxLedgerEvents = 5
    MaxLedgerTime = 2
    MaxOps = 3
    MaxFaults = 2
    EndpointCalls <- MCEndpointCalls
INVARIANTS
    AdminNeedsBoth
    HandlersKnowTheirUser
    GuessesBounded
    AnswersMatchBody
    NoSendOnClosed
    EntriesUnique
    DismissedUntilTrimmed
    EnforcedTransactions
    ChoicesSurvive
    SavedRecordsRestored
    EndpointsNeverStuck
    OrdersFunded
PROPERTIES
    PublishersFinish
    BindingKeepsOwner
CHECK_DEADLOCK FALSE
