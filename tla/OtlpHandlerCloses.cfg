CONSTANTS
    l1 = l1
    l2 = l2
    l3 = l3
    k1 = k1
    k2 = k2
    LenBits = 10
    ResourceLen = 3
    ScopeLen = 0
    Logs = {l1}
    RecordLen <- Sizes
    Callers = {}
    Calls = {}
    WriteHandlerCalls = {}
    FlushHandlerCalls = {"close"}
    QueueSize = 1
    BatchSize = 1
    MaxBytes = 30
    DropOldest = FALSE
    HasDrainTimeout = FALSE
    MaxAttempts = 2
SPECIFICATION FairSpec
PROPERTIES
    CloseReturns
CHECK_DEADLOCK FALSE
