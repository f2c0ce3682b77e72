CONSTANTS
    l1 = l1
    s1 = s1
    LenBits = 10
    ResourceLen = 3
    ScopeLen = 0
    Logs = {l1}
    RecordLen <- Sizes
    Callers = {s1}
    Calls = {"sync"}
    WriteHandlerCalls = {}
    FlushHandlerCalls = {}
    QueueSize = 1
    BatchSize = 1
    MaxBytes = 30
    DropOldest = FALSE
    HasDrainTimeout = TRUE
    MaxAttempts = 3
SPECIFICATION WaitSpec
INVARIANT SyncWaitBounded
