CONSTANTS
    l1 = l1
    l2 = l2
    l3 = l3
    k1 = k1
    k2 = k2
    LenBits = 10
    ResourceLen = 3
    ScopeLen = 0
    Logs = {l1, l2, l3}
    RecordLen <- Sizes
    Callers = {k1}
    Calls = {"sync", "close"}
    WriteHandlerCalls = {}
    FlushHandlerCalls = {}
    QueueSize = 1
    BatchSize = 2
    MaxBytes = 30
    DropOldest = TRUE
    HasDrainTimeout = FALSE
    MaxAttempts = 2
SPECIFICATION Spec
INVARIANTS
    BatchFits
    AnsweredOnce
    DrainedAtExit
    OneAttemptAfterCancel
PROPERTIES
    ImplementsLedger
    FirstInFirstOut
