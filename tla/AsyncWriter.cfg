CONSTANTS
    l1 = l1
    l2 = l2
    l3 = l3
    k1 = k1
    s1 = s1
    Logs = {l1, l2, l3}
    Shippers = {"flushLoop"}
    Closers = {k1}
    Syncers = {s1}
    MaxDials = 1
    MaxRetries = 1
    BufferSize = 1
    BatchSize = 2
    Policies = {TRUE, FALSE}
SPECIFICATION Spec
SYMMETRY Symmetry
INVARIANTS
    TypeOK
    DrainedAtTeardown
    NoWriteAfterTear
    SyncIsBarrier
PROPERTIES
    ImplementsLedger
    FirstInFirstOut
