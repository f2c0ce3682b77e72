CONSTANTS
    l1 = l1
    k1 = k1
    s1 = s1
    Logs = {l1}
    Shippers = {"flushLoop"}
    Closers = {k1}
    Syncers = {s1}
    MaxDials = 1
    MaxRetries = 1
    BufferSize = 1
    BatchSize = 2
    Policies = {FALSE}
SPECIFICATION FairSpec
PROPERTIES
    SyncReturns
    CloseReleasesAll
    AcceptedResolves
