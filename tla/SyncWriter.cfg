CONSTANTS
    l1 = l1
    l2 = l2
    k1 = k1
    k2 = k2
    Logs = {l1, l2}
    Shippers = {l1, l2}
    Closers = {k1, k2}
    MaxDials = 3
    MaxRetries = 2
SPECIFICATION FairSpec
INVARIANTS
    ConnOwnedOnce
    NeverReplacesLive
    NoLostWakeup
    NoConnAfterClose
PROPERTIES
    ImplementsLedger
    WriteReturns
    ReconnectProgress
