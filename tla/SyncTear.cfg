CONSTANTS
    l1 = l1
    l2 = l2
    k1 = k1
    Logs = {l1, l2}
    Shippers = {l1, l2}
    Closers = {k1}
    MaxDials = 1
    MaxRetries = 1
SPECIFICATION Spec
INVARIANT NoWriteAfterTear
