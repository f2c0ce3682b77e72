CONSTANTS
    RawValues = {0, 2000}
    MaxAttempts = 4
SPECIFICATION Spec
INVARIANTS
    BackoffCapped
