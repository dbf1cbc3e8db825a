CONSTANTS
    first = first
    retry = retry
    None = None
    Request <- MCRequest
    MaxAttempts = 3
    HardFailureStreak = 2
    RetryLimit = 2
SPECIFICATION Spec
CHECK_DEADLOCK FALSE
INVARIANTS
    OneCodeAtShopify
