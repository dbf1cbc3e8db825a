CONSTANTS
    first = first
    retry = retry
    None = None
    Request <- MCRequest
    MaxAttempts = 2
    HardFailureStreak = 2
    RetryLimit = 2
SPECIFICATION FairSpec
CHECK_DEADLOCK FALSE
INVARIANTS
    TypeOK
    SpentOnce
    ReversedOnce
    IssuedCodeWorks
PROPERTIES
    KeepsPromise
    EnqueuedSettles
