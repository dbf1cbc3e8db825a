CONSTANTS
    paid = paid
    adjusted = adjusted
    expired = expired
    worker = worker
    daily = daily
    Change = {paid, adjusted, expired}
    Silent = {expired}
    Worker = {worker}
    Reconciler = {daily}
    MaxAttempts = 2
    MaxFaults = 1
SPECIFICATION FairSpec
CHECK_DEADLOCK FALSE
INVARIANTS
    TypeOK
    QuietMeansCurrent
PROPERTIES
    CacheConverges
