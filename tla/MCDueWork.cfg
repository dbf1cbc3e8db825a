CONSTANTS
    expiry = expiry
    reconcile = reconcile
    p1 = p1
    p2 = p2
    h1 = h1
    h2 = h2
    Job = {expiry, reconcile}
    ExpiryJob = expiry
    Pass = {p1, p2}
    Handler = {h1, h2}
    Lot = {1, 2}
    Life <- MCLife
    Points <- MCPoints
    Interval = 2
    Window = 3
    RetryLimit = 1
    MaxFaults = 2
SPECIFICATION FairSpec
CHECK_DEADLOCK FALSE
INVARIANTS
    TypeOK
    NoticesAccountedFor
    WarnedUnlessTrouble
PROPERTIES
    NoticeSaysWhatRemains
    MissedWorkCatchesUp
