CONSTANTS
    friend = friend
    referrer = referrer
    big = big
    small = small
    free = free
    ev1 = ev1
    ev2 = ev2
    k1 = k1
    None = None
    Customer <- MCCustomer
    Order <- MCOrder
    OrderOwner <- MCOrderOwner
    OrderTotal <- MCOrderTotal
    Event <- MCEvent
    RefundAmount <- MCRefundAmount
    Key <- MCKey
    RewardCost <- MCRewardCost
    Adjustment <- MCAdjustment
    Legacy <- MCLegacy
    LotLife = 1
    AllowNegative = FALSE
    AllowDowngrade = TRUE
    MaxEntries = 5
    MaxIdleSpend = 100
    MaxNow = 2
SYMMETRY EventSymmetry
SPECIFICATION Spec
CHECK_DEADLOCK FALSE
INVARIANTS
    TypeOK
    PointsBacked
    ClawbackWithinEarnings
    NothingTwice
    TierEarned
PROPERTIES
    DrawsOldestLiveLots
    KeepsAccounts
