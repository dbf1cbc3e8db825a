CONSTANTS
    r1 = r1
    r2 = r2
    c1 = c1
    c2 = c2
    e1 = e1
    e2 = e2
    paid = paid
    adj = adj
    rec = rec
    None = None
    Txn = {r1, r2, c1, c2, e1, e2, paid, adj, rec}
    Kind <- MCKind
    Scenario <- MCBesideScans
    Lot = {1, 2, 3}
    Original <- MCOriginal
    Dated = {1}
    OrderLot = 2
    NewLot = 3
    Cost = 2
    Desired <- MCDesired
    Spent <- MCSpent
    RetryLimit = 0
SPECIFICATION Spec
CHECK_DEADLOCK FALSE
INVARIANT ExpiredOnce
