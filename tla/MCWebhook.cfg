CONSTANTS
    paid = paid
    again = again
    refund = refund
    tiny = tiny
    Event = {paid, again, refund, tiny}
    Kind <- MCKind
    Subject <- MCSubject
    Copies <- TwiceUnderOneId
    Scenario <- Pairs
    RetryLimit = 1
SPECIFICATION FairSpec
CHECK_DEADLOCK FALSE
INVARIANTS
    TypeOK
    AcceptedOnce
    AppliedOnce
    ProcessedIsTrue
PROPERTIES
    HandedOffSettles
