CONSTANTS
    paid = paid
    again = again
    refund = refund
    tiny = tiny
    Event = {paid}
    Kind <- MCKind
    Subject <- MCSubject
    Copies <- TwiceUnderOneId
    Scenario <- PaidTwice
    RetryLimit = 1
SPECIFICATION FairSpec
CHECK_DEADLOCK FALSE
PROPERTIES
    RecordedIsHandedOff
