CONSTANTS
    MaxEvents = 6
    SubscriberBuffer = 2
    EventPage = 2
    WireMax = 2
    MaxDrops = 1
    MaxReadErrors = 1
    MaxRestarts = 1
    MaxStatusErrors = 1
SPECIFICATION FairSpec
INVARIANTS
    FeedInv
    ReceivedInOrder
    WaitingMissedNothing
PROPERTIES
    ImplementsFairFeed
CHECK_DEADLOCK FALSE
