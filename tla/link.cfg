CONSTANTS
    MaxTurn = 1
    MaxMessages = 1
    OutboxMax = 1
    InboxMax = 2
    ChanMax = 2
    MaxDrops = 1
    MaxSidecarRestarts = 1
    MaxHarnessRestarts = 1
    MaxFaults = 2
    AgentMayExit = FALSE
SPECIFICATION FairSpec
INVARIANTS
    LinkInv
    LinkNeverFails
    RecordedOnceInOrder
PROPERTIES
    ImplementsFairPodLog
    LastTurnEnds
CHECK_DEADLOCK FALSE
