CONSTANTS
    MaxTurn = 2
    MaxMessages = 0
    OutboxMax = 2
    InboxMax = 2
    ChanMax = 2
    MaxDrops = 1
    MaxSidecarRestarts = 0
    MaxHarnessRestarts = 1
    MaxFaults = 1
    AgentMayExit = TRUE
SPECIFICATION FairSpec
INVARIANTS
    TurnsRunOnceInOrder
    BusyWhileAgentWorks
PROPERTIES
    LastTurnEnds
CHECK_DEADLOCK FALSE
