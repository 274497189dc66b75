CONSTANTS
    MaxTurn = 2
    MaxMessages = 0
    OutboxMax = 2
    InboxMax = 2
    ChanMax = 2
    MaxDrops = 1
    MaxSidecarRestarts = 0
    MaxHarnessRestarts = 0
    MaxFaults = 2
    AgentMayExit = FALSE
SPECIFICATION Spec
INVARIANTS
    NoTurnForgotten
CHECK_DEADLOCK FALSE
