SPECIFICATION FairSpec
CONSTANTS
    Requests = {r1}
    Options = {allow}
    Callers = {c1, c2}
    InboxMax = 2
    MaxDrops = 1
    MaxRestarts = 1
    MaxStoreFaults = 1
    RareFaults = {}
INVARIANTS
    PermissionInv
CHECK_DEADLOCK FALSE
PROPERTIES
    AgentIsAnswered
    OkReachesAgent
