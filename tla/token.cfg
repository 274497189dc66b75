SPECIFICATION FairSpec
CONSTANTS
    Names = {n1, n2, n3, n4}
    Modes = {"user", "workload"}
    Lifetime = 6
    Rotation = 2
    PendingInterval = 1
    MaxBackoff = 2
    PollTimeout = 2
    RefreshTimeout = 2
    DeniedLimit = 1
INVARIANTS
    TokenInv
PROPERTIES
    RevokedEnds
CHECK_DEADLOCK FALSE
