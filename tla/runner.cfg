SPECIFICATION FairSpec
CONSTANTS
    PartMax = 2
    OutboxMax = 2
    MaxTurns = 2
    MaxUpdates = 2
    MaxPages = 2
    UsageTurns = {2}
    SendsLate = TRUE
INVARIANTS
    RunnerInv
PROPERTIES
    ExitIsReported
CHECK_DEADLOCK FALSE
