CONSTANTS
    MaxOwners = 4
    MaxStops = 1
    MaxStoreFaults = 1
    MaxClusterFaults = 1
    MaxRestarts = 1
    EndsBeforeCreated = FALSE
SPECIFICATION FairSpec
INVARIANTS
    OwnerInv
    WorkspaceReleased
    RevivedTurnEndsOnce
    SuspendedHasWorkspace
    EndAnsweredIsDone
PROPERTIES
    EndIsFinal
    ImplementsLifecycle
    OwnerLetsGo
CHECK_DEADLOCK FALSE
