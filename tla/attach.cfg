SPECIFICATION FairSpec
CONSTANTS
    Slots = {a1, a2}
    MaxFaults = 2
INVARIANTS
    AttachInv
PROPERTIES
    EndedAgentStops
    SidecarOverEndsSession
CHECK_DEADLOCK FALSE
