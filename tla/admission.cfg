SPECIFICATION Spec
CONSTANTS
    Sessions = {s1, s2}
    Clients = {a}
    Convs = {v1, v2}
    Keys = {k}
    Calls = {c1, c2}
    LiveCaps = {0, 1}
    PendingCaps = {1}
    Rate = 1
    Rebinds = {"others"}
    MaxLaunches = 2
    MaxFaults = 1
INVARIANTS
    AdmissionInv
    WaitersAreServed
CHECK_DEADLOCK FALSE
