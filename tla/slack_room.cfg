SPECIFICATION Spec
CONSTANTS
    Users = {ana, bo}
    Starter = ana
    MaxMessages = 2
    MaxEdits = 1
    MaxHandlers = 2
    MaxSessions = 3
    MaxAnswers = 1
    MaxCarry = 1
    MaxRead = 3
    Lookback = 1
    MaxStops = 1
    MaxFailures = 2
    MaxRestarts = 1
    MaxEvents = 3
INVARIANTS
    RoomInv
    FollowedOnce
    NothingSkipped
CHECK_DEADLOCK FALSE
