SPECIFICATION FairSpec
CONSTANTS
    MaxTurns = 2
    MaxParts = 2
    PieceParts = 1
    AskTurns = {2}
    MaxFaults = 1
    MaxSuspends = 1
    MaxLag = 0
INVARIANTS
    RenderInv
    CursorBehindAnswers
    PromptsClosed
PROPERTIES
    CursorNeverRewinds
    CatchesUp
CHECK_DEADLOCK FALSE
