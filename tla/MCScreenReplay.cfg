SPECIFICATION ScreenSpec
CONSTANTS
    Viewers = {a}
    Clears = {}
    MaxOutput = 4
    MaxPending = 2
    MaxHeld = 2
    MaxResizes = 0
    MaxBreaks = 1
    MaxRepairs = 1
    MaxReplays = 0
    MaxLeaves = 0
    FailsInRepair = TRUE
INVARIANT NothingLostOrTwice
CHECK_DEADLOCK FALSE
