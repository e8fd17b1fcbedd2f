SPECIFICATION Spec
CONSTANTS
    Configs <- Handover
    Levels <- MCLevels
    MaxStep = 1
    Horizon = 2
    Budget = 2
    Cap = 2
    MaxWall = 1
    Word = 8
INVARIANT NeverByBoth
CHECK_DEADLOCK FALSE
