SPECIFICATION Spec
CONSTANTS
    Configs <- NoBarrier
    Levels <- MCLevels
    MaxStep = 1
    Horizon = 2
    Budget = 2
    Cap = 2
    MaxWall = 1
    Word = 8
PROPERTY NewLevelWakesStop
CHECK_DEADLOCK FALSE
