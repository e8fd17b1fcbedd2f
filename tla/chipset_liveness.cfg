SPECIFICATION Spec
CONSTANTS
    Configs <- LiveConfigs
    Levels <- MCLevels
    MaxStep = 1
    Horizon = 2
    Budget = 2
    Cap = 2
    MaxWall = 1
    Word = 8
PROPERTIES
    CoreArrives
    TransactionCompletes
    StopEnds
CHECK_DEADLOCK FALSE
