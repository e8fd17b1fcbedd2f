SPECIFICATION Spec
CONSTANTS
    Configs <- MCConfigs
    Levels <- MCLevels
    MaxStep = 2
    Horizon = 3
    Budget = 2
    Cap = 4
    MaxWall = 3
    Word = 8
INVARIANTS
    TypeOK
    OneInRigel
    GateAgrees
    StepsHonest
    BacklogBounded
    NeverPastDeadline
PROPERTIES
    OnlyOwnerTouchesClock
CHECK_DEADLOCK FALSE
