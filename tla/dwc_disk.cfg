SPECIFICATION Spec
CONSTANTS
    Req <- DiskReq
    Kind <- MCKind
    Endpoint <- MCEndpoint
    Hub <- MCHub
    Chunks <- MCChunks
    Pace <- MCPace
    NoHub = "none"
    NoReq = "none"
    Channels = 2
    RetryLimit = 0
    XactLimit = 1
    NyetLimit = 0
    Silence = 1
    Interval = 1
    MaxUses = 1
    MaxAborts = 1
    MaxFaults = 0
    LateIrq = TRUE
INVARIANTS
    OwnCompletion
PROPERTIES
    Implements
CHECK_DEADLOCK FALSE
