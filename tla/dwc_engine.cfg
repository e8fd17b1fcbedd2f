SPECIFICATION Spec
CONSTANTS
    Req <- HubReq
    Kind <- MCKind
    Endpoint <- MCEndpoint
    Hub <- MCHub
    Chunks <- MCChunks
    Pace <- MCPace
    NoHub = "none"
    NoReq = "none"
    Channels = 2
    RetryLimit = 1
    XactLimit = 2
    NyetLimit = 1
    Silence = 1
    Interval = 2
    MaxUses = 1
    MaxAborts = 0
    MaxFaults = 1
    LateIrq = FALSE
INVARIANTS
    TypeOK
    SleepsSafely
PROPERTIES
    Answered
    Polled
CHECK_DEADLOCK FALSE
