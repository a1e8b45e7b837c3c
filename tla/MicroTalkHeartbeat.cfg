SPECIFICATION TimeoutSpec
CONSTANTS
    MaxSessions = 1
    NChunks = 2
    IndexMod = 2
    WorksCap = 3
    RingSize = 2
    RxSize = 2
    MaxCnt = 5
    MaxUnread = 2
    MaxFaults = 0
PROPERTY HeartbeatWatched
CHECK_DEADLOCK FALSE
