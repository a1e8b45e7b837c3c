SPECIFICATION FairSpec
CONSTANTS
    MaxSessions = 2
    NChunks = 2
    IndexMod = 2
    WorksCap = 2
    RingSize = 2
    RxSize = 2
    MaxCnt = 5
    MaxUnread = 2
    MaxFaults = 2
INVARIANTS TypeOK NoDangling AnswerToAsker NeverForgotten ChunksInOrder FileExact
PROPERTIES ReconnectPending HeartbeatGoesOn EverySessionEnds
CHECK_DEADLOCK FALSE
