SPECIFICATION FairSpec
CONSTANTS
    Listener = lst
    Events = {lst, c1, c2}
    NoEvent = NoEvent
    Fds = {0, 1, 2, 6}
    ListenFd = 1
    FdSetSize = 4
    MaxInq = 2
INVARIANTS Consistent MaxFdCovers NoClosedFd NoStaleTurn
PROPERTY NoStarvation
