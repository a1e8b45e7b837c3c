SPECIFICATION FairSpec
CONSTANTS
    Listener = lst
    Events = {lst, c1, c2}
    NoEvent = NoEvent
    Fds = {0, 1, 2}
    ListenFd = 1
    FdSetSize = 4
    MaxInq = 1
PROPERTY ListenerServed
