SPECIFICATION FairSpec
CONSTANTS
    Apps = {client, server}
    AppNone = none
    Conns = {c1, c2}
    NoConn = NoConn
    Listener = lst
    NoEvent = NoEvent
    Fds = {3, 4, 5}
    ListenFd = 3
    FdSetSize = 5
    MaxInq = 4
    Everyone = Everyone
    Nobody = Nobody
    Dests = {server, Everyone}
    MaxSend = 4
    MaxOut = 1
INVARIANTS TypeOK TableExact DeliveredToDestination InOrderOnce
PROPERTIES LoopSpec Drained
CHECK_DEADLOCK FALSE
