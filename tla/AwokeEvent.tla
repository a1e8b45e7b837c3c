----------------------------- MODULE AwokeEvent -----------------------------
(***************************************************************************)
(* The select(2) event loop of lib/libevent/src/awoke_event.c, with what   *)
(* its users (message_router, micro-talk-client, unix_sock_with_python) do *)
(* from their handlers: accept a connection, read, wait for writability,   *)
(* close a connection.  A server's loop has a listener and asks            *)
(* awoke_event_ready before it runs a handler; micro-talk's has none,      *)
(* opens connections between two rounds, and serves whatever was reported. *)
(*                                                                         *)
(* An event is a structure inside the user's listener or connection.  The  *)
(* loop keeps a table of registered events by descriptor, the sets it      *)
(* passes to select, the highest descriptor in them, and the list of the   *)
(* events the last select reported, which one thread works off by ascending *)
(* descriptor (awoke_event_foreach) while handlers change all of the above. *)
(***************************************************************************)
EXTENDS Integers

CONSTANTS
    Events,     \* event structures
    NoEvent,
    Listener,   \* the structure of the listening socket
    Fds,        \* descriptors the kernel hands out; it has given others away
    ListenFd,   \* the listening one
    FdSetSize,  \* FD_SETSIZE
    MaxInq      \* bound: unread messages or waiting connections of a socket

ASSUME EventAssumption ==
    /\ NoEvent \notin Events
    /\ Listener \in Events
    /\ Fds \subseteq Nat
    /\ ListenFd \in Fds
    /\ FdSetSize \in Nat
    /\ MaxInq \in Nat \ {0}

VARIABLES
    table,          \* ctx->events
    rfds, wfds,     \* ctx->rfds, ctx->wfds
    maxFd,          \* ctx->max_fd
    fdOf, mask,     \* event->fd, event->mask; a registered event has a mask
    rset,           \* ctx->_rfds, as select left it
    fired,          \* ctx->fired: the event of every reported descriptor
    todo,           \* the descriptors whose event has not had its turn
    sock,           \* kernel: state of every descriptor
    inq,            \* kernel: unread messages, or connections to accept
    hup,            \* kernel: the peer has closed
    listening       \* whether there is a listener, and FIONREAD counts the
                    \* connections that wait there or refuses to

loop == <<table, rfds, wfds, maxFd, fdOf, mask>>
round == <<rset, fired, todo>>
kernel == <<sock, inq, hup>>
vars == <<loop, round, kernel, listening>>

\* The loop of a server asks awoke_event_ready before it runs a handler.
asks == listening # "none"

TypeOK ==
    /\ table \in [Fds -> Events \cup {NoEvent}]
    /\ rfds \in SUBSET Fds /\ wfds \in SUBSET Fds /\ rset \in SUBSET Fds
    /\ maxFd \in Fds \cup {-1, 0}
    /\ fdOf \in [Events -> Fds]
    /\ mask \in [Events -> SUBSET {"READ", "WRITE"}]
    /\ fired \in [Fds -> Events \cup {NoEvent}]
    /\ todo \in SUBSET Fds /\ \A fd \in todo : fired[fd] # NoEvent
    /\ sock \in [Fds -> {"closed", "listen", "conn"}]
    /\ inq \in [Fds -> 0 .. MaxInq]
    /\ hup \in SUBSET Fds
    /\ listening \in {"counted", "refused", "none"}

\* A loop whose listener has just been registered, or micro-talk's empty one.
Init ==
    /\ listening \in {"counted", "refused", "none"}
    /\ table = [fd \in Fds |-> IF asks /\ fd = ListenFd THEN Listener ELSE NoEvent]
    /\ rfds = (IF asks THEN {ListenFd} ELSE {}) /\ wfds = {} /\ rset = {}
    /\ maxFd = IF asks THEN ListenFd ELSE 0
    /\ fdOf = [e \in Events |-> ListenFd]
    /\ mask = [e \in Events |-> IF asks /\ e = Listener THEN {"READ"} ELSE {}]
    /\ fired = [fd \in Fds |-> NoEvent] /\ todo = {}
    /\ sock = [fd \in Fds |-> IF asks /\ fd = ListenFd THEN "listen" ELSE "closed"]
    /\ inq = [fd \in Fds |-> 0]
    /\ hup = {}

Registered(e) == mask[e] # {}

Dispatching == todo # {}

\* Where the search of awoke_event_del for the next lower descriptor ends: at
\* the first one with an event, or behind the last one it looks at.
SearchEnd(m) ==
    /\ \A i \in Fds : m < i /\ i < maxFd => table[i] = NoEvent
    /\ \/ maxFd > 0 /\ m = 0
       \/ maxFd = 0 /\ m = -1
       \/ m > 0 /\ m < maxFd /\ table[m] # NoEvent

\* Mutant of awoke_event_del: the descriptor stays in the write set.
DelKeepsWrite(e) ==
    /\ rfds' = rfds \ {fdOf[e]}
    /\ wfds' = wfds
    /\ \/ fdOf[e] # maxFd /\ UNCHANGED maxFd
       \/ fdOf[e] = maxFd /\ \E m \in Fds \cup {0, -1} : SearchEnd(m) /\ maxFd' = m
    /\ table' = [table EXCEPT ![fdOf[e]] = NoEvent]
    /\ mask' = [mask EXCEPT ![e] = {}]
    /\ UNCHANGED fdOf

\* Mutant of awoke_event_del: the structure is not reset.
DelKeepsMask(e) ==
    /\ rfds' = rfds \ {fdOf[e]}
    /\ wfds' = wfds \ {fdOf[e]}
    /\ \/ fdOf[e] # maxFd /\ UNCHANGED maxFd
       \/ fdOf[e] = maxFd /\ \E m \in Fds \cup {0, -1} : SearchEnd(m) /\ maxFd' = m
    /\ table' = [table EXCEPT ![fdOf[e]] = NoEvent]
    /\ UNCHANGED <<fdOf, mask>>

\* awoke_event_del of a registered event.
awoke_event_del(e) ==
    /\ rfds' = IF "READ" \in mask[e] THEN rfds \ {fdOf[e]} ELSE rfds
    /\ wfds' = IF "WRITE" \in mask[e] THEN wfds \ {fdOf[e]} ELSE wfds
    /\ \/ fdOf[e] # maxFd /\ UNCHANGED maxFd
       \/ fdOf[e] = maxFd /\ \E m \in Fds \cup {0, -1} : SearchEnd(m) /\ maxFd' = m
    /\ table' = [table EXCEPT ![fdOf[e]] = NoEvent]
    /\ mask' = [mask EXCEPT ![e] = {}]
    /\ UNCHANGED fdOf

\* Mutant of awoke_event_add: max_fd follows the latest descriptor.
AddLatest(e, fd, m) ==
    /\ rfds' = IF "READ" \in m THEN rfds \cup {fd} ELSE rfds
    /\ wfds' = IF "WRITE" \in m THEN wfds \cup {fd} ELSE wfds
    /\ fdOf' = [fdOf EXCEPT ![e] = fd]
    /\ mask' = [mask EXCEPT ![e] = m]
    /\ table' = [table EXCEPT ![fd] = e]
    /\ maxFd' = fd

awoke_event_add(e, fd, m) ==
    /\ rfds' = IF "READ" \in m THEN rfds \cup {fd} ELSE rfds
    /\ wfds' = IF "WRITE" \in m THEN wfds \cup {fd} ELSE wfds
    /\ fdOf' = [fdOf EXCEPT ![e] = fd]
    /\ mask' = [mask EXCEPT ![e] = m]
    /\ table' = [table EXCEPT ![fd] = e]
    /\ maxFd' = IF fd > maxFd THEN fd ELSE maxFd

\* FIONREAD: 0 for an idle socket, and where a listening socket refuses it.
awoke_sock_fd_read_ready(fd) ==
    IF sock[fd] = "listen" THEN listening = "counted" /\ inq[fd] > 0 ELSE inq[fd] > 0

-----------------------------------------------------------------------------

\* Peers.
Connect ==
    /\ sock[ListenFd] = "listen" /\ inq[ListenFd] < MaxInq
    /\ inq' = [inq EXCEPT ![ListenFd] = @ + 1]
    /\ UNCHANGED <<loop, round, sock, hup, listening>>

Send(fd) ==
    /\ sock[fd] = "conn" /\ fd \notin hup /\ inq[fd] < MaxInq
    /\ inq' = [inq EXCEPT ![fd] = @ + 1]
    /\ UNCHANGED <<loop, round, sock, hup, listening>>

PeerCloses(fd) ==
    /\ sock[fd] = "conn"
    /\ hup' = hup \cup {fd}
    /\ UNCHANGED <<loop, round, sock, inq, listening>>

\* What select reports: readable includes the end of the stream; a connection
\* can be written to at any time.
Readable == {fd \in rfds : fd <= maxFd /\ (inq[fd] > 0 \/ fd \in hup)}
Writable == {fd \in wfds : fd <= maxFd}

\* Mutant of Reported: the highest descriptor is left out.
ReportedShort == {fd \in Readable \cup Writable : table[fd] # NoEvent /\ fd < maxFd}

Reported == {fd \in Readable \cup Writable : table[fd] # NoEvent}

\* With nothing to report select times out, after at most tm milliseconds.
awoke_event_wait ==
    /\ ~Dispatching
    /\ rset' = Readable
    /\ todo' = Reported
    /\ fired' = [fd \in Fds |-> IF fd \in Reported THEN table[fd] ELSE NoEvent]
    /\ UNCHANGED <<loop, kernel, listening>>

\* The event whose turn it is.
Turn(fd) == fd \in todo /\ \A f \in todo : fd <= f

\* awoke_event_ready: the current mask and what select said.
awoke_event_ready(e) ==
    \/ "WRITE" \in mask[e]
    \/ "READ" \in mask[e] /\ fdOf[e] \in rset /\ awoke_sock_fd_read_ready(fdOf[e])

Advance(fd) ==
    /\ Turn(fd)
    /\ todo' = todo \ {fd}
    /\ UNCHANGED <<rset, fired, listening>>

\* Readable, select said, but there is no data: the peer is gone.  The event is
\* removed; the descriptor stays open.
DropEvent(fd) ==
    /\ Advance(fd) /\ asks
    /\ LET e == fired[fd] IN
       /\ mask[e] = {"READ"} /\ fdOf[e] \in rset
       /\ ~awoke_sock_fd_read_ready(fdOf[e])
       /\ awoke_event_del(e)
    /\ UNCHANGED kernel

\* An event that an earlier handler of this round has removed.
SkipEvent(fd) ==
    /\ Advance(fd) /\ asks
    /\ LET e == fired[fd] IN
       "WRITE" \notin mask[e] /\ ("READ" \notin mask[e] \/ fdOf[e] \notin rset)
    /\ UNCHANGED <<loop, kernel>>

Handle(fd) == Advance(fd) /\ asks /\ awoke_event_ready(fired[fd])

\* A listener's handler: the kernel gives out the lowest free descriptor, the
\* user a structure that is not in use.  The peer may have sent something, and
\* even closed, before it is accepted.
NextFree(fd) == sock[fd] = "closed" /\ \A f \in Fds : sock[f] = "closed" => fd <= f

HandleAccept(lfd, e, fd) ==
    /\ Handle(lfd) /\ fired[lfd] = Listener
    /\ NextFree(fd) /\ fd <= FdSetSize
    /\ ~Registered(e) /\ \A f \in todo : fired[f] # e
    /\ \E n \in 0 .. MaxInq : inq' = [inq EXCEPT ![ListenFd] = @ - 1, ![fd] = n]
    /\ awoke_event_add(e, fd, {"READ"})
    /\ sock' = [sock EXCEPT ![fd] = "conn"]
    /\ hup' \in {hup, hup \cup {fd}}

\* A descriptor awoke_event_add does not take, or a peer the user turns away:
\* it is closed again.
HandleRefuse(lfd, fd) ==
    /\ Handle(lfd) /\ fired[lfd] = Listener
    /\ NextFree(fd)
    /\ inq' = [inq EXCEPT ![ListenFd] = @ - 1]
    /\ UNCHANGED <<loop, sock, hup>>

\* accept fails for want of a descriptor, or the user for want of memory.
HandleAcceptFails(fd) ==
    /\ Handle(fd) /\ fired[fd] = Listener
    /\ UNCHANGED <<loop, kernel>>

\* micro-talk serves every reported connection, without asking.
Serve(fd) == Advance(fd) /\ ~asks

HandleConnection(fd) == (Handle(fd) \/ Serve(fd)) /\ fired[fd] # Listener

\* A connection's handler reads a message, ...
HandleRead(fd) ==
    /\ HandleConnection(fd)
    /\ inq' = [inq EXCEPT ![fdOf[fired[fd]]] = IF @ > 0 THEN @ - 1 ELSE @]
    /\ UNCHANGED <<loop, sock, hup>>

\* Removing an event and closing its descriptor (mtk_connect_release).
Close(e) ==
    /\ e # Listener /\ Registered(e)
    /\ awoke_event_del(e)
    /\ sock' = [sock EXCEPT ![fdOf[e]] = "closed"]
    /\ inq' = [inq EXCEPT ![fdOf[e]] = 0]
    /\ hup' = hup \ {fdOf[e]}

\* ... closes its connection, in a loop that asks any connection, ...
HandleClose(fd, e) == HandleConnection(fd) /\ (asks \/ e = fired[fd]) /\ Close(e)

\* Starting or ending to wait for writability: mtk_event_change_mask removes
\* the event and adds it again, which leaves max_fd where it was.
mtk_event_change_mask(e) ==
    /\ LET new == IF "WRITE" \in mask[e] THEN {"READ"} ELSE {"READ", "WRITE"}
       IN  /\ wfds' = IF "WRITE" \in new THEN wfds \cup {fdOf[e]} ELSE wfds \ {fdOf[e]}
           /\ mask' = [mask EXCEPT ![e] = new]
    /\ UNCHANGED <<table, rfds, fdOf, maxFd, kernel>>

\* ... or changes the mask.
HandleMask(fd) == HandleConnection(fd) /\ mtk_event_change_mask(fired[fd])

\* Between two rounds micro-talk runs a work or a timeout: it opens a
\* connection, closes one, or asks to be told when it may write.
BetweenRounds == ~asks /\ ~Dispatching /\ UNCHANGED <<round, listening>>

OpenConnection(e, fd) ==
    /\ BetweenRounds
    /\ NextFree(fd) /\ fd <= FdSetSize
    /\ e # Listener /\ ~Registered(e)
    /\ awoke_event_add(e, fd, {"READ"})
    /\ sock' = [sock EXCEPT ![fd] = "conn"]
    /\ UNCHANGED <<inq, hup>>

CloseConnection(e) == BetweenRounds /\ Close(e)

AskToWrite(e) ==
    /\ BetweenRounds
    /\ Registered(e) /\ "WRITE" \notin mask[e]
    /\ mtk_event_change_mask(e)

Peers == Connect \/ \E fd \in Fds : Send(fd) \/ PeerCloses(fd)

\* The thread that runs the loop.
Loop ==
    \/ awoke_event_wait
    \/ \E fd \in Fds :
          \/ DropEvent(fd) \/ SkipEvent(fd)
          \/ \E e \in Events, new \in Fds : HandleAccept(fd, e, new)
          \/ \E new \in Fds : HandleRefuse(fd, new)
          \/ HandleAcceptFails(fd)
          \/ HandleRead(fd)
          \/ \E e \in Events : HandleClose(fd, e)
          \/ HandleMask(fd)

\* What the user does of its own accord.
User ==
    \E e \in Events :
        \/ \E fd \in Fds : OpenConnection(e, fd)
        \/ CloseConnection(e)
        \/ AskToWrite(e)

Next == Peers \/ Loop \/ User

Spec == Init /\ [][Next]_vars

\* The loop runs forever.
FairSpec == Spec /\ WF_vars(Loop)

-----------------------------------------------------------------------------
(* Properties *)

\* The table, the events and the sets passed to select agree, whatever
\* handlers removed, added or changed in the middle of a round.
Consistent ==
    /\ \A fd \in Fds : table[fd] # NoEvent => Registered(table[fd]) /\ fdOf[table[fd]] = fd
    /\ \A e \in Events : Registered(e) => table[fdOf[e]] = e
    /\ rfds = {fd \in Fds : table[fd] # NoEvent /\ "READ" \in mask[table[fd]]}
    /\ wfds = {fd \in Fds : table[fd] # NoEvent /\ "WRITE" \in mask[table[fd]]}

\* select looks at every registered descriptor: max_fd is never too low.
MaxFdCovers == \A fd \in Fds : table[fd] # NoEvent => fd <= maxFd

\* select is never given a closed descriptor, which would make every wait of
\* the loop fail from then on.
NoClosedFd == \A fd \in rfds \cup wfds : sock[fd] # "closed"

\* A handler runs only for an event that is registered for its descriptor now,
\* not for one that was registered when select returned: because the loop asks
\* awoke_event_ready, or, where it does not (micro_talk.c:479-496), because its
\* handlers close no connection but their own.
NoStaleTurn ==
    \A fd \in todo :
        (asks => awoke_event_ready(fired[fd])) => table[fd] = fired[fd] /\ fdOf[fired[fd]] = fd

\* However busy the others are, a descriptor with something to read gets its
\* turn, unless its event is removed.
NoStarvation ==
    \A fd \in Fds :
        (table[fd] # NoEvent /\ inq[fd] > 0) ~> (Turn(fd) \/ table[fd] = NoEvent \/ inq[fd] = 0)

\* "listener socket" (awoke_event.h:19), a type of event next to
\* "data on active connection": a waiting connection makes the loop run the
\* handler of the listener.
ListenerServed ==
    (asks /\ inq[ListenFd] > 0)
        ~> (Turn(ListenFd) /\ awoke_event_ready(Listener)) \/ inq[ListenFd] = 0

=============================================================================
