------------------------------- MODULE Router -------------------------------
(***************************************************************************)
(* application/message_router on lib/librtmsg: applications connect to the *)
(* router's socket, associate under their id, and send messages that the   *)
(* router forwards to the application named in the header, or to all.      *)
(*                                                                         *)
(* The router runs on the event loop of AwokeEvent: its state is that of   *)
(* the loop, the forward table, and the connections.  What the loop sees   *)
(* of the kernel (open descriptors, unread messages, closed peers) is      *)
(* computed from the connections, and every step of the router is a step   *)
(* of the loop (LoopSpec).                                                 *)
(***************************************************************************)
EXTENDS Integers, Sequences, FiniteSets, Functions

CONSTANTS
    Apps,       \* the applications of the table that may associate
    AppNone,    \* app_none, also in the table (it may not associate)
    Conns,      \* connections made in one behaviour
    NoConn,
    Listener, NoEvent,
    Fds, ListenFd, FdSetSize, MaxInq,
    Everyone,   \* destination of a message with f_broadcast
    Nobody,     \* the router itself, or an id that is not in the table
    Dests,      \* the destinations clients send to
    MaxSend,    \* bound: messages all clients send, the associations included
    MaxOut      \* bound: messages a client's socket holds unread

ASSUME RouterAssumption ==
    /\ IsFiniteSet(Apps) /\ AppNone \notin Apps
    /\ {Everyone, Nobody} \cap (Apps \cup {AppNone}) = {}
    /\ Dests \subseteq Apps \cup {AppNone, Everyone, Nobody}
    /\ {NoConn, NoEvent, Listener} \cap Conns = {}
    /\ Listener # NoEvent
    /\ Fds \subseteq Nat \ {0} /\ ListenFd \in Fds
    /\ FdSetSize \in Nat
    /\ MaxSend \in Nat \ {0} /\ MaxInq \in Nat \ {0} /\ MaxOut \in Nat \ {0}

Items == Apps \cup {AppNone}

VARIABLES
    table, rfds, wfds, maxFd, fdOf, mask, rset, fired, todo, listening,  \* AwokeEvent
    item,       \* the forward table: [fd, status] of every application
    peer,       \* the connection behind every descriptor of the router
    backlog,    \* connections that wait to be accepted
    rid,        \* the id the client of a connection gives to rt_message_init
    stream,     \* messages sent on a connection and not yet read
    sent,       \* how many were sent
    gone,       \* connections their client has closed
    inbox,      \* how many messages the client of a connection has not yet read
    got,        \* history: what was written to the client of a connection
    orphaned,   \* history: applications, with the descriptor closed under them
    alive       \* the router process runs

loop == <<table, rfds, wfds, maxFd, fdOf, mask, rset, fired, todo, listening>>
clients == <<rid, sent>>
written == <<inbox, got>>
vars == <<loop, item, peer, backlog, clients, stream, gone, written, orphaned, alive>>

\* What AwokeEvent calls the kernel.
Sock == [fd \in Fds |-> IF fd = ListenFd THEN "listen"
                        ELSE IF peer[fd] = NoConn THEN "closed" ELSE "conn"]
Inq == [fd \in Fds |-> IF fd = ListenFd THEN Len(backlog)
                       ELSE IF peer[fd] = NoConn THEN 0 ELSE Len(stream[peer[fd]])]
Hup == {fd \in Fds : peer[fd] \in gone}

Evl == INSTANCE AwokeEvent WITH Events <- Conns \cup {Listener},
                                sock <- Sock, inq <- Inq, hup <- Hup

\* A message: its number on its connection, and where it is for.
Msg(c, to) == [from |-> c, id |-> sent[c], to |-> to]
Messages == [from : Conns, id : Nat, to : Dests \cup {Nobody}]

TypeOK ==
    /\ Evl!TypeOK
    /\ item \in [Items -> [fd : Fds \cup {0}, status : {"app_not_run", "app_running"}]]
    /\ peer \in [Fds -> Conns \cup {NoConn}]
    /\ backlog \in Seq(Conns)
    /\ rid \in [Conns -> Items \cup {Nobody}]
    /\ stream \in [Conns -> Seq(Messages)]
    /\ sent \in [Conns -> Nat]
    /\ gone \in SUBSET Conns
    /\ inbox \in [Conns -> 0 .. MaxOut]
    /\ got \in [Conns -> Seq(Messages)]
    /\ orphaned \in SUBSET (Apps \X Fds)
    /\ alive \in BOOLEAN

\* Mutant of RegisteredItem: registered as launched.
RegisteredLaunched == [fd |-> 0, status |-> "app_launched"]

\* router_forward_item_register
RegisteredItem == [fd |-> 0, status |-> "app_not_run"]

\* router_init: every application of the table is registered as not running,
\* on descriptor 0; the listener is in the loop.
Init ==
    /\ table = [fd \in Fds |-> IF fd = ListenFd THEN Listener ELSE NoEvent]
    /\ rfds = {ListenFd} /\ wfds = {} /\ rset = {}
    /\ maxFd = ListenFd
    /\ fdOf = [e \in Conns \cup {Listener} |-> ListenFd]
    /\ mask = [e \in Conns \cup {Listener} |-> IF e = Listener THEN {"READ"} ELSE {}]
    /\ fired = [fd \in Fds |-> NoEvent] /\ todo = {}
    /\ listening \in {"counted", "refused"}
    /\ item = [a \in Items |-> RegisteredItem]
    /\ peer = [fd \in Fds |-> NoConn]
    /\ backlog = <<>>
    /\ rid = [c \in Conns |-> Nobody]
    /\ stream = [c \in Conns |-> <<>>]
    /\ sent = [c \in Conns |-> 0]
    /\ gone = {}
    /\ inbox = [c \in Conns |-> 0]
    /\ got = [c \in Conns |-> <<>>]
    /\ orphaned = {}
    /\ alive = TRUE

-----------------------------------------------------------------------------
(* Clients: lib/librtmsg *)

\* Where a client's writes still arrive.
Open(c) == c \notin gone /\ ((\E i \in DOMAIN backlog : backlog[i] = c) \/ \E fd \in Fds : peer[fd] = c)

\* rt_message_init up to connect(2).
rt_message_connect(c, a) ==
    /\ alive /\ rid[c] = Nobody /\ Len(backlog) < MaxInq
    /\ rid' = [rid EXCEPT ![c] = a]
    /\ backlog' = Append(backlog, c)
    /\ UNCHANGED <<loop, item, peer, stream, sent, gone, written, orphaned, alive>>

\* (A write to a connection with MaxInq unread messages blocks.)
Put(c, to) ==
    /\ alive /\ Open(c) /\ SumFunction(sent) < MaxSend /\ Len(stream[c]) < MaxInq
    /\ stream' = [stream EXCEPT ![c] = Append(@, Msg(c, to))]
    /\ sent' = [sent EXCEPT ![c] = @ + 1]
    /\ UNCHANGED <<loop, item, peer, backlog, rid, gone, written, orphaned, alive>>

\* rt_message_init, the association: the first message, to the router.
rt_message_associate(c) == sent[c] = 0 /\ Put(c, Nobody)

\* awoke_rtmsg_send
awoke_rtmsg_send(c, to) == sent[c] > 0 /\ Put(c, to)

\* rt_message_recv in a client, which nothing makes it call.
client_recv(c) ==
    /\ inbox[c] > 0 /\ c \notin gone
    /\ inbox' = [inbox EXCEPT ![c] = @ - 1]
    /\ UNCHANGED <<loop, item, peer, backlog, clients, stream, gone, got, orphaned, alive>>

\* awoke_rtmsg_handle_clean, or the client ends.
rt_message_handle_clean(c) ==
    /\ alive /\ Open(c)
    /\ gone' = gone \cup {c}
    /\ UNCHANGED <<loop, item, peer, backlog, clients, stream, written, orphaned, alive>>

-----------------------------------------------------------------------------
(* Forwarding: router_forward.c.  SIGPIPE has its default disposition, so a *)
(* write to a connection whose client has closed ends the process.          *)

\* rt_message_send on the descriptors of the items A.  Descriptor 0 is the
\* router's standard input, a closed one fails; neither reaches a client.
Reached(A) == {a \in A : item[a].fd # 0 /\ peer[item[a].fd] # NoConn}
Deadly(A) == {a \in Reached(A) : peer[item[a].fd] \in gone}

Copies(c, A) == Cardinality({a \in A : peer[item[a].fd] = c})

\* A blocking write: with no room at a client the router's only thread waits,
\* in the middle of its turn, until that client reads or closes.  Clients that
\* have their copy already can do nothing they could not do before, so the turn
\* is one step, taken when there is room wherever it writes.  (Of a client that
\* is written to twice, the reads that the second write waits for are part of
\* the step.)
Room(A) == \A c \in Conns : Copies(c, A) > 0 => inbox[c] < MaxOut

Filled(n) == IF n > MaxOut THEN MaxOut ELSE n

Written(m, A) ==
    /\ Room(A)
    /\ inbox' = [c \in Conns |-> Filled(inbox[c] + Copies(c, A))]
    /\ got' = [c \in Conns |-> got[c] \o [i \in 1 .. Copies(c, A) |-> m]]

\* Mutant of forward_deliver_broadcast: every application, twice.
BroadcastTwice(m) ==
    /\ Deadly(Items) = {}
    /\ got' = [c \in Conns |-> got[c] \o [i \in 1 .. 2 * Copies(c, Reached(Items)) |-> m]]
    /\ UNCHANGED <<inbox, alive>>

\* Every item of the table, running or not, the sender's own included, until a
\* write ends the process.
forward_deliver_broadcast(m) ==
    \/ Deadly(Items) = {} /\ Written(m, Reached(Items)) /\ UNCHANGED alive
    \/ /\ Deadly(Items) # {}
       /\ \E A \in SUBSET (Reached(Items) \ Deadly(Items)) : Written(m, A)
       /\ alive' = FALSE

\* Mutant of forward_deliver_unicast: the message goes to the first item.
UnicastWrong(m) ==
    /\ \E a \in Reached(Items) \ Deadly(Items) : Written(m, {a})
    /\ UNCHANGED alive

\* forward_queue_message is given the message instead of the address of its
\* pointer and writes through the two ids at its start: the process ends.
forward_deliver_unicast(m) ==
    IF m.to \notin Items THEN UNCHANGED <<written, alive>>
    ELSE IF item[m.to].status # "app_running" \/ Deadly({m.to}) # {}
         THEN alive' = FALSE /\ UNCHANGED written
         ELSE Written(m, Reached({m.to})) /\ UNCHANGED alive

\* router_message_proc and router_fdt_deliver
router_fdt_deliver(m) ==
    IF m.to = Everyone THEN forward_deliver_broadcast(m) ELSE forward_deliver_unicast(m)

-----------------------------------------------------------------------------
(* The main loop: router_main.c *)

evlLoop == <<table, rfds, wfds, maxFd, fdOf, mask>>

awoke_event_wait ==
    /\ alive
    /\ UNCHANGED <<item, peer, backlog, clients, stream, gone, written, orphaned, alive>>
    /\ Evl!awoke_event_wait

\* Mutant of NotReady: a closed peer's event is dropped with its messages unread.
DropOnHup(fd) ==
    /\ alive
    /\ UNCHANGED <<item, peer, backlog, clients, stream, gone, written, orphaned, alive>>
    /\ Evl!Advance(fd)
    /\ IF fd \in Hup /\ fired[fd] # Listener THEN Evl!awoke_event_del(fired[fd])
       ELSE Evl!DropEvent(fd) \/ Evl!SkipEvent(fd)

\* awoke_event_ready says no: the event is gone, the descriptor stays open and
\* the forward table keeps it.
NotReady(fd) ==
    /\ alive
    /\ UNCHANGED <<item, peer, backlog, clients, stream, gone, written, orphaned, alive>>
    /\ Evl!DropEvent(fd) \/ Evl!SkipEvent(fd)

\* router_connect_proc.  Its call of rt_message_recv lacks the timeout: whatever
\* is taken for it, data is waiting, so a wait returns at once.
router_connect_proc(fd) ==
    /\ alive
    /\ Evl!Handle(fd) /\ fired[fd] # Listener
    /\ LET c == peer[fd] IN
       /\ stream[c] # <<>>
       /\ stream' = [stream EXCEPT ![c] = Tail(@)]
       /\ router_fdt_deliver(Head(stream[c]))
    /\ UNCHANGED <<evlLoop, item, peer, backlog, clients, gone, orphaned>>

\* router_fdt_app_associate: within two seconds a message must come, from an id
\* that may associate.
Associates(c) == stream[c] # <<>> /\ rid[c] \in Apps

\* The accept of router_listener_proc: the lowest free descriptor.
Accepts(lfd, c, fd) ==
    /\ alive
    /\ Evl!Handle(lfd) /\ fired[lfd] = Listener
    /\ backlog # <<>> /\ c = Head(backlog)
    /\ Evl!NextFree(fd)
    /\ backlog' = Tail(backlog)
    /\ UNCHANGED <<clients, gone, written>>

\* Mutant of router_listener_proc: the association is noted under any id.
ListenerUnchecked(lfd, c, fd) ==
    /\ Accepts(lfd, c, fd) /\ Associates(c) /\ fd <= FdSetSize
    /\ \E a \in Apps : item' = [item EXCEPT ![a] = [fd |-> fd, status |-> "app_running"]]
    /\ stream' = [stream EXCEPT ![c] = Tail(@)]
    /\ peer' = [peer EXCEPT ![fd] = c]
    /\ Evl!awoke_event_add(c, fd, {"READ"})
    /\ UNCHANGED <<orphaned, alive>>

\* router_listener_proc
router_listener_proc(lfd, c, fd) ==
    /\ Accepts(lfd, c, fd) /\ Associates(c) /\ fd <= FdSetSize
    /\ item' = [item EXCEPT ![rid[c]] = [fd |-> fd, status |-> "app_running"]]
    /\ stream' = [stream EXCEPT ![c] = Tail(@)]
    /\ peer' = [peer EXCEPT ![fd] = c]
    /\ Evl!awoke_event_add(c, fd, {"READ"})
    /\ UNCHANGED <<orphaned, alive>>

\* The association is refused: the descriptor is closed, and a connection that
\* was never initialised is freed, which may end the process.
listener_proc_refuses(lfd, c, fd) ==
    /\ Accepts(lfd, c, fd) /\ ~Associates(c)
    /\ alive' \in BOOLEAN
    /\ UNCHANGED <<evlLoop, item, peer, stream, orphaned>>

\* Mutant of listener_proc_fails: the event stays in the loop.
FailsLate(lfd, c, fd) ==
    /\ Accepts(lfd, c, fd) /\ Associates(c) /\ fd <= FdSetSize
    /\ item' = [item EXCEPT ![rid[c]] = [fd |-> fd, status |-> "app_running"]]
    /\ orphaned' = orphaned \cup {<<rid[c], fd>>}
    /\ Evl!awoke_event_add(c, fd, {"READ"})
    /\ UNCHANGED <<peer, stream, alive>>

\* A connection that the loop did not take is freed and stays in conn_list:
\* linking the next one writes into it, which may end the process.
Dangling == \E o \in orphaned : o[2] > FdSetSize

\* No memory for the connection, or a descriptor the loop does not take: the
\* descriptor is closed, but the table already has it.
listener_proc_fails(lfd, c, fd) ==
    /\ Accepts(lfd, c, fd) /\ Associates(c)
    /\ item' = [item EXCEPT ![rid[c]] = [fd |-> fd, status |-> "app_running"]]
    /\ orphaned' = orphaned \cup {<<rid[c], fd>>}
    /\ alive' \in (IF Dangling THEN BOOLEAN ELSE {TRUE})
    /\ UNCHANGED <<evlLoop, peer, stream>>

\* accept(2) fails.
accept_fails(fd) ==
    /\ alive
    /\ Evl!Handle(fd) /\ fired[fd] = Listener
    /\ UNCHANGED <<evlLoop, item, peer, backlog, clients, stream, gone, written, orphaned, alive>>

\* signal_exit: router_manager_clean closes what the table holds, then exit.
signal_exit ==
    /\ alive
    /\ alive' = FALSE
    /\ UNCHANGED <<loop, item, peer, backlog, clients, stream, gone, written, orphaned>>

-----------------------------------------------------------------------------

Clients ==
    \E c \in Conns :
        \/ \E a \in Items : rt_message_connect(c, a)
        \/ rt_message_associate(c)
        \/ \E to \in Dests : awoke_rtmsg_send(c, to)
        \/ client_recv(c)
        \/ rt_message_handle_clean(c)

router_main_loop ==
    \/ awoke_event_wait
    \/ \E fd \in Fds :
          \/ NotReady(fd) \/ router_connect_proc(fd) \/ accept_fails(fd)
          \/ \E c \in Conns, new \in Fds :
                \/ router_listener_proc(fd, c, new)
                \/ listener_proc_refuses(fd, c, new)
                \/ listener_proc_fails(fd, c, new)

Next == Clients \/ router_main_loop \/ signal_exit

Spec == Init /\ [][Next]_vars

\* The router's only thread keeps going round its loop, unless it is waiting
\* for a client.  No client is made to read.
FairSpec == Spec /\ WF_vars(router_main_loop)

-----------------------------------------------------------------------------
(* Properties *)

\* The router uses the event loop as AwokeEvent says its users do, so that what
\* holds there of tables, sets and turns holds here.
LoopSpec == Evl!Spec

\* A running application's descriptor is its own: the connection behind it
\* associated under that id.  The exception is an entry whose descriptor was
\* closed after router_fdt_app_associate had made it, until the application
\* associates on another.
TableExact ==
    \A a \in Items :
        item[a].status = "app_running" /\ <<a, item[a].fd>> \notin orphaned =>
            item[a].fd # 0 /\ peer[item[a].fd] # NoConn /\ rid[peer[item[a].fd]] = a

\* The client behind the descriptor that was closed under application a.
Inherits(c, a) == \E fd \in Fds : <<a, fd>> \in orphaned /\ peer[fd] = c

\* A message reaches only the application it is for, or everyone's, with the
\* one exception the error path of router_listener_proc makes: the client
\* that was given the descriptor closed under an application receives that
\* application's messages.  Nobody else does.
DeliveredToDestination ==
    \A c \in Conns : \A i \in DOMAIN got[c] :
        got[c][i].to \in {rid[c], Everyone} \/ Inherits(c, got[c][i].to)

\* What one connection sends to another arrives in order, and once.  (A client
\* that inherited a descriptor is behind two entries of the table and gets a
\* broadcast twice; it is the only one.)
InOrderOnce ==
    \A c \in Conns : \A i, j \in DOMAIN got[c] :
        i < j /\ got[c][i].from = got[c][j].from /\ (\A a \in Items : ~Inherits(c, a))
            => got[c][i].id < got[c][j].id

\* No client stays full for ever: it reads, or closes.
ClientsRead == \A c \in Conns : []<>(inbox[c] < MaxOut \/ c \in gone)

\* As long as the clients read, every message of an accepted connection is
\* read, also those it sent before it closed, or the router ends.  Without that
\* one client stops the router: rt_message_send is a blocking write.
Drained ==
    ClientsRead => \A c \in Conns : mask[c] # {} ~> (stream[c] = <<>> \/ ~alive)

=============================================================================
