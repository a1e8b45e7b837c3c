-------------------------- MODULE AwokeEventProofs --------------------------
(***************************************************************************)
(* The event loop's bookkeeping for any number of descriptors and events.  *)
(***************************************************************************)
EXTENDS AwokeEvent, TLAPS

USE EventAssumption

\* The part of the types that the proofs need.
Types ==
    /\ table \in [Fds -> Events \cup {NoEvent}]
    /\ rfds \in SUBSET Fds /\ wfds \in SUBSET Fds
    /\ maxFd \in Int
    /\ fdOf \in [Events -> Fds]
    /\ mask \in [Events -> SUBSET {"READ", "WRITE"}]
    /\ todo \in SUBSET Fds
    /\ sock \in [Fds -> {"closed", "listen", "conn"}]

\* An event that waits for its turn is still at the descriptor it was reported
\* for, or has been removed.
AtHome == \A fd \in todo : fired[fd] \in Events /\ fdOf[fired[fd]] = fd

\* A registered event's descriptor is open.
OpenFds == \A fd \in Fds : table[fd] # NoEvent => sock[fd] # "closed"

\* Waiting for writability always comes on top of waiting for data.
ReadMasks == \A e \in Events : mask[e] # {} => "READ" \in mask[e]

\* A loop that does not ask removes no event before its turn.
Unasked == listening # "none" \/ \A fd \in todo : mask[fired[fd]] # {}

IInv == Types /\ Consistent /\ MaxFdCovers /\ OpenFds /\ AtHome /\ ReadMasks /\ Unasked

LEMMA Initially == Init => IInv
  <1> SUFFICES ASSUME Init PROVE IInv
    OBVIOUS
  <1>1. CASE asks
    <2>1. Types
      BY <1>1 DEF Init, Types
    <2>2. Consistent
      BY <1>1 DEF Init, Consistent, Registered
    <2>3. MaxFdCovers /\ OpenFds /\ AtHome /\ ReadMasks /\ Unasked
      BY <1>1 DEF Init, MaxFdCovers, OpenFds, AtHome, ReadMasks, Unasked
    <2> QED BY <2>1, <2>2, <2>3 DEF IInv
  <1>2. CASE ~asks
    <2>1. Types
      BY <1>2 DEF Init, Types
    <2>2. Consistent
      BY <1>2 DEF Init, Consistent, Registered
    <2>3. MaxFdCovers /\ OpenFds /\ AtHome /\ ReadMasks /\ Unasked
      BY <1>2 DEF Init, MaxFdCovers, OpenFds, AtHome, ReadMasks, Unasked
    <2> QED BY <2>1, <2>2, <2>3 DEF IInv
  <1> QED BY <1>1, <1>2

\* The search of awoke_event_del ends at or above every event that is left.
LEMMA SearchCovers ==
    ASSUME IInv, NEW m \in Fds \cup {0, -1}, SearchEnd(m),
           NEW fd \in Fds, fd # maxFd, table[fd] # NoEvent
    PROVE  fd <= m
  <1>1. fd \in Nat /\ fd < maxFd /\ maxFd \in Int /\ m \in Int
    BY DEF IInv, Types, MaxFdCovers
  <1> QED BY <1>1 DEF SearchEnd

LEMMA DelKeeps ==
    ASSUME IInv, NEW e \in Events, Registered(e), awoke_event_del(e)
    PROVE  /\ Consistent' /\ MaxFdCovers' /\ ReadMasks'
           /\ table' = [table EXCEPT ![fdOf[e]] = NoEvent]
           /\ fdOf' = fdOf
           /\ table' \in [Fds -> Events \cup {NoEvent}]
           /\ rfds' \in SUBSET Fds /\ wfds' \in SUBSET Fds
           /\ maxFd' \in Int
           /\ mask' \in [Events -> SUBSET {"READ", "WRITE"}]
  <1>1. fdOf[e] \in Fds /\ table[fdOf[e]] = e
    BY DEF IInv, Types, Consistent
  <1>2. /\ table' = [table EXCEPT ![fdOf[e]] = NoEvent] /\ fdOf' = fdOf
        /\ mask' = [mask EXCEPT ![e] = {}]
        /\ table' \in [Fds -> Events \cup {NoEvent}]
        /\ mask' \in [Events -> SUBSET {"READ", "WRITE"}]
    BY <1>1 DEF awoke_event_del, IInv, Types
  <1>3. rfds' \in SUBSET Fds /\ wfds' \in SUBSET Fds
    BY DEF awoke_event_del, IInv, Types
  <1>4. maxFd' \in Int
    BY DEF awoke_event_del, IInv, Types
  <1>5. \A fd \in Fds : table'[fd] # NoEvent =>
            table'[fd] = table[fd] /\ table[fd] \in Events /\ table[fd] # e /\ mask'[table[fd]] = mask[table[fd]]
    BY <1>1, <1>2 DEF IInv, Types, Consistent
  <1>6. \A fd \in Fds : table'[fd] # NoEvent => Registered(table[fd])' /\ fdOf'[table'[fd]] = fd
    BY <1>2, <1>5 DEF IInv, Consistent, Registered
  <1>7. \A d \in Events : mask'[d] # {} => table'[fdOf'[d]] = d
    BY <1>1, <1>2 DEF IInv, Types, Consistent, Registered
  <1>8. rfds' = {fd \in Fds : table'[fd] # NoEvent /\ "READ" \in mask'[table'[fd]]}
    <2>1. rfds' = rfds \ {fdOf[e]}
      BY <1>1 DEF awoke_event_del, IInv, Consistent
    <2> QED BY <1>1, <1>2, <1>5, <2>1 DEF IInv, Consistent, Types
  <1>9. wfds' = {fd \in Fds : table'[fd] # NoEvent /\ "WRITE" \in mask'[table'[fd]]}
    <2>1. wfds' = wfds \ {fdOf[e]}
      BY <1>1 DEF awoke_event_del, IInv, Consistent
    <2> QED BY <1>1, <1>2, <1>5, <2>1 DEF IInv, Consistent, Types
  <1>10. Consistent'
    BY <1>2, <1>5, <1>6, <1>7, <1>8, <1>9 DEF Consistent, Registered
  <1>11. MaxFdCovers'
    <2> SUFFICES ASSUME NEW fd \in Fds, table'[fd] # NoEvent PROVE fd <= maxFd'
      BY DEF MaxFdCovers
    <2>1. table[fd] # NoEvent /\ fd # fdOf[e]
      BY <1>1, <1>2 DEF IInv, Types
    <2>2. CASE fdOf[e] # maxFd /\ UNCHANGED maxFd
      BY <2>1, <2>2 DEF IInv, MaxFdCovers
    <2>3. CASE fdOf[e] = maxFd /\ \E m \in Fds \cup {0, -1} : SearchEnd(m) /\ maxFd' = m
      BY <2>1, <2>3, SearchCovers
    <2> QED BY <2>2, <2>3 DEF awoke_event_del
  <1>12. ReadMasks'
    BY <1>2 DEF IInv, Types, ReadMasks
  <1> QED BY <1>2, <1>3, <1>4, <1>10, <1>11, <1>12

\* Turns are taken; nothing else about the round changes.
LEMMA AdvanceKeeps ==
    ASSUME IInv, NEW fd \in Fds, Advance(fd), fdOf' = fdOf
    PROVE  todo' \in SUBSET Fds /\ AtHome'
  BY DEF Advance, IInv, Types, AtHome

LEMMA CurrentEvent ==
    ASSUME IInv, NEW fd \in Fds, Advance(fd)
    PROVE  fired[fd] \in Events /\ fdOf[fired[fd]] = fd
  BY DEF Advance, Turn, IInv, AtHome

\* Whoever is served is registered.
LEMMA ServedRegistered ==
    ASSUME IInv, NEW fd \in Fds, HandleConnection(fd)
    PROVE  Advance(fd) /\ fired[fd] \in Events /\ fdOf[fired[fd]] = fd /\ Registered(fired[fd])
  <1>1. Advance(fd)
    BY DEF HandleConnection, Handle, Serve
  <1>2. fired[fd] \in Events /\ fdOf[fired[fd]] = fd
    BY <1>1, CurrentEvent
  <1>3. CASE Handle(fd)
    BY <1>1, <1>2, <1>3 DEF Handle, awoke_event_ready, Registered
  <1>4. CASE Serve(fd)
    BY <1>1, <1>2, <1>4 DEF Serve, Advance, Turn, IInv, Unasked, Registered, asks
  <1> QED BY <1>1, <1>2, <1>3, <1>4 DEF HandleConnection

\* Turns that are left stay as good as they were while the masks stay.
LEMMA UnaskedKept ==
    ASSUME IInv, fired' = fired, listening' = listening, todo' \subseteq todo, mask' = mask
    PROVE  Unasked'
  BY DEF IInv, Unasked

\* A step that leaves the loop's own state alone.
LEMMA LoopUnchanged ==
    ASSUME IInv, UNCHANGED loop, todo' \in SUBSET Fds, AtHome', Unasked',
           sock' \in [Fds -> {"closed", "listen", "conn"}],
           \A fd \in Fds : sock[fd] # "closed" => sock'[fd] # "closed"
    PROVE  IInv'
  BY DEF IInv, Types, Consistent, Registered, MaxFdCovers, OpenFds, ReadMasks, loop

\* A connection on a descriptor that was closed is registered.
LEMMA AddKeeps ==
    ASSUME IInv, NEW e \in Events, NEW fd \in Fds, NextFree(fd), ~Registered(e),
           awoke_event_add(e, fd, {"READ"}), sock' = [sock EXCEPT ![fd] = "conn"],
           todo' \subseteq todo, fired' = fired, \A f \in todo : fired[f] # e,
           listening' = listening
    PROVE  IInv'
  <1>1. CASE awoke_event_add(e, fd, {"READ"}) /\ sock' = [sock EXCEPT ![fd] = "conn"]
    <2>1. sock[fd] = "closed" /\ table[fd] = NoEvent /\ mask[e] = {}
      BY DEF NextFree, IInv, OpenFds, Registered
    <2>2. /\ table' = [table EXCEPT ![fd] = e] /\ fdOf' = [fdOf EXCEPT ![e] = fd]
          /\ mask' = [mask EXCEPT ![e] = {"READ"}]
          /\ rfds' = rfds \cup {fd} /\ wfds' = wfds
          /\ maxFd' = IF fd > maxFd THEN fd ELSE maxFd
      BY <1>1 DEF awoke_event_add
    <2>3. todo' \subseteq todo /\ fired' = fired /\ \A f \in todo : fired[f] # e
      OBVIOUS
    <2>4. Types'
      <3>1. table' \in [Fds -> Events \cup {NoEvent}] /\ fdOf' \in [Events -> Fds]
        BY <2>2 DEF IInv, Types
      <3>2. mask' \in [Events -> SUBSET {"READ", "WRITE"}]
        BY <2>2 DEF IInv, Types
      <3>3. maxFd' \in Int
        BY <2>2 DEF IInv, Types
      <3>4. sock' \in [Fds -> {"closed", "listen", "conn"}]
        BY <1>1 DEF IInv, Types
      <3>5. rfds' \in SUBSET Fds /\ wfds' \in SUBSET Fds /\ todo' \in SUBSET Fds
        BY <2>2, <2>3 DEF IInv, Types
      <3> QED BY <3>1, <3>2, <3>3, <3>4, <3>5 DEF Types
    <2>5. \A f \in Fds : f # fd => table'[f] = table[f]
      BY <2>2 DEF IInv, Types
    <2>6. \A f \in Fds : f # fd /\ table[f] # NoEvent =>
              table[f] \in Events /\ table[f] # e /\ mask'[table[f]] = mask[table[f]]
                /\ fdOf'[table[f]] = fdOf[table[f]]
      BY <2>1, <2>2 DEF IInv, Types, Consistent, Registered
    <2>7. table'[fd] = e /\ mask'[e] = {"READ"} /\ fdOf'[e] = fd
      BY <2>2 DEF IInv, Types
    <2>8. \A f \in Fds : table'[f] # NoEvent => mask'[table'[f]] # {} /\ fdOf'[table'[f]] = f
      BY <2>5, <2>6, <2>7 DEF IInv, Consistent, Registered
    <2>9. \A d \in Events : mask'[d] # {} => table'[fdOf'[d]] = d
      <3> SUFFICES ASSUME NEW d \in Events, mask'[d] # {} PROVE table'[fdOf'[d]] = d
        OBVIOUS
      <3>1. CASE d = e
        BY <2>7, <3>1
      <3>2. CASE d # e
        <4>1. mask[d] # {} /\ fdOf'[d] = fdOf[d] /\ fdOf[d] \in Fds
          BY <2>2, <3>2 DEF IInv, Types
        <4>2. table[fdOf[d]] = d /\ fdOf[d] # fd
          BY <2>1, <4>1 DEF IInv, Consistent, Registered
        <4> QED BY <2>5, <4>1, <4>2
      <3> QED BY <3>1, <3>2
    <2>10. rfds' = {f \in Fds : table'[f] # NoEvent /\ "READ" \in mask'[table'[f]]}
      <3>1. table'[fd] # NoEvent /\ "READ" \in mask'[table'[fd]]
        BY <2>7
      <3>2. \A f \in Fds : f # fd =>
                (f \in rfds <=> table'[f] # NoEvent /\ "READ" \in mask'[table'[f]])
        BY <2>5, <2>6 DEF IInv, Consistent
      <3> QED BY <2>2, <3>1, <3>2 DEF IInv, Types
    <2>11. wfds' = {f \in Fds : table'[f] # NoEvent /\ "WRITE" \in mask'[table'[f]]}
      <3>1. fd \notin wfds /\ "WRITE" \notin mask'[table'[fd]]
        BY <2>1, <2>7 DEF IInv, Consistent
      <3>2. \A f \in Fds : f # fd =>
                (f \in wfds <=> table'[f] # NoEvent /\ "WRITE" \in mask'[table'[f]])
        BY <2>5, <2>6 DEF IInv, Consistent
      <3> QED BY <2>2, <3>1, <3>2 DEF IInv, Types
    <2>12. Consistent'
      BY <2>8, <2>9, <2>10, <2>11 DEF Consistent, Registered
    <2>13. MaxFdCovers'
      <3> SUFFICES ASSUME NEW f \in Fds, table'[f] # NoEvent PROVE f <= maxFd'
        BY DEF MaxFdCovers
      <3>1. f \in Nat /\ fd \in Nat /\ maxFd \in Int
        BY DEF IInv, Types
      <3>2. CASE f = fd
        BY <2>2, <3>1, <3>2
      <3>3. CASE f # fd
        <4>1. f <= maxFd
          BY <2>5, <3>3 DEF IInv, MaxFdCovers
        <4> QED BY <2>2, <3>1, <4>1
      <3> QED BY <3>2, <3>3
    <2>14. OpenFds'
      BY <1>1, <2>5 DEF IInv, OpenFds, Types
    <2>15. AtHome'
      BY <2>2, <2>3 DEF IInv, AtHome, Types
    <2>16. ReadMasks'
      BY <2>2 DEF IInv, ReadMasks, Types
    <2>17. \A f \in todo' : mask'[fired'[f]] = mask[fired[f]]
      BY <2>2, <2>3 DEF IInv, AtHome, Types
    <2>18. Unasked'
      BY <2>3, <2>17 DEF IInv, Unasked
    <2> QED BY <2>4, <2>12, <2>13, <2>14, <2>15, <2>16, <2>18 DEF IInv
  <1> QED BY <1>1

LEMMA AcceptKeeps ==
    ASSUME IInv, NEW lfd \in Fds, NEW e \in Events, NEW fd \in Fds, HandleAccept(lfd, e, fd)
    PROVE  IInv'
  <1>1. /\ NextFree(fd) /\ ~Registered(e) /\ awoke_event_add(e, fd, {"READ"})
        /\ sock' = [sock EXCEPT ![fd] = "conn"] /\ \A f \in todo : fired[f] # e
    BY DEF HandleAccept
  <1>2. todo' \subseteq todo /\ fired' = fired /\ listening' = listening
    BY DEF HandleAccept, Handle, Advance
  <1> QED BY <1>1, <1>2, AddKeeps

LEMMA OpenKeeps ==
    ASSUME IInv, NEW e \in Events, NEW fd \in Fds, OpenConnection(e, fd)
    PROVE  IInv'
  <1>1. /\ NextFree(fd) /\ ~Registered(e) /\ awoke_event_add(e, fd, {"READ"})
        /\ sock' = [sock EXCEPT ![fd] = "conn"]
    BY DEF OpenConnection
  <1>2. todo = {} /\ todo' \subseteq todo /\ fired' = fired /\ listening' = listening
    BY DEF OpenConnection, BetweenRounds, Dispatching, round
  <1>3. \A f \in todo : fired[f] # e
    BY <1>2
  <1> QED BY <1>1, <1>2, <1>3, AddKeeps

LEMMA DropKeeps ==
    ASSUME IInv, NEW fd \in Fds, DropEvent(fd)
    PROVE  IInv'
  <1>1. Advance(fd) /\ awoke_event_del(fired[fd]) /\ UNCHANGED kernel /\ mask[fired[fd]] = {"READ"}
    BY DEF DropEvent
  <1>2. fired[fd] \in Events /\ Registered(fired[fd])
    BY <1>1, CurrentEvent DEF Registered
  <1>3. /\ Consistent' /\ MaxFdCovers' /\ ReadMasks' /\ fdOf' = fdOf
        /\ table' = [table EXCEPT ![fdOf[fired[fd]]] = NoEvent]
        /\ table' \in [Fds -> Events \cup {NoEvent}]
        /\ rfds' \in SUBSET Fds /\ wfds' \in SUBSET Fds
        /\ maxFd' \in Int
        /\ mask' \in [Events -> SUBSET {"READ", "WRITE"}]
    BY <1>1, <1>2, DelKeeps
  <1>4. todo' \in SUBSET Fds /\ AtHome'
    BY <1>1, <1>3, AdvanceKeeps
  <1>5. OpenFds'
    BY <1>1, <1>3 DEF kernel, IInv, OpenFds, Types
  <1>6. Types'
    BY <1>1, <1>3, <1>4 DEF kernel, IInv, Types
  <1>7. Unasked'
    BY DEF DropEvent, Advance, Unasked, asks
  <1> QED BY <1>3, <1>4, <1>5, <1>6, <1>7 DEF IInv

LEMMA CloseKeeps ==
    ASSUME IInv, NEW e \in Events, Close(e), todo' \subseteq todo, AtHome', Unasked'
    PROVE  IInv'
  <1>1. awoke_event_del(e) /\ Registered(e) /\ sock' = [sock EXCEPT ![fdOf[e]] = "closed"]
    BY DEF Close
  <1>2. /\ Consistent' /\ MaxFdCovers' /\ ReadMasks' /\ fdOf' = fdOf
        /\ table' = [table EXCEPT ![fdOf[e]] = NoEvent]
        /\ table' \in [Fds -> Events \cup {NoEvent}]
        /\ rfds' \in SUBSET Fds /\ wfds' \in SUBSET Fds
        /\ maxFd' \in Int
        /\ mask' \in [Events -> SUBSET {"READ", "WRITE"}]
    BY <1>1, DelKeeps
  <1>3. todo' \in SUBSET Fds
    BY DEF IInv, Types
  <1>4. OpenFds'
    BY <1>1, <1>2 DEF IInv, OpenFds, Types
  <1>5. sock' \in [Fds -> {"closed", "listen", "conn"}]
    BY <1>1 DEF IInv, Types
  <1>6. Types'
    BY <1>2, <1>3, <1>5 DEF IInv, Types
  <1> QED BY <1>2, <1>3, <1>4, <1>6 DEF IInv

\* A handler of micro-talk closes its own connection, which has had its turn.
LEMMA HandleCloseKeeps ==
    ASSUME IInv, NEW fd \in Fds, NEW e \in Events, HandleClose(fd, e)
    PROVE  IInv'
  <1>1. Close(e) /\ (asks \/ e = fired[fd])
    BY DEF HandleClose
  <1>2. Advance(fd) /\ fired[fd] \in Events /\ fdOf[fired[fd]] = fd
    BY ServedRegistered DEF HandleClose
  <1>3. fdOf' = fdOf /\ mask' = [mask EXCEPT ![e] = {}]
    BY <1>1 DEF Close, awoke_event_del
  <1>4. /\ todo' = todo \ {fd} /\ fired' = fired /\ listening' = listening
    BY <1>2 DEF Advance
  <1>5. AtHome'
    BY <1>2, <1>3, AdvanceKeeps
  <1>6. ASSUME ~asks, NEW f \in todo' PROVE mask'[fired'[f]] # {}
    <2>1. fired[f] \in Events /\ fired[f] # e /\ mask[fired[f]] # {}
      BY <1>1, <1>2, <1>4, <1>6 DEF IInv, AtHome, Unasked, asks
    <2> QED BY <1>3, <1>4, <2>1 DEF IInv, Types
  <1>7. Unasked'
    BY <1>4, <1>6 DEF Unasked, asks
  <1> QED BY <1>1, <1>4, <1>5, <1>7, CloseKeeps

LEMMA IdleCloseKeeps ==
    ASSUME IInv, NEW e \in Events, CloseConnection(e)
    PROVE  IInv'
  <1>1. Close(e) /\ todo' = {} /\ todo' \subseteq todo
    BY DEF CloseConnection, BetweenRounds, Dispatching, round
  <1>2. AtHome' /\ Unasked'
    BY <1>1 DEF AtHome, Unasked
  <1> QED BY <1>1, <1>2, CloseKeeps

LEMMA MaskKeeps ==
    ASSUME IInv, NEW e \in Events, Registered(e), mtk_event_change_mask(e),
           todo' \subseteq todo, fired' = fired, listening' = listening
    PROVE  IInv'
  <1> DEFINE new == IF "WRITE" \in mask[e] THEN {"READ"} ELSE {"READ", "WRITE"}
             fd == fdOf[e]
  <1>1. /\ wfds' = IF "WRITE" \in new THEN wfds \cup {fdOf[e]} ELSE wfds \ {fdOf[e]}
        /\ mask' = [mask EXCEPT ![e] = new]
        /\ UNCHANGED <<table, rfds, fdOf, maxFd, kernel>>
    BY DEF mtk_event_change_mask
  <1>2. fd \in Fds /\ fdOf[e] = fd /\ mask[e] # {}
    BY DEF Registered, IInv, Types
  <1>3. table[fd] = e /\ e # NoEvent
    BY <1>2 DEF IInv, Consistent, Registered
  <1>4. todo' \in SUBSET Fds /\ AtHome'
    BY <1>1 DEF IInv, Types, AtHome
  <1>5. mask' \in [Events -> SUBSET {"READ", "WRITE"}] /\ wfds' \in SUBSET Fds
    BY <1>1, <1>2 DEF IInv, Types
  <1>6. Types'
    BY <1>1, <1>4, <1>5 DEF IInv, Types, kernel
  <1>7. mask'[e] = new /\ \A d \in Events : d # e => mask'[d] = mask[d]
    BY <1>1, <1>2 DEF IInv, Types
  <1>8. \A f \in Fds : f # fd /\ table[f] # NoEvent => table[f] \in Events /\ table[f] # e
    BY <1>2 DEF IInv, Types, Consistent
  <1>9. \A f \in Fds : table'[f] # NoEvent => mask'[table'[f]] # {} /\ fdOf'[table'[f]] = f
    BY <1>1, <1>3, <1>7, <1>8 DEF IInv, Consistent, Registered
  <1>10. \A d \in Events : mask'[d] # {} => table'[fdOf'[d]] = d
    BY <1>1, <1>2, <1>3, <1>7 DEF IInv, Consistent, Registered
  <1>11. ReadMasks'
    BY <1>7 DEF IInv, ReadMasks
  <1>12. rfds' = {f \in Fds : table'[f] # NoEvent /\ "READ" \in mask'[table'[f]]}
    <2>1. fd \in rfds /\ "READ" \in mask'[table'[fd]]
      BY <1>1, <1>2, <1>3, <1>7 DEF IInv, Consistent, ReadMasks
    <2>2. \A f \in Fds : f # fd =>
              (f \in rfds <=> table'[f] # NoEvent /\ "READ" \in mask'[table'[f]])
      BY <1>1, <1>7, <1>8 DEF IInv, Consistent
    <2> QED BY <1>1, <1>3, <2>1, <2>2 DEF IInv, Types
  <1>13. wfds' = {f \in Fds : table'[f] # NoEvent /\ "WRITE" \in mask'[table'[f]]}
    <2>1. fd \in wfds' <=> "WRITE" \in mask'[table'[fd]]
      BY <1>1, <1>2, <1>3, <1>7
    <2>2. \A f \in Fds : f # fd =>
              (f \in wfds <=> table'[f] # NoEvent /\ "WRITE" \in mask'[table'[f]])
      BY <1>1, <1>7, <1>8 DEF IInv, Consistent
    <2>3. \A f \in Fds : f # fd => (f \in wfds <=> f \in wfds')
      BY <1>1, <1>2
    <2> HIDE DEF fd, new
    <2> QED BY <1>1, <1>3, <1>5, <2>1, <2>2, <2>3
  <1>14. Consistent'
    BY <1>9, <1>10, <1>12, <1>13 DEF Consistent, Registered
  <1>15. MaxFdCovers' /\ OpenFds'
    BY <1>1 DEF IInv, MaxFdCovers, OpenFds, kernel
  <1>16. \A d \in Events : mask[d] # {} => mask'[d] # {}
    BY <1>7
  <1>17. Unasked'
    BY <1>16 DEF IInv, Unasked, AtHome
  <1> QED BY <1>4, <1>6, <1>11, <1>14, <1>15, <1>17 DEF IInv

LEMMA HandleMaskKeeps ==
    ASSUME IInv, NEW fd \in Fds, HandleMask(fd)
    PROVE  IInv'
  <1>1. HandleConnection(fd) /\ mtk_event_change_mask(fired[fd])
    BY DEF HandleMask
  <1>2. Advance(fd) /\ fired[fd] \in Events /\ Registered(fired[fd])
    BY <1>1, ServedRegistered
  <1>3. todo' \subseteq todo /\ fired' = fired /\ listening' = listening
    BY <1>2 DEF Advance
  <1> QED BY <1>1, <1>2, <1>3, MaskKeeps

LEMMA AskKeeps ==
    ASSUME IInv, NEW e \in Events, AskToWrite(e)
    PROVE  IInv'
  BY MaskKeeps DEF AskToWrite, BetweenRounds, round

\* What select reported is registered.
LEMMA WaitKeeps ==
    ASSUME IInv, awoke_event_wait
    PROVE  IInv'
  <1>1. todo' = Reported /\ UNCHANGED <<loop, kernel>>
        /\ fired' = [fd \in Fds |-> IF fd \in Reported THEN table[fd] ELSE NoEvent]
    BY DEF awoke_event_wait
  <1>2. Reported \subseteq Fds /\ \A fd \in Reported : table[fd] # NoEvent
    BY DEF Reported, Readable, Writable, IInv, Types
  <1>3. AtHome'
    BY <1>1, <1>2 DEF AtHome, IInv, Types, Consistent, loop
  <1>4. \A fd \in Reported : fired'[fd] \in Events /\ mask[fired'[fd]] # {}
    BY <1>1, <1>2 DEF IInv, Types, Consistent, Registered
  <1>5. Unasked'
    BY <1>1, <1>4 DEF Unasked, loop
  <1> QED BY <1>1, <1>2, <1>3, <1>5, LoopUnchanged DEF kernel, IInv, Types

\* A turn in which the loop's own state stays as it is.
LEMMA TurnKeeps ==
    ASSUME IInv, NEW fd \in Fds, Advance(fd), UNCHANGED loop, UNCHANGED sock
    PROVE  IInv'
  <1>1. todo' \in SUBSET Fds /\ AtHome'
    BY AdvanceKeeps DEF loop
  <1>2. Unasked'
    BY UnaskedKept DEF Advance, loop
  <1> QED BY <1>1, <1>2, LoopUnchanged DEF IInv, Types

\* Peers only touch the kernel's queues.
LEMMA PeersKeep ==
    ASSUME IInv, UNCHANGED <<loop, round, sock, listening>>
    PROVE  IInv'
  <1>1. AtHome' /\ todo' \in SUBSET Fds
    BY DEF IInv, Types, AtHome, loop, round
  <1>2. Unasked'
    BY UnaskedKept DEF round, loop
  <1> QED BY <1>1, <1>2, LoopUnchanged DEF IInv, Types

\* The inductive invariant holds in every reachable state of the loop.
THEOREM Invariance == Spec => []IInv
  <1>1. Init => IInv
    BY Initially
  <1>2. IInv /\ [Next]_vars => IInv'
    <2> SUFFICES ASSUME IInv, [Next]_vars PROVE IInv'
      OBVIOUS
    <2>1. CASE Connect
      BY <2>1, PeersKeep DEF Connect
    <2>2. CASE \E fd \in Fds : Send(fd) \/ PeerCloses(fd)
      BY <2>2, PeersKeep DEF Send, PeerCloses
    <2>3. CASE awoke_event_wait
      BY <2>3, WaitKeeps
    <2>4. ASSUME NEW fd \in Fds, DropEvent(fd) PROVE IInv'
      BY <2>4, DropKeeps
    <2>5. ASSUME NEW fd \in Fds, SkipEvent(fd) PROVE IInv'
      BY <2>5, TurnKeeps DEF SkipEvent, kernel
    <2>6. ASSUME NEW fd \in Fds, NEW e \in Events, NEW new \in Fds, HandleAccept(fd, e, new) PROVE IInv'
      BY <2>6, AcceptKeeps
    <2>7. ASSUME NEW fd \in Fds, HandleAcceptFails(fd) PROVE IInv'
      BY <2>7, TurnKeeps DEF HandleAcceptFails, Handle, kernel
    <2>12. ASSUME NEW fd \in Fds, NEW new \in Fds, HandleRefuse(fd, new) PROVE IInv'
      BY <2>12, TurnKeeps DEF HandleRefuse, Handle
    <2>8. ASSUME NEW fd \in Fds, HandleRead(fd) PROVE IInv'
      BY <2>8, TurnKeeps, ServedRegistered DEF HandleRead
    <2>9. ASSUME NEW fd \in Fds, NEW e \in Events, HandleClose(fd, e) PROVE IInv'
      BY <2>9, HandleCloseKeeps
    <2>10. ASSUME NEW fd \in Fds, HandleMask(fd) PROVE IInv'
      BY <2>10, HandleMaskKeeps
    <2>11. CASE UNCHANGED vars
      BY <2>11, PeersKeep DEF vars, kernel
    <2>13. ASSUME NEW e \in Events, NEW fd \in Fds, OpenConnection(e, fd) PROVE IInv'
      BY <2>13, OpenKeeps
    <2>14. ASSUME NEW e \in Events, CloseConnection(e) \/ AskToWrite(e) PROVE IInv'
      BY <2>14, IdleCloseKeeps, AskKeeps
    <2>15. CASE Loop
      BY <2>3, <2>4, <2>5, <2>6, <2>7, <2>8, <2>9, <2>10, <2>12, <2>15 DEF Loop
    <2>16. CASE User
      BY <2>13, <2>14, <2>16 DEF User
    <2> QED BY <2>1, <2>2, <2>11, <2>15, <2>16 DEF Next, Peers
  <1> QED BY <1>1, <1>2, PTL DEF Spec

\* The table, the events and the sets given to select always agree
\* (awoke_event_add, awoke_event_del and the handlers that call them).
THEOREM LoopConsistent == Spec => []Consistent
  <1>1. IInv => Consistent
    BY DEF IInv
  <1> QED BY <1>1, Invariance, PTL

\* max_fd is never below a registered descriptor, however removals lower it.
THEOREM MaxFdAlwaysCovers == Spec => []MaxFdCovers
  <1>1. IInv => MaxFdCovers
    BY DEF IInv
  <1> QED BY <1>1, Invariance, PTL

\* select is never given a closed descriptor.
THEOREM NeverClosedFd == Spec => []NoClosedFd
  <1>1. IInv => NoClosedFd
    BY DEF IInv, NoClosedFd, Consistent, OpenFds, Types
  <1> QED BY <1>1, Invariance, PTL

\* No handler runs for an event that an earlier handler of the round removed,
\* in a loop that asks awoke_event_ready and in micro-talk's, which does not.
THEOREM TurnsNeverStale == Spec => []NoStaleTurn
  <1>1. ASSUME IInv, NEW fd \in todo, asks => awoke_event_ready(fired[fd])
        PROVE  table[fd] = fired[fd] /\ fdOf[fired[fd]] = fd
    <2>1. fired[fd] \in Events /\ fdOf[fired[fd]] = fd
      BY <1>1 DEF IInv, AtHome
    <2>2. Registered(fired[fd])
      <3>1. CASE asks
        BY <1>1, <3>1 DEF awoke_event_ready, Registered
      <3>2. CASE ~asks
        BY <1>1, <3>2 DEF IInv, Unasked, Registered, asks
      <3> QED BY <3>1, <3>2
    <2> QED BY <1>1, <2>1, <2>2 DEF IInv, Consistent
  <1>2. IInv => NoStaleTurn
    BY <1>1 DEF NoStaleTurn
  <1> QED BY <1>2, Invariance, PTL

=============================================================================
