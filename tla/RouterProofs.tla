---------------------------- MODULE RouterProofs ----------------------------
(***************************************************************************)
(* What the router does with messages, for any number of applications,     *)
(* connections, descriptors and messages: the forward table is exact, a    *)
(* message reaches its destination only, in order and once.  A descriptor  *)
(* is never closed while the table holds it, but for the pairs in          *)
(* `orphaned'; so the descriptors that accept returns are never those of   *)
(* another application, except for the heir of such a pair.  The router is *)
(* also shown to use the event loop as AwokeEvent allows, which gives it   *)
(* the loop's own theorems.                                                *)
(***************************************************************************)
EXTENDS Router, FiniteSetTheorems, TLAPS

USE RouterAssumption

Sendable == [from : Conns, id : Nat, to : Dests \cup {Nobody}]
Entries == [fd : Fds \cup {0}, status : {"app_not_run", "app_running"}]

Types ==
    /\ item \in [Items -> Entries]
    /\ peer \in [Fds -> Conns \cup {NoConn}]
    /\ rid \in [Conns -> Items \cup {Nobody}]
    /\ stream \in [Conns -> Seq(Sendable)]
    /\ sent \in [Conns -> Nat]
    /\ got \in [Conns -> Seq(Sendable)]

\* An application that does not run has no descriptor, and a connection that was
\* accepted, or has received anything, has associated.
Associated ==
    /\ \A a \in Items : item[a].status # "app_running" => item[a].fd = 0
    /\ \A fd \in Fds : peer[fd] # NoConn => rid[peer[fd]] # Nobody
    /\ \A c \in Conns : got[c] # <<>> => rid[c] # Nobody

\* The unread messages of a connection are its latest, in order.
Unread(c) ==
    /\ Len(stream[c]) <= sent[c]
    /\ \A k \in DOMAIN stream[c] :
          stream[c][k].from = c /\ stream[c][k].id = sent[c] - Len(stream[c]) + k - 1

\* What was delivered had been read before.
Delivered(c) ==
    \A i \in DOMAIN got[c] :
        got[c][i].id < sent[got[c][i].from] - Len(stream[got[c][i].from])

IInv ==
    /\ Types /\ Associated /\ TableExact /\ DeliveredToDestination /\ InOrderOnce
    /\ \A c \in Conns : Unread(c) /\ Delivered(c)

\* An event in the loop that is not the listener's has a connection behind it.
Attached ==
    /\ table \in [Fds -> Conns \cup {Listener, NoEvent}]
    /\ \A fd \in Fds : table[fd] \in {NoEvent, Listener} \/ peer[fd] # NoConn
    /\ \A fd \in Fds : fd \in todo => fired[fd] = Listener \/ peer[fd] # NoConn

LEMMA Initially == Init => IInv /\ Attached
  <1> SUFFICES ASSUME Init PROVE IInv /\ Attached
    OBVIOUS
  <1>1. Types
    BY DEF Init, Types, Entries, RegisteredItem
  <1>2. Associated
    BY DEF Init, Associated, RegisteredItem
  <1>3. TableExact /\ DeliveredToDestination /\ InOrderOnce
    BY DEF Init, TableExact, DeliveredToDestination, InOrderOnce, RegisteredItem
  <1>4. ASSUME NEW c \in Conns PROVE Unread(c) /\ Delivered(c)
    BY DEF Init, Unread, Delivered
  <1>5. Attached
    BY DEF Init, Attached
  <1> QED BY <1>1, <1>2, <1>3, <1>4, <1>5 DEF IInv

\* Once the heir of a descriptor, always: no connection leaves its descriptor.
LEMMA HeirsKept ==
    ASSUME orphaned \subseteq orphaned', \A fd \in Fds : peer[fd] \in Conns => peer'[fd] = peer[fd],
           NEW c \in Conns, NEW a, Inherits(c, a)
    PROVE  Inherits(c, a)'
  BY DEF Inherits

\* Steps that move no message and change no association.
LEMMA Kept == ASSUME IInv, UNCHANGED <<item, peer, rid, stream, sent, got, orphaned>> PROVE IInv'
  <1>1. Types' /\ Associated'
    BY DEF IInv, Types, Associated
  <1>2. TableExact' /\ DeliveredToDestination' /\ InOrderOnce'
    BY DEF IInv, TableExact, DeliveredToDestination, InOrderOnce, Inherits
  <1>3. ASSUME NEW c \in Conns PROVE (Unread(c) /\ Delivered(c))'
    BY DEF IInv, Unread, Delivered
  <1> QED BY <1>1, <1>2, <1>3 DEF IInv

LEMMA Senders == ASSUME Types, NEW c \in Conns, NEW i \in DOMAIN got[c] PROVE got[c][i].from \in Conns
  <1>1. got[c] \in Seq(Sendable)
    BY DEF Types
  <1>2. got[c][i] \in Sendable
    BY <1>1
  <1> QED BY <1>2 DEF Sendable

-----------------------------------------------------------------------------
(* Clients *)

LEMMA ConnectKeeps ==
    ASSUME IInv, NEW c \in Conns, NEW a \in Items, rt_message_connect(c, a) PROVE IInv'
  <1> USE DEF rt_message_connect, written
  <1>0. rid[c] = Nobody /\ Nobody \notin Items /\ a # Nobody
    BY DEF Items
  <1>1. Types'
    BY DEF IInv, Types
  <1>2. Associated'
    BY <1>0 DEF IInv, Types, Associated
  <1>3. TableExact'
    BY <1>0 DEF IInv, Types, TableExact
  <1>4. DeliveredToDestination'
    <2>1. ASSUME NEW d \in Conns, NEW i \in DOMAIN got[d]
          PROVE  got[d][i].to \in {rid'[d], Everyone} \/ Inherits(d, got[d][i].to)'
      <3>1. d # c
        BY <1>0 DEF IInv, Types, Associated
      <3> QED BY <3>1 DEF IInv, Types, DeliveredToDestination, Inherits
    <2> QED BY <2>1 DEF DeliveredToDestination
  <1>5. InOrderOnce'
    BY DEF IInv, InOrderOnce, Inherits
  <1>6. ASSUME NEW d \in Conns PROVE (Unread(d) /\ Delivered(d))'
    BY DEF IInv, Unread, Delivered
  <1> QED BY <1>1, <1>2, <1>3, <1>4, <1>5, <1>6 DEF IInv

LEMMA SameGap == ASSUME NEW a \in Int, NEW b \in Int PROVE (a + 1) - (b + 1) = a - b
  OBVIOUS

LEMMA PutKeeps ==
    ASSUME IInv, NEW c \in Conns, NEW to \in Dests \cup {Nobody}, Put(c, to) PROVE IInv'
  <1> DEFINE m == Msg(c, to)
  <1>0. /\ UNCHANGED <<item, peer, rid, got, orphaned>>
        /\ sent[c] \in Nat /\ stream[c] \in Seq(Sendable) /\ Len(stream[c]) \in Nat
        /\ m \in Sendable /\ m.from = c /\ m.id = sent[c]
    <2>1. sent[c] \in Nat /\ stream[c] \in Seq(Sendable) /\ Len(stream[c]) \in Nat
      BY DEF IInv, Types
    <2>2. m \in Sendable /\ m.from = c /\ m.id = sent[c]
      BY <2>1 DEF Msg, Sendable
    <2> QED BY <2>1, <2>2 DEF Put, written
  <1>a. /\ sent' \in [Conns -> Nat] /\ sent'[c] = sent[c] + 1
        /\ \A d \in Conns : d # c => sent'[d] = sent[d]
    BY <1>0 DEF Put, IInv, Types
  <1>b. /\ stream' = [stream EXCEPT ![c] = Append(@, m)]
        /\ \A d \in Conns : d # c => stream'[d] = stream[d]
    BY DEF Put, IInv, Types
  <1> HIDE DEF m
  <1>c. Append(stream[c], m) \in Seq(Sendable) /\ Len(Append(stream[c], m)) = Len(stream[c]) + 1
    BY <1>0
  <1>d. stream'[c] = Append(stream[c], m) /\ stream' \in [Conns -> Seq(Sendable)]
    BY <1>b, <1>c DEF IInv, Types
  <1>1. Types' /\ Associated'
    BY <1>0, <1>a, <1>d DEF IInv, Types, Associated
  <1>2. TableExact' /\ DeliveredToDestination' /\ InOrderOnce'
    BY <1>0 DEF IInv, TableExact, DeliveredToDestination, InOrderOnce, Inherits
  <1>3. ASSUME NEW d \in Conns PROVE Unread(d)'
    <2>1. CASE d # c
      BY <2>1, <1>a, <1>b DEF IInv, Unread
    <2>2. CASE d = c
      <3>a. sent[c] \in Int /\ Len(stream[c]) \in Int
        BY <1>0
      <3>0. Unread(c) /\ sent'[c] - Len(stream'[c]) = sent[c] - Len(stream[c])
        BY <3>a, <1>a, <1>c, <1>d, SameGap, Zenon DEF IInv
      <3>1. Len(stream'[c]) <= sent'[c]
        BY <3>0, <1>0, <1>a, <1>c, <1>d DEF Unread
      <3>2. ASSUME NEW k \in DOMAIN stream'[c]
            PROVE  stream'[c][k].from = c /\ stream'[c][k].id = sent[c] - Len(stream[c]) + k - 1
        <4>0. k \in 1 .. Len(stream[c]) + 1 /\ DOMAIN stream[c] = 1 .. Len(stream[c])
          BY <3>2, <1>0, <1>c, <1>d
        <4>1. CASE k = Len(stream[c]) + 1
          <5>1. stream'[c][k] = m
            BY <4>1, <1>0, <1>d
          <5> QED BY <4>1, <5>1, <1>0
        <4>2. CASE k # Len(stream[c]) + 1
          <5>1. k \in DOMAIN stream[c]
            BY <4>0, <4>2, <1>0
          <5>2. stream'[c][k] = stream[c][k]
            BY <5>1, <4>0, <1>0, <1>d
          <5> QED BY <5>1, <5>2, <3>0 DEF Unread
        <4> QED BY <4>1, <4>2
      <3> QED BY <2>2, <3>0, <3>1, <3>2 DEF Unread
    <2> QED BY <2>1, <2>2
  <1>4. ASSUME NEW d \in Conns PROVE Delivered(d)'
    <2>1. ASSUME NEW f \in Conns PROVE sent'[f] - Len(stream'[f]) = sent[f] - Len(stream[f])
      <3>1. CASE f = c
        <4>1. Len(stream'[c]) = Len(stream[c]) + 1
          BY <1>c, <1>d
        <4>2. sent[c] \in Int /\ Len(stream[c]) \in Int
          BY <1>0
        <4> QED BY <3>1, <4>1, <4>2, <1>a, SameGap, Zenon
      <3>2. CASE f # c
        BY <3>2, <1>a, <1>b
      <3> QED BY <3>1, <3>2
    <2>2. ASSUME NEW i \in DOMAIN got[d] PROVE got[d][i].from \in Conns
      BY <2>2, Senders DEF IInv
    <2> QED BY <1>0, <2>1, <2>2 DEF IInv, Delivered
  <1> QED BY <1>1, <1>2, <1>3, <1>4 DEF IInv

-----------------------------------------------------------------------------
(* A message is read *)

LEMMA ReadKeeps ==
    ASSUME IInv, NEW c \in Conns, stream[c] # <<>>,
           stream' = [stream EXCEPT ![c] = Tail(@)], UNCHANGED sent
    PROVE  /\ stream' \in [Conns -> Seq(Sendable)]
           /\ \A d \in Conns : Unread(d)'
           /\ \A d \in Conns : sent[d] - Len(stream[d]) <= sent'[d] - Len(stream'[d])
           /\ sent'[c] - Len(stream'[c]) = sent[c] - Len(stream[c]) + 1
           /\ Head(stream[c]) \in Sendable
           /\ Head(stream[c]).from = c /\ Head(stream[c]).id = sent[c] - Len(stream[c])
           /\ sent[c] - Len(stream[c]) \in Nat
  <1> DEFINE s == stream[c]
  <1>0. s \in Seq(Sendable) /\ s # <<>> /\ Len(s) \in Nat \ {0} /\ sent[c] \in Nat /\ Unread(c)
    BY DEF IInv, Types
  <1>1. /\ Tail(s) \in Seq(Sendable) /\ Len(Tail(s)) = Len(s) - 1
        /\ Head(s) \in Sendable /\ Head(s) = s[1] /\ 1 \in DOMAIN s
        /\ DOMAIN s = 1 .. Len(s) /\ DOMAIN Tail(s) = 1 .. Len(s) - 1
        /\ \A k \in 1 .. Len(s) - 1 : Tail(s)[k] = s[k + 1] /\ k + 1 \in DOMAIN s
    BY <1>0
  <1>2. /\ stream'[c] = Tail(s) /\ \A d \in Conns : d # c => stream'[d] = stream[d]
        /\ stream' \in [Conns -> Seq(Sendable)]
    BY <1>1 DEF IInv, Types
  <1>3. sent[c] - Len(s) \in Nat /\ Head(s).from = c /\ Head(s).id = sent[c] - Len(s)
    <2>1. s[1].from = c /\ s[1].id = sent[c] - Len(s) + 1 - 1 /\ Len(s) <= sent[c]
      BY <1>0, <1>1 DEF Unread
    <2> HIDE DEF s
    <2>2. sent[c] - Len(s) \in Nat /\ sent[c] - Len(s) + 1 - 1 = sent[c] - Len(s)
      BY <1>0, <2>1
    <2> QED BY <1>1, <2>1, <2>2
  <1>4. sent'[c] - Len(stream'[c]) = sent[c] - Len(s) + 1
    <2>1. Len(stream'[c]) = Len(s) - 1 /\ sent'[c] = sent[c]
      BY <1>1, <1>2
    <2> HIDE DEF s
    <2> QED BY <1>0, <2>1
  <1>5. ASSUME NEW d \in Conns PROVE Unread(d)'
    <2>1. CASE d # c
      BY <1>2, <2>1 DEF IInv, Unread
    <2>2. CASE d = c
      <3>1. Len(stream'[c]) <= sent'[c]
        BY <1>0, <1>1, <1>2 DEF Unread
      <3>2. ASSUME NEW k \in DOMAIN stream'[c]
            PROVE  stream'[c][k].from = c /\ stream'[c][k].id = sent'[c] - Len(stream'[c]) + k - 1
        <4>1. k \in 1 .. Len(s) - 1 /\ stream'[c][k] = s[k + 1] /\ k + 1 \in DOMAIN s
          BY <1>1, <1>2, <3>2
        <4>2. s[k + 1].from = c /\ s[k + 1].id = sent[c] - Len(s) + (k + 1) - 1
          BY <1>0, <4>1 DEF Unread
        <4> HIDE DEF s
        <4>a. k \in Int /\ Len(s) \in Int /\ sent[c] \in Int
          BY <1>0, <4>1
        <4>3. sent[c] - Len(s) + (k + 1) - 1 = (sent[c] - Len(s) + 1) + k - 1
          BY <4>a
        <4> QED BY <1>4, <4>1, <4>2, <4>3
      <3> QED BY <2>2, <3>1, <3>2 DEF Unread
    <2> QED BY <2>1, <2>2
  <1>6. ASSUME NEW d \in Conns PROVE sent[d] - Len(stream[d]) <= sent'[d] - Len(stream'[d])
    <2>0. stream[d] \in Seq(Sendable) /\ sent[d] \in Nat
      BY DEF IInv, Types
    <2>1. CASE d = c
      BY <1>3, <1>4, <2>1
    <2>2. CASE d # c
      BY <1>2, <2>0, <2>2
    <2> QED BY <2>1, <2>2
  <1> QED BY <1>1, <1>2, <1>3, <1>4, <1>5, <1>6

-----------------------------------------------------------------------------
(* A message is forwarded *)

\* What was delivered stays read.
LEMMA StillDelivered ==
    ASSUME IInv, stream' \in [Conns -> Seq(Sendable)], sent' \in [Conns -> Nat],
           \A d \in Conns : sent[d] - Len(stream[d]) <= sent'[d] - Len(stream'[d]),
           NEW d \in Conns, NEW i \in DOMAIN got[d]
    PROVE  got[d][i].id < sent'[got[d][i].from] - Len(stream'[got[d][i].from])
  <1> DEFINE f == got[d][i].from
  <1>1. f \in Conns
    BY Senders DEF IInv
  <1>2. got[d][i].id < sent[f] - Len(stream[f])
    BY DEF IInv, Delivered
  <1>3. got[d][i].id \in Nat
    <2>1. got[d] \in Seq(Sendable)
      BY DEF IInv, Types
    <2>2. got[d][i] \in Sendable
      BY <2>1
    <2> QED BY <2>2 DEF Sendable
  <1>4. sent[f] - Len(stream[f]) <= sent'[f] - Len(stream'[f])
    BY <1>1
  <1>5. sent[f] - Len(stream[f]) \in Int /\ sent'[f] - Len(stream'[f]) \in Int
    <2>1. stream[f] \in Seq(Sendable) /\ sent[f] \in Nat
      BY <1>1 DEF IInv, Types
    <2>2. stream'[f] \in Seq(Sendable) /\ sent'[f] \in Nat
      BY <1>1
    <2> HIDE DEF f
    <2> QED BY <2>1, <2>2
  <1> HIDE DEF f
  <1> QED BY <1>2, <1>3, <1>4, <1>5 DEF f

LEMMA ItemsFinite == IsFiniteSet(Items)
  BY FS_AddElement DEF Items

\* The table names a connection at most once.
LEMMA OneCopy ==
    ASSUME IInv, NEW B \in SUBSET Reached(Items), NEW c \in Conns
    PROVE  /\ Copies(c, B) \in Nat
           /\ Copies(c, B) > 0 => \E a \in B : peer[item[a].fd] = c
           /\ (\A a \in Items : ~Inherits(c, a)) => Copies(c, B) <= 1
  <1> DEFINE S == {a \in B : peer[item[a].fd] = c}
  <1>0. B \subseteq Items /\ S \subseteq Items
    BY DEF Reached
  <1>1. IsFiniteSet(S)
    BY <1>0, ItemsFinite, FS_Subset
  <1>2. Copies(c, B) = Cardinality(S)
    BY DEF Copies
  <1>3. Cardinality(S) \in Nat
    BY <1>1, FS_CardinalityType
  <1>4. ASSUME S = {} PROVE Cardinality(S) = 0
    BY <1>4, FS_EmptySet
  <1>5. ASSUME \A a \in Items : ~Inherits(c, a), S # {} PROVE Cardinality(S) = 1
    <2>1. ASSUME NEW a \in S PROVE rid[c] = a
      <3>1. a \in Items /\ item[a].fd # 0 /\ peer[item[a].fd] = c
        BY <2>1, <1>0 DEF Reached
      <3>2. item[a].status = "app_running"
        BY <3>1 DEF IInv, Associated
      <3>3. item[a].fd \in Fds
        BY <3>1 DEF IInv, Types, Entries
      <3> QED BY <1>5, <3>1, <3>2, <3>3 DEF IInv, TableExact, Inherits
    <2>2. PICK a \in S : TRUE
      BY <1>5
    <2>3. S = {a}
      BY <2>1, <2>2
    <2> HIDE DEF S
    <2> QED BY <2>3, FS_Singleton
  <1> HIDE DEF S
  <1>6. Copies(c, B) > 0 => S # {}
    BY <1>2, <1>4
  <1>7. S # {} => \E a \in B : peer[item[a].fd] = c
    BY DEF S
  <1>8. (\A a \in Items : ~Inherits(c, a)) => Copies(c, B) <= 1
    BY <1>2, <1>4, <1>5
  <1> QED BY <1>2, <1>3, <1>6, <1>7, <1>8

LEMMA ConcatLen ==
    ASSUME NEW S, NEW s \in Seq(S), NEW u \in Seq(S) PROVE Len(s \o u) = Len(s) + Len(u)
  OBVIOUS

Repeat(m, n) == [i \in 1 .. n |-> m]

Extends(r, s, m, n) ==
    /\ r \in Seq(Sendable) /\ Len(r) = Len(s) + n
    /\ DOMAIN r = 1 .. Len(s) + n /\ DOMAIN s = 1 .. Len(s)
    /\ \A i \in DOMAIN s : r[i] = s[i]
    /\ \A i \in DOMAIN r : i \notin DOMAIN s => r[i] = m

LEMMA Extended ==
    ASSUME NEW s \in Seq(Sendable), NEW m \in Sendable, NEW n \in Nat,
           NEW r, r = s \o Repeat(m, n)
    PROVE  Extends(r, s, m, n)
  <1> DEFINE u == Repeat(m, n)
  <1>1. u \in Seq(Sendable) /\ Len(u) = n
    BY DEF Repeat
  <1>2. \A i \in 1 .. n : u[i] = m
    BY DEF Repeat
  <1> HIDE DEF u
  <1>3. r = s \o u
    BY DEF u
  <1>4. r \in Seq(Sendable) /\ Len(r) = Len(s) + n /\ DOMAIN r = 1 .. Len(s) + n /\ DOMAIN s = 1 .. Len(s)
    <2>1. r \in Seq(Sendable)
      BY <1>1, <1>3
    <2>2. Len(s \o u) = Len(s) + Len(u)
      BY <1>1, ConcatLen, Zenon
    <2> QED BY <1>1, <1>3, <2>1, <2>2
  <1>5. \A i \in DOMAIN s : r[i] = s[i]
    BY <1>1, <1>3
  <1>6. ASSUME NEW i \in DOMAIN r, i \notin DOMAIN s PROVE r[i] = m
    <2>1. r[i] = u[i - Len(s)] /\ i - Len(s) \in 1 .. n
      BY <1>1, <1>3, <1>4, <1>6
    <2> QED BY <1>2, <2>1
  <1> QED BY <1>4, <1>5, <1>6 DEF Extends

\* Delivery of the first unread message of a connection to items that are its
\* destination's.
LEMMA ForwardKeeps ==
    ASSUME IInv, NEW c \in Conns, stream[c] # <<>>,
           stream' = [stream EXCEPT ![c] = Tail(@)],
           UNCHANGED <<item, peer, rid, sent, orphaned>>,
           NEW m, m = Head(stream[c]),
           NEW B \in SUBSET Reached(Items), Written(m, B),
           m.to = Everyone \/ B \subseteq {m.to}
    PROVE  IInv'
  <1>0. /\ stream' \in [Conns -> Seq(Sendable)]
        /\ \A d \in Conns : Unread(d)'
        /\ \A d \in Conns : sent[d] - Len(stream[d]) <= sent'[d] - Len(stream'[d])
        /\ sent'[c] - Len(stream'[c]) = sent[c] - Len(stream[c]) + 1
        /\ m \in Sendable /\ m.from = c /\ m.id = sent[c] - Len(stream[c])
        /\ sent[c] - Len(stream[c]) \in Nat
    BY ReadKeeps
  <1>1. ASSUME NEW d \in Conns
        PROVE  /\ got'[d] \in Seq(Sendable)
               /\ DOMAIN got[d] \subseteq DOMAIN got'[d]
               /\ \A i \in DOMAIN got[d] : got'[d][i] = got[d][i]
               /\ \A i \in DOMAIN got'[d] : i \notin DOMAIN got[d] =>
                      got'[d][i] = m /\ \E a \in B : peer[item[a].fd] = d
               /\ (\A a \in Items : ~Inherits(d, a)) => \A i, j \in DOMAIN got'[d] : i < j => i \in DOMAIN got[d]
               /\ \A i \in DOMAIN got'[d], j \in DOMAIN got[d] : i < j => i \in DOMAIN got[d]
    <2> DEFINE n == Copies(d, B)
    <2>0. /\ n \in Nat /\ (n > 0 => \E a \in B : peer[item[a].fd] = d)
          /\ (\A a \in Items : ~Inherits(d, a)) => n <= 1
      BY OneCopy
    <2> HIDE DEF n
    <2>1. got[d] \in Seq(Sendable) /\ Len(got[d]) \in Nat
      BY DEF IInv, Types
    <2>2. got'[d] = got[d] \o Repeat(m, n)
      BY DEF Written, n, Repeat
    <2>3. /\ got'[d] \in Seq(Sendable) /\ Len(got'[d]) = Len(got[d]) + n
          /\ DOMAIN got'[d] = 1 .. Len(got[d]) + n /\ DOMAIN got[d] = 1 .. Len(got[d])
          /\ \A i \in DOMAIN got[d] : got'[d][i] = got[d][i]
          /\ \A i \in DOMAIN got'[d] : i \notin DOMAIN got[d] => got'[d][i] = m
      <3>1. m \in Sendable
        BY <1>0
      <3>2. Extends(got'[d], got[d], m, n)
        BY <2>0, <2>1, <2>2, <3>1, Extended
      <3> QED BY <3>2 DEF Extends
    <2>4. DOMAIN got[d] \subseteq DOMAIN got'[d]
      BY <2>0, <2>1, <2>3
    <2>5. ASSUME NEW i \in DOMAIN got'[d], i \notin DOMAIN got[d] PROVE n > 0
      BY <2>0, <2>1, <2>3, <2>5
    <2>6. ASSUME \A a \in Items : ~Inherits(d, a), NEW i \in DOMAIN got'[d], NEW j \in DOMAIN got'[d], i < j
          PROVE  i \in DOMAIN got[d]
      BY <2>0, <2>1, <2>3, <2>6
    <2>7. ASSUME NEW i \in DOMAIN got'[d], NEW j \in DOMAIN got[d], i < j PROVE i \in DOMAIN got[d]
      BY <2>0, <2>1, <2>3, <2>7
    <2> QED BY <2>0, <2>3, <2>4, <2>5, <2>6, <2>7
  <1>2. Types'
    <2>1. got' \in [Conns -> Seq(Sendable)]
      <3>1. got' = [d \in Conns |-> got'[d]]
        BY DEF Written
      <3> QED BY <1>1, <3>1
    <2> QED BY <1>0, <2>1 DEF IInv, Types
  <1>3. \A a \in B : a \in Items /\ item[a].fd # 0 /\ peer[item[a].fd] # NoConn /\ item[a].fd \in Fds
    BY DEF Reached, IInv, Types, Entries
  <1>4. Associated'
    <2>1. ASSUME NEW d \in Conns, got'[d] # <<>> PROVE rid[d] # Nobody
      <3>1. CASE got[d] # <<>>
        BY <3>1 DEF IInv, Associated
      <3>2. CASE got[d] = <<>>
        <4>1. got'[d] \in Seq(Sendable) /\ got[d] \in Seq(Sendable)
          BY <1>1 DEF IInv, Types
        <4>2. 1 \in DOMAIN got'[d] /\ 1 \notin DOMAIN got[d]
          BY <2>1, <3>2, <4>1
        <4>3. PICK a \in B : peer[item[a].fd] = d
          BY <1>1, <4>2
        <4> QED BY <1>3, <4>3 DEF IInv, Associated
      <3> QED BY <3>1, <3>2
    <2> QED BY <2>1 DEF IInv, Associated
  <1>5. TableExact'
    BY DEF IInv, TableExact
  <1>6. DeliveredToDestination'
    <2>1. ASSUME NEW d \in Conns, NEW i \in DOMAIN got'[d]
          PROVE  got'[d][i].to \in {rid[d], Everyone} \/ Inherits(d, got'[d][i].to)
      <3>1. CASE i \in DOMAIN got[d]
        BY <1>1, <3>1 DEF IInv, DeliveredToDestination
      <3>2. CASE i \notin DOMAIN got[d]
        <4>1. got'[d][i] = m
          BY <1>1, <3>2
        <4>2. PICK a \in B : peer[item[a].fd] = d
          BY <1>1, <3>2
        <4>3. item[a].status = "app_running"
          BY <1>3 DEF IInv, Associated
        <4>4. Inherits(d, a) \/ rid[d] = a
          BY <1>3, <4>2, <4>3 DEF IInv, TableExact, Inherits
        <4>5. m.to = Everyone \/ m.to = a
          OBVIOUS
        <4> QED BY <4>1, <4>4, <4>5
      <3> QED BY <3>1, <3>2
    <2> QED BY <2>1 DEF DeliveredToDestination, Inherits
  <1>7. InOrderOnce'
    <2>1. ASSUME NEW d \in Conns, NEW i \in DOMAIN got'[d], NEW j \in DOMAIN got'[d],
                 i < j, got'[d][i].from = got'[d][j].from, \A a \in Items : ~Inherits(d, a)
          PROVE  got'[d][i].id < got'[d][j].id
      <3>1. i \in DOMAIN got[d] /\ got'[d][i] = got[d][i]
        BY <1>1, <2>1
      <3>2. CASE j \in DOMAIN got[d]
        <4>1. got'[d][j] = got[d][j]
          BY <1>1, <3>2
        <4> QED BY <2>1, <3>1, <3>2, <4>1 DEF IInv, InOrderOnce
      <3>3. CASE j \notin DOMAIN got[d]
        <4>1. got'[d][j] = m
          BY <1>1, <3>3
        <4>2. got[d][i].from = c
          BY <1>0, <2>1, <3>1, <4>1
        <4>3. got[d][i].id < sent[c] - Len(stream[c])
          BY <3>1, <4>2 DEF IInv, Delivered
        <4> QED BY <1>0, <3>1, <4>1, <4>3
      <3> QED BY <3>2, <3>3
    <2> QED BY <2>1 DEF InOrderOnce, Inherits
  <1>8. ASSUME NEW d \in Conns PROVE Delivered(d)'
    <2>1. ASSUME NEW i \in DOMAIN got'[d]
          PROVE  got'[d][i].id < sent'[got'[d][i].from] - Len(stream'[got'[d][i].from])
      <3>1. CASE i \notin DOMAIN got[d]
        <4>1. got'[d][i] = m
          BY <1>1, <3>1
        <4> QED BY <1>0, <4>1
      <3>2. CASE i \in DOMAIN got[d]
        <4>1. got'[d][i] = got[d][i]
          BY <1>1, <3>2
        <4>2. sent' \in [Conns -> Nat]
          BY <1>2 DEF Types
        <4> QED BY <1>0, <3>2, <4>1, <4>2, StillDelivered
      <3> QED BY <3>1, <3>2
    <2> QED BY <2>1 DEF Delivered
  <1> QED BY <1>0, <1>2, <1>4, <1>5, <1>6, <1>7, <1>8 DEF IInv

\* The message is read and goes nowhere.
LEMMA DropKeeps ==
    ASSUME IInv, NEW c \in Conns, stream[c] # <<>>,
           stream' = [stream EXCEPT ![c] = Tail(@)],
           UNCHANGED <<item, peer, rid, sent, got, orphaned>>
    PROVE  IInv'
  <1>0. /\ stream' \in [Conns -> Seq(Sendable)]
        /\ \A d \in Conns : Unread(d)'
        /\ \A d \in Conns : sent[d] - Len(stream[d]) <= sent'[d] - Len(stream'[d])
    BY ReadKeeps
  <1>1. Types' /\ Associated'
    BY <1>0 DEF IInv, Types, Associated
  <1>2. TableExact' /\ DeliveredToDestination' /\ InOrderOnce'
    BY DEF IInv, TableExact, DeliveredToDestination, InOrderOnce, Inherits
  <1>3. sent' \in [Conns -> Nat]
    BY DEF IInv, Types
  <1>4. ASSUME NEW d \in Conns PROVE Delivered(d)'
    <2>1. ASSUME NEW i \in DOMAIN got[d]
          PROVE  got[d][i].id < sent'[got[d][i].from] - Len(stream'[got[d][i].from])
      BY <1>0, <1>3, <2>1, StillDelivered
    <2> QED BY <2>1 DEF Delivered
  <1> QED BY <1>0, <1>1, <1>2, <1>4 DEF IInv

\* router_connect_proc: every case of router_fdt_deliver is a delivery to some
\* of the destination's items, or to none.
LEMMA ProcKeeps ==
    ASSUME IInv, Attached, NEW fd \in Fds, router_connect_proc(fd) PROVE IInv'
  <1> DEFINE c == peer[fd]
  <1> DEFINE m == Head(stream[c])
  <1>0. /\ stream[c] # <<>> /\ stream' = [stream EXCEPT ![c] = Tail(@)]
        /\ UNCHANGED <<item, peer, rid, sent, orphaned>>
        /\ router_fdt_deliver(m) /\ fired[fd] # Listener /\ Evl!Handle(fd)
    BY DEF router_connect_proc, evlLoop, clients
  <1>1. c \in Conns
    BY <1>0 DEF Evl!Handle, Evl!Advance, Evl!Turn, IInv, Types, Attached
  <1> HIDE DEF c, m
  <1>2. ASSUME UNCHANGED got PROVE IInv'
    BY <1>0, <1>1, <1>2, DropKeeps
  <1>3. ASSUME NEW B \in SUBSET Reached(Items), Written(m, B), m.to = Everyone \/ B \subseteq {m.to}
        PROVE  IInv'
    <2>1. m = Head(stream[c])
      BY DEF m
    <2> QED BY <1>0, <1>1, <1>3, <2>1, ForwardKeeps
  <1>4. CASE m.to = Everyone
    <2>1. PICK B \in SUBSET Reached(Items) : Written(m, B)
      BY <1>0, <1>4 DEF router_fdt_deliver, forward_deliver_broadcast
    <2> QED BY <1>3, <1>4, <2>1
  <1>5. CASE m.to # Everyone /\ m.to \in Items /\ ~ UNCHANGED got
    <2>1. Written(m, Reached({m.to}))
      BY <1>0, <1>5 DEF router_fdt_deliver, forward_deliver_unicast, written
    <2>2. Reached({m.to}) \in SUBSET Reached(Items) /\ Reached({m.to}) \subseteq {m.to}
      BY <1>5 DEF Reached
    <2> QED BY <1>3, <2>1, <2>2
  <1>6. CASE m.to # Everyone /\ m.to \notin Items
    BY <1>0, <1>2, <1>6 DEF router_fdt_deliver, forward_deliver_unicast, written
  <1> QED BY <1>2, <1>4, <1>5, <1>6

-----------------------------------------------------------------------------
(* A connection is accepted *)

\* accept returns a descriptor that no application of the table has, but for
\* the orphaned ones.
LEMMA ListenerKeeps ==
    ASSUME IInv, NEW lfd \in Fds, NEW c \in Conns, NEW fd \in Fds, router_listener_proc(lfd, c, fd)
    PROVE  IInv'
  <1>0. /\ peer[fd] = NoConn /\ rid[c] \in Apps /\ rid[c] \in Items /\ rid[c] # Nobody
        /\ fd # 0 /\ stream[c] # <<>> /\ stream' = [stream EXCEPT ![c] = Tail(@)]
        /\ item' = [item EXCEPT ![rid[c]] = [fd |-> fd, status |-> "app_running"]]
        /\ peer' = [peer EXCEPT ![fd] = c]
        /\ UNCHANGED <<rid, sent, got, orphaned>>
    <2>1. Accepts(lfd, c, fd) /\ Associates(c)
      BY DEF router_listener_proc
    <2>2. peer[fd] = NoConn
      <3>1. Sock[fd] = "closed"
        BY <2>1 DEF Accepts, Evl!NextFree
      <3> QED BY <3>1 DEF Sock
    <2> QED BY <2>1, <2>2 DEF router_listener_proc, Accepts, Associates, clients, written, Items
  <1>1. /\ stream' \in [Conns -> Seq(Sendable)]
        /\ \A d \in Conns : Unread(d)'
        /\ \A d \in Conns : sent[d] - Len(stream[d]) <= sent'[d] - Len(stream'[d])
    BY <1>0, ReadKeeps
  <1>2. /\ item' \in [Items -> Entries] /\ peer' \in [Fds -> Conns \cup {NoConn}]
        /\ item'[rid[c]] = [fd |-> fd, status |-> "app_running"]
        /\ \A a \in Items : a # rid[c] => item'[a] = item[a]
        /\ peer'[fd] = c /\ \A g \in Fds : g # fd => peer'[g] = peer[g]
    BY <1>0 DEF IInv, Types, Entries
  <1>3. Types'
    BY <1>0, <1>1, <1>2 DEF IInv, Types
  <1>4. Associated'
    BY <1>0, <1>2 DEF IInv, Associated
  <1>5. TableExact'
    <2>1. ASSUME NEW a \in Items, item'[a].status = "app_running", <<a, item'[a].fd>> \notin orphaned
          PROVE  item'[a].fd # 0 /\ peer'[item'[a].fd] # NoConn /\ rid[peer'[item'[a].fd]] = a
      <3>1. CASE a = rid[c]
        BY <1>0, <1>2, <3>1
      <3>2. CASE a # rid[c]
        <4>1. item'[a] = item[a] /\ item[a].fd # 0 /\ peer[item[a].fd] # NoConn
              /\ rid[peer[item[a].fd]] = a
          BY <1>2, <2>1, <3>2 DEF IInv, TableExact
        <4>2. item[a].fd \in Fds /\ item[a].fd # fd
          BY <1>0, <4>1 DEF IInv, Types, Entries
        <4> QED BY <1>2, <4>1, <4>2
      <3> QED BY <3>1, <3>2
    <2> QED BY <1>0, <2>1 DEF TableExact
  <1>6. DeliveredToDestination' /\ InOrderOnce'
    <2>1. ASSUME NEW d \in Conns, NEW a, Inherits(d, a) PROVE Inherits(d, a)'
      BY <1>0, <1>2, <2>1, HeirsKept
    <2> QED BY <1>0, <2>1 DEF IInv, DeliveredToDestination, InOrderOnce
  <1>7. ASSUME NEW d \in Conns PROVE Delivered(d)'
    <2>0. sent' \in [Conns -> Nat]
      BY <1>3 DEF Types
    <2>1. ASSUME NEW i \in DOMAIN got[d]
          PROVE  got[d][i].id < sent'[got[d][i].from] - Len(stream'[got[d][i].from])
      BY <1>1, <2>0, <2>1, StillDelivered
    <2> QED BY <1>0, <2>1 DEF Delivered
  <1> QED BY <1>1, <1>3, <1>4, <1>5, <1>6, <1>7 DEF IInv

LEMMA FailsKeeps ==
    ASSUME IInv, NEW lfd \in Fds, NEW c \in Conns, NEW fd \in Fds, listener_proc_fails(lfd, c, fd)
    PROVE  IInv'
  <1>0. /\ rid[c] \in Items
        /\ item' = [item EXCEPT ![rid[c]] = [fd |-> fd, status |-> "app_running"]]
        /\ orphaned' = orphaned \cup {<<rid[c], fd>>}
        /\ UNCHANGED <<peer, rid, sent, stream, got>>
    BY DEF listener_proc_fails, Accepts, Associates, clients, written, Items
  <1>1. /\ item' \in [Items -> Entries]
        /\ item'[rid[c]].status = "app_running" /\ item'[rid[c]].fd = fd
        /\ \A a \in Items : a # rid[c] => item'[a] = item[a]
    BY <1>0 DEF IInv, Types, Entries
  <1>2. Types'
    BY <1>0, <1>1 DEF IInv, Types
  <1>3. Associated'
    BY <1>0, <1>1 DEF IInv, Associated
  <1>4. TableExact'
    BY <1>0, <1>1 DEF IInv, TableExact
  <1>5. ASSUME NEW d \in Conns, NEW a, Inherits(d, a) PROVE Inherits(d, a)'
    BY <1>0, <1>5, HeirsKept
  <1>6. DeliveredToDestination' /\ InOrderOnce'
    BY <1>0, <1>5 DEF IInv, DeliveredToDestination, InOrderOnce
  <1>7. ASSUME NEW d \in Conns PROVE (Unread(d) /\ Delivered(d))'
    BY <1>0 DEF IInv, Unread, Delivered
  <1> QED BY <1>2, <1>3, <1>4, <1>6, <1>7 DEF IInv

-----------------------------------------------------------------------------

\* Steps that leave the loop's table and do not close a connection.
LEMMA LoopKept ==
    ASSUME Attached, UNCHANGED <<table, peer>>, todo' \subseteq todo, UNCHANGED fired PROVE Attached'
  BY DEF Attached

LEMMA AttachedInductive == IInv /\ Attached /\ [Next]_vars => Attached'
  <1> SUFFICES ASSUME IInv, Attached, [Next]_vars PROVE Attached'
    OBVIOUS
  <1>1. CASE UNCHANGED vars \/ Clients \/ signal_exit
    <2>1. UNCHANGED <<table, peer, todo, fired>>
      BY <1>1 DEF vars, loop, Clients, signal_exit, rt_message_connect, rt_message_associate,
                  awoke_rtmsg_send, Put, rt_message_handle_clean, client_recv
    <2> QED BY <2>1, LoopKept
  <1>2. CASE awoke_event_wait
    <2>1. UNCHANGED <<table, peer>> /\ todo' = Evl!Reported
          /\ fired' = [fd \in Fds |-> IF fd \in Evl!Reported THEN table[fd] ELSE NoEvent]
      BY <1>2 DEF awoke_event_wait, Evl!awoke_event_wait, Evl!loop
    <2>2. \A fd \in Evl!Reported : table[fd] # NoEvent
      BY DEF Evl!Reported
    <2> QED BY <2>1, <2>2 DEF Attached
  <1>3. ASSUME NEW fd \in Fds, NotReady(fd) PROVE Attached'
    <2>1. UNCHANGED <<peer, fired>> /\ todo' \subseteq todo
      BY <1>3 DEF NotReady, Evl!DropEvent, Evl!SkipEvent, Evl!Advance
    <2>2. UNCHANGED table \/ \E e : table' = [table EXCEPT ![fdOf[e]] = NoEvent]
      BY <1>3 DEF NotReady, Evl!DropEvent, Evl!SkipEvent, Evl!awoke_event_del, Evl!loop
    <2>3. /\ table' \in [Fds -> Conns \cup {Listener, NoEvent}]
          /\ \A f \in Fds : table'[f] = table[f] \/ table'[f] = NoEvent
      BY <2>2 DEF Attached
    <2> QED BY <2>1, <2>3 DEF Attached
  <1>4. ASSUME NEW fd \in Fds, router_connect_proc(fd) \/ accept_fails(fd) PROVE Attached'
    <2>1. UNCHANGED <<table, peer, fired>> /\ todo' \subseteq todo
      BY <1>4 DEF router_connect_proc, accept_fails, evlLoop, Evl!Handle, Evl!Advance
    <2> QED BY <2>1, LoopKept
  <1>5. ASSUME NEW fd \in Fds, NEW c \in Conns, NEW new \in Fds,
               listener_proc_refuses(fd, c, new) \/ listener_proc_fails(fd, c, new)
        PROVE  Attached'
    <2>1. UNCHANGED <<table, peer, fired>> /\ todo' \subseteq todo
      BY <1>5 DEF listener_proc_refuses, listener_proc_fails, Accepts, evlLoop, Evl!Handle, Evl!Advance
    <2> QED BY <2>1, LoopKept
  <1>6. ASSUME NEW fd \in Fds, NEW c \in Conns, NEW new \in Fds, router_listener_proc(fd, c, new)
        PROVE  Attached'
    <2>1. UNCHANGED fired /\ todo' \subseteq todo
      BY <1>6 DEF router_listener_proc, Accepts, Evl!Handle, Evl!Advance
    <2>2. peer' = [peer EXCEPT ![new] = c] /\ table' = [table EXCEPT ![new] = c]
      BY <1>6 DEF router_listener_proc, Evl!awoke_event_add
    <2>3. c # NoConn
      OBVIOUS
    <2>4. /\ table' \in [Fds -> Conns \cup {Listener, NoEvent}]
          /\ \A f \in Fds : f # new => table'[f] = table[f] /\ peer'[f] = peer[f]
          /\ peer'[new] = c
      BY <2>2 DEF Attached, IInv, Types
    <2> QED BY <2>1, <2>3, <2>4 DEF Attached
  <1> QED BY <1>1, <1>2, <1>3, <1>4, <1>5, <1>6 DEF Next, router_main_loop

LEMMA Inductive == IInv /\ Attached /\ [Next]_vars => IInv'
  <1> SUFFICES ASSUME IInv, Attached, [Next]_vars PROVE IInv'
    OBVIOUS
  <1>1. CASE UNCHANGED vars
    BY <1>1, Kept DEF vars, clients, written
  <1>2. CASE Clients
    <2>1. PICK c \in Conns :
            \/ \E a \in Items : rt_message_connect(c, a)
            \/ rt_message_associate(c)
            \/ \E to \in Dests : awoke_rtmsg_send(c, to)
            \/ client_recv(c)
            \/ rt_message_handle_clean(c)
      BY <1>2 DEF Clients
    <2>2. CASE \E a \in Items : rt_message_connect(c, a)
      BY <2>2, ConnectKeeps
    <2>3. CASE rt_message_associate(c)
      BY <2>3, PutKeeps DEF rt_message_associate
    <2>4. CASE \E to \in Dests : awoke_rtmsg_send(c, to)
      BY <2>4, PutKeeps DEF awoke_rtmsg_send
    <2>5. CASE rt_message_handle_clean(c)
      BY <2>5, Kept DEF rt_message_handle_clean, clients, written
    <2>6. CASE client_recv(c)
      BY <2>6, Kept DEF client_recv, clients
    <2> QED BY <2>1, <2>2, <2>3, <2>4, <2>5, <2>6
  <1>3. CASE awoke_event_wait
    BY <1>3, Kept DEF awoke_event_wait, clients, written
  <1>4. ASSUME NEW fd \in Fds, NotReady(fd) PROVE IInv'
    BY <1>4, Kept DEF NotReady, clients, written
  <1>5. ASSUME NEW fd \in Fds, accept_fails(fd) PROVE IInv'
    BY <1>5, Kept DEF accept_fails, clients, written
  <1>6. ASSUME NEW fd \in Fds, NEW c \in Conns, NEW new \in Fds, listener_proc_refuses(fd, c, new)
        PROVE  IInv'
    BY <1>6, Kept DEF listener_proc_refuses, Accepts, clients, written
  <1>7. CASE signal_exit
    BY <1>7, Kept DEF signal_exit, clients, written
  <1>8. CASE router_main_loop
    BY <1>3, <1>4, <1>5, <1>6, <1>8, ProcKeeps, ListenerKeeps, FailsKeeps DEF router_main_loop
  <1> QED BY <1>1, <1>2, <1>7, <1>8 DEF Next

\* The forward table, the destinations and the order, together.
THEOREM Invariants == Spec => [](IInv /\ Attached)
  BY Initially, Inductive, AttachedInductive, PTL DEF Spec

\* The descriptor the table holds for a running application is the one that
\* associated under its id.
THEOREM TableSafe == Spec => []TableExact
  <1>1. IInv => TableExact
    BY DEF IInv
  <1> QED BY <1>1, Invariants, PTL

\* A message reaches only the application it is for, unless it is for everyone,
\* or its application's descriptor was closed under it by the error path of
\* router_listener_proc: then it reaches the one client that has it now.
THEOREM DestinationSafe == Spec => []DeliveredToDestination
  <1>1. IInv => DeliveredToDestination
    BY DEF IInv
  <1> QED BY <1>1, Invariants, PTL

\* What one connection sends to another arrives in order, and once, unless the
\* receiver has the descriptor that was closed under another application.
THEOREM OrderSafe == Spec => []InOrderOnce
  <1>1. IInv => InOrderOnce
    BY DEF IInv
  <1> QED BY <1>1, Invariants, PTL

-----------------------------------------------------------------------------
(* The router as a user of the event loop *)

Structs == Conns \cup {Listener}

LoopTypes ==
    /\ table \in [Fds -> Structs \cup {NoEvent}]
    /\ rfds \in SUBSET Fds /\ wfds \in SUBSET Fds /\ rset \in SUBSET Fds
    /\ maxFd \in Fds \cup {-1, 0}
    /\ fdOf \in [Structs -> Fds]
    /\ mask \in [Structs -> SUBSET {"READ", "WRITE"}]
    /\ fired \in [Fds -> Structs \cup {NoEvent}]
    /\ todo \in SUBSET Fds /\ \A fd \in todo : fired[fd] # NoEvent
    /\ listening \in {"counted", "refused"}

\* A connection the router has not accepted yet.
Waits(c) == rid[c] = Nobody \/ \E i \in DOMAIN backlog : backlog[i] = c

\* The structure of a connection that waits is nowhere in the loop, and every
\* connection is behind one descriptor at most.
Connections ==
    /\ backlog \in Seq(Conns) /\ Len(backlog) <= MaxInq
    /\ \A i, j \in DOMAIN backlog : backlog[i] = backlog[j] => i = j
    /\ \A i \in DOMAIN backlog : rid[backlog[i]] # Nobody
    /\ gone \in SUBSET Conns
    /\ peer[ListenFd] = NoConn
    /\ \A f, g \in Fds : peer[f] = peer[g] /\ peer[f] # NoConn => f = g
    /\ \A c \in Conns : Len(stream[c]) <= MaxInq
    /\ \A c \in Conns : Waits(c) =>
          mask[c] = {} /\ \A fd \in Fds : c \notin {peer[fd], table[fd], fired[fd]}

UseInv == LoopTypes /\ Connections /\ orphaned \in SUBSET (Apps \X Fds) /\ alive \in BOOLEAN

LEMMA StructFacts == NoConn \notin Conns /\ NoEvent \notin Structs /\ Listener \notin Conns /\ Nobody \notin Items
  BY DEF Structs, Items

LEMMA UseInit == Init => UseInv
  <1> SUFFICES ASSUME Init PROVE UseInv
    OBVIOUS
  <1>1. LoopTypes
    <2>1. /\ table \in [Fds -> Structs \cup {NoEvent}] /\ fdOf \in [Structs -> Fds]
          /\ mask \in [Structs -> SUBSET {"READ", "WRITE"}] /\ fired \in [Fds -> Structs \cup {NoEvent}]
      BY DEF Init, Structs
    <2>2. /\ rfds \in SUBSET Fds /\ wfds \in SUBSET Fds /\ rset \in SUBSET Fds /\ maxFd \in Fds
          /\ todo = {} /\ listening \in {"counted", "refused"}
      BY DEF Init
    <2> QED BY <2>1, <2>2 DEF LoopTypes
  <1>2. Connections
    <2>1. backlog = <<>> /\ DOMAIN backlog = {} /\ Len(backlog) = 0 /\ backlog \in Seq(Conns)
      BY DEF Init
    <2>2. \A c \in Conns : stream[c] = <<>> /\ Len(stream[c]) = 0
      BY DEF Init
    <2>3. \A fd \in Fds : peer[fd] = NoConn /\ table[fd] \in {Listener, NoEvent} /\ fired[fd] = NoEvent
      BY DEF Init
    <2>4. gone = {} /\ \A c \in Conns : mask[c] = {}
      BY StructFacts DEF Init
    <2> QED BY <2>1, <2>2, <2>3, <2>4, StructFacts DEF Connections, Structs
  <1>3. orphaned = {} /\ alive \in BOOLEAN
    BY DEF Init
  <1> QED BY <1>1, <1>2, <1>3 DEF UseInv

\* Steps that leave the registered events alone.
LEMMA LoopTypesKept ==
    ASSUME LoopTypes, UNCHANGED <<evlLoop, rset, fired, listening>>, todo' \subseteq todo PROVE LoopTypes'
  BY DEF LoopTypes, evlLoop

\* Steps that accept nothing and connect nobody.
LEMMA ConnectionsKept ==
    ASSUME Connections, UNCHANGED <<backlog, rid, peer>>, gone' \in SUBSET Conns,
           \A c \in Conns : Len(stream'[c]) <= MaxInq,
           \A c \in Conns : mask'[c] = mask[c] \/ mask'[c] = {},
           \A fd \in Fds : table'[fd] \in {table[fd], NoEvent} /\ fired'[fd] \in {fired[fd], table[fd], NoEvent}
    PROVE  Connections'
  <1>1. \A c \in Conns : Waits(c)' <=> Waits(c)
    BY DEF Waits
  <1>2. ASSUME NEW c \in Conns, Waits(c)'
        PROVE  mask'[c] = {} /\ \A fd \in Fds : c \notin {peer'[fd], table'[fd], fired'[fd]}
    <2>1. mask[c] = {} /\ \A fd \in Fds : c \notin {peer[fd], table[fd], fired[fd]}
      BY <1>1, <1>2 DEF Connections
    <2> QED BY <1>2, <2>1, StructFacts DEF Structs
  <1> QED BY <1>2 DEF Connections

LEMMA UseConnect ==
    ASSUME IInv, UseInv, NEW c \in Conns, NEW a \in Items, rt_message_connect(c, a) PROVE UseInv'
  <1>1. /\ UNCHANGED <<evlLoop, rset, fired, todo, listening, peer, stream, gone, orphaned, alive>>
        /\ rid[c] = Nobody /\ Len(backlog) < MaxInq
        /\ rid' = [rid EXCEPT ![c] = a] /\ backlog' = Append(backlog, c)
    BY DEF rt_message_connect, loop, evlLoop
  <1>2. LoopTypes'
    BY <1>1, LoopTypesKept DEF UseInv
  <1>3. rid'[c] = a /\ a # Nobody /\ \A d \in Conns : d # c => rid'[d] = rid[d]
    BY <1>1, StructFacts DEF IInv, Types
  <1>4. backlog \in Seq(Conns) /\ Len(backlog) \in Nat /\ \A i \in DOMAIN backlog : backlog[i] \in Conns
    BY DEF UseInv, Connections
  <1>5. /\ backlog' \in Seq(Conns) /\ Len(backlog') = Len(backlog) + 1
        /\ DOMAIN backlog = 1 .. Len(backlog) /\ DOMAIN backlog' = 1 .. (Len(backlog) + 1)
        /\ backlog'[Len(backlog) + 1] = c /\ \A i \in 1 .. Len(backlog) : backlog'[i] = backlog[i]
    BY <1>1, <1>4
  <1>6. \A i \in DOMAIN backlog : backlog[i] # c
    BY <1>1 DEF UseInv, Connections
  <1>7. \A i \in DOMAIN backlog' :
          (i \in DOMAIN backlog /\ backlog'[i] = backlog[i]) \/ (i = Len(backlog) + 1 /\ backlog'[i] = c)
    BY <1>4, <1>5
  <1>8. \A i, j \in DOMAIN backlog' : backlog'[i] = backlog'[j] => i = j
    BY <1>6, <1>7 DEF UseInv, Connections
  <1>9. \A i \in DOMAIN backlog' : rid'[backlog'[i]] # Nobody
    BY <1>3, <1>4, <1>6, <1>7 DEF UseInv, Connections
  <1>10. ASSUME NEW d \in Conns, Waits(d)' PROVE Waits(d)
    BY <1>1, <1>3, <1>7, <1>10 DEF Waits
  <1>11. UNCHANGED <<mask, table, fired>>
    BY <1>1 DEF evlLoop
  <1>12. \A d \in Conns : Waits(d)' =>
            mask'[d] = {} /\ \A fd \in Fds : d \notin {peer'[fd], table'[fd], fired'[fd]}
    BY <1>1, <1>10, <1>11 DEF UseInv, Connections
  <1>13. Connections'
    BY <1>1, <1>4, <1>5, <1>8, <1>9, <1>12 DEF UseInv, Connections
  <1> QED BY <1>1, <1>2, <1>13 DEF UseInv

LEMMA UsePut ==
    ASSUME IInv, UseInv, NEW c \in Conns, NEW to \in Dests \cup {Nobody}, Put(c, to) PROVE UseInv'
  <1>1. /\ UNCHANGED <<evlLoop, rset, fired, todo, listening, peer, backlog, rid, gone, orphaned, alive>>
        /\ Len(stream[c]) < MaxInq /\ stream' = [stream EXCEPT ![c] = Append(@, Msg(c, to))]
    BY DEF Put, loop, evlLoop
  <1>2. \A d \in Conns : Len(stream'[d]) <= MaxInq
    <2>1. stream \in [Conns -> Seq(Sendable)]
      BY DEF IInv, Types
    <2>2. Len(Append(stream[c], Msg(c, to))) = Len(stream[c]) + 1 /\ Len(stream[c]) \in Nat
      BY <2>1
    <2>3. stream'[c] = Append(stream[c], Msg(c, to)) /\ \A d \in Conns : d # c => stream'[d] = stream[d]
      BY <1>1, <2>1
    <2>4. \A d \in Conns : Len(stream[d]) <= MaxInq
      BY DEF UseInv, Connections
    <2> QED BY <1>1, <2>2, <2>3, <2>4
  <1>3. UNCHANGED <<mask, table, fired>>
    BY <1>1 DEF evlLoop
  <1>4. LoopTypes'
    BY <1>1, LoopTypesKept DEF UseInv
  <1>5. gone' \in SUBSET Conns
    BY <1>1 DEF UseInv, Connections
  <1>6. Connections'
    BY <1>1, <1>2, <1>3, <1>5, ConnectionsKept DEF UseInv
  <1> QED BY <1>1, <1>4, <1>6 DEF UseInv

\* Steps of the kernel and the loop that leave connections and events alone.
LEMMA UseQuiet ==
    ASSUME UseInv, UNCHANGED <<evlLoop, rset, fired, listening, backlog, rid, peer, orphaned>>,
           todo' \subseteq todo, gone' \in SUBSET Conns, \A c \in Conns : Len(stream'[c]) <= MaxInq,
           alive' \in BOOLEAN
    PROVE  UseInv'
  <1>1. LoopTypes'
    BY LoopTypesKept DEF UseInv
  <1>2. UNCHANGED <<mask, table, fired>>
    BY DEF evlLoop
  <1>3. Connections'
    BY <1>2, ConnectionsKept DEF UseInv
  <1> QED BY <1>1, <1>3 DEF UseInv

LEMMA UseWait == ASSUME UseInv, awoke_event_wait PROVE UseInv'
  <1>1. /\ UNCHANGED <<evlLoop, listening, peer, backlog, rid, stream, gone, orphaned, alive>>
        /\ rset' = Evl!Readable /\ todo' = Evl!Reported
        /\ fired' = [fd \in Fds |-> IF fd \in Evl!Reported THEN table[fd] ELSE NoEvent]
    BY DEF awoke_event_wait, Evl!awoke_event_wait, Evl!loop, evlLoop, clients
  <1>2. Evl!Readable \subseteq Fds /\ Evl!Reported \subseteq Fds /\ \A fd \in Evl!Reported : table[fd] # NoEvent
    BY DEF UseInv, LoopTypes, Evl!Readable, Evl!Writable, Evl!Reported
  <1>3. fired' \in [Fds -> Structs \cup {NoEvent}] /\ \A fd \in todo' : fired'[fd] # NoEvent
    BY <1>1, <1>2 DEF UseInv, LoopTypes
  <1>4. LoopTypes'
    BY <1>1, <1>2, <1>3 DEF UseInv, LoopTypes, evlLoop
  <1>5. /\ UNCHANGED <<mask, table>>
        /\ \A fd \in Fds : fired'[fd] \in {fired[fd], table[fd], NoEvent}
    BY <1>1 DEF evlLoop
  <1>6. gone' \in SUBSET Conns /\ \A c \in Conns : Len(stream'[c]) <= MaxInq
    BY <1>1 DEF UseInv, Connections
  <1>7. Connections'
    BY <1>1, <1>5, <1>6, ConnectionsKept DEF UseInv
  <1> QED BY <1>1, <1>4, <1>7 DEF UseInv

LEMMA UseNotReady == ASSUME UseInv, NEW fd \in Fds, NotReady(fd) PROVE UseInv'
  <1>1. /\ UNCHANGED <<rset, fired, listening, peer, backlog, rid, stream, gone, orphaned, alive>>
        /\ fd \in todo /\ todo' \subseteq todo
    BY DEF NotReady, Evl!DropEvent, Evl!SkipEvent, Evl!Advance, Evl!Turn, clients
  <1>2. gone' \in SUBSET Conns /\ \A c \in Conns : Len(stream'[c]) <= MaxInq
    BY <1>1 DEF UseInv, Connections
  <1>3. CASE Evl!SkipEvent(fd)
    <2>1. UNCHANGED evlLoop
      BY <1>3 DEF Evl!SkipEvent, Evl!loop, evlLoop
    <2> QED BY <1>1, <1>2, <2>1, UseQuiet DEF UseInv
  <1>4. CASE Evl!DropEvent(fd)
    <2> DEFINE e == fired[fd]
    <2>1. e \in Structs
      BY <1>1 DEF UseInv, LoopTypes
    <2>2. Evl!awoke_event_del(e)
      BY <1>4 DEF Evl!DropEvent
    <2> HIDE DEF e
    <2>3. /\ rfds' \subseteq rfds /\ wfds' \subseteq wfds /\ fdOf' = fdOf
          /\ maxFd' \in Fds \cup {-1, 0}
          /\ table' = [table EXCEPT ![fdOf[e]] = NoEvent] /\ mask' = [mask EXCEPT ![e] = {}]
      BY <2>2 DEF Evl!awoke_event_del, UseInv, LoopTypes
    <2>4. /\ table' \in [Fds -> Structs \cup {NoEvent}] /\ mask' \in [Structs -> SUBSET {"READ", "WRITE"}]
          /\ \A f \in Fds : table'[f] \in {table[f], NoEvent}
          /\ \A c \in Structs : mask'[c] = mask[c] \/ mask'[c] = {}
      BY <2>1, <2>3 DEF UseInv, LoopTypes
    <2>5. LoopTypes'
      BY <1>1, <2>3, <2>4 DEF UseInv, LoopTypes
    <2>6. Connections'
      BY <1>1, <1>2, <2>4, ConnectionsKept DEF UseInv, Structs
    <2> QED BY <1>1, <2>5, <2>6 DEF UseInv
  <1> QED BY <1>3, <1>4 DEF NotReady

\* Reading shortens one stream.
LEMMA StreamsShorten ==
    ASSUME IInv, UseInv, NEW c \in Conns, stream[c] # <<>>, stream' = [stream EXCEPT ![c] = Tail(@)],
           NEW d \in Conns
    PROVE  Len(stream'[d]) <= MaxInq
  <1>1. stream[d] \in Seq(Sendable) /\ Len(stream[d]) \in Nat /\ Len(stream[d]) <= MaxInq
    BY DEF IInv, Types, UseInv, Connections
  <1>2. CASE d # c
    <2>1. stream'[d] = stream[d]
      BY <1>2 DEF IInv, Types
    <2> QED BY <1>1, <2>1
  <1>3. CASE d = c
    <2>1. stream'[d] = Tail(stream[d]) /\ stream[d] # <<>>
      BY <1>3 DEF IInv, Types
    <2>2. Len(Tail(stream[d])) = Len(stream[d]) - 1
      BY <1>1, <2>1
    <2> QED BY <1>1, <2>1, <2>2
  <1> QED BY <1>2, <1>3

LEMMA UseProc == ASSUME IInv, Attached, UseInv, NEW fd \in Fds, router_connect_proc(fd) PROVE UseInv'
  <1> DEFINE c == peer[fd]
  <1>1. /\ UNCHANGED <<evlLoop, rset, fired, listening, peer, backlog, rid, gone, orphaned>>
        /\ fd \in todo /\ fired[fd] # Listener /\ todo' \subseteq todo
        /\ stream[c] # <<>> /\ stream' = [stream EXCEPT ![c] = Tail(@)]
    BY DEF router_connect_proc, Evl!Handle, Evl!Advance, Evl!Turn, clients
  <1>2. c \in Conns
    BY <1>1 DEF Attached, IInv, Types
  <1>3. \A d \in Conns : Len(stream'[d]) <= MaxInq
    BY <1>1, <1>2, StreamsShorten
  <1>4. alive' \in BOOLEAN
    BY Zenon DEF router_connect_proc, router_fdt_deliver, forward_deliver_broadcast, forward_deliver_unicast, UseInv
  <1>5. gone' \in SUBSET Conns
    BY <1>1 DEF UseInv, Connections
  <1> QED BY <1>1, <1>3, <1>4, <1>5, UseQuiet

\* The connection that is accepted was the first to wait; the others go on waiting.
LEMMA HeadLeaves ==
    ASSUME Connections, backlog # <<>>, backlog' = Tail(backlog), UNCHANGED rid
    PROVE  /\ Head(backlog) \in Conns /\ Waits(Head(backlog)) /\ rid[Head(backlog)] # Nobody
           /\ Len(backlog') = Len(backlog) - 1 /\ Len(backlog) \in Nat \ {0}
           /\ backlog' \in Seq(Conns) /\ Len(backlog') <= MaxInq
           /\ \A i, j \in DOMAIN backlog' : backlog'[i] = backlog'[j] => i = j
           /\ \A i \in DOMAIN backlog' : rid'[backlog'[i]] # Nobody
           /\ \A d \in Conns : Waits(d)' => Waits(d) /\ d # Head(backlog)
  <1>1. /\ backlog \in Seq(Conns) /\ Len(backlog) \in Nat \ {0} /\ Len(backlog) <= MaxInq
        /\ \A i, j \in DOMAIN backlog : backlog[i] = backlog[j] => i = j
        /\ \A i \in DOMAIN backlog : rid[backlog[i]] # Nobody
    BY DEF Connections
  <1>2. /\ backlog' \in Seq(Conns) /\ Len(backlog') = Len(backlog) - 1
        /\ DOMAIN backlog = 1 .. Len(backlog) /\ DOMAIN backlog' = 1 .. (Len(backlog) - 1)
        /\ Head(backlog) = backlog[1] /\ backlog[1] \in Conns
        /\ \A i \in 1 .. (Len(backlog) - 1) : backlog'[i] = backlog[i + 1]
    BY <1>1
  <1>3. /\ 1 \in DOMAIN backlog
        /\ \A i \in DOMAIN backlog' : backlog'[i] = backlog[i + 1] /\ i + 1 \in DOMAIN backlog /\ i + 1 # 1 /\ i \in Int
    BY <1>1, <1>2
  <1>4. \A i, j \in DOMAIN backlog' : backlog'[i] = backlog'[j] => i = j
    BY <1>1, <1>3
  <1>5. \A i \in DOMAIN backlog' : rid'[backlog'[i]] # Nobody
    BY <1>1, <1>3
  <1>6. \A i \in DOMAIN backlog' : backlog'[i] # Head(backlog)
    BY <1>1, <1>2, <1>3
  <1>7. rid[Head(backlog)] # Nobody /\ Waits(Head(backlog))
    BY <1>1, <1>2, <1>3 DEF Waits
  <1>8. \A d \in Conns : Waits(d)' => Waits(d) /\ d # Head(backlog)
    BY <1>3, <1>6, <1>7 DEF Waits
  <1>9. Len(backlog') <= MaxInq
    BY <1>1, <1>2
  <1> QED BY <1>1, <1>2, <1>4, <1>5, <1>7, <1>8, <1>9

LEMMA UseRefuse ==
    ASSUME IInv, UseInv, NEW lfd \in Fds, NEW c \in Conns, NEW fd \in Fds,
           listener_proc_refuses(lfd, c, fd) \/ listener_proc_fails(lfd, c, fd)
    PROVE  UseInv'
  <1>1. /\ UNCHANGED <<evlLoop, rset, fired, listening, peer, rid, stream, gone>> /\ todo' \subseteq todo
        /\ backlog # <<>> /\ backlog' = Tail(backlog)
    BY DEF listener_proc_refuses, listener_proc_fails, Accepts, Evl!Handle, Evl!Advance, clients
  <1>2. orphaned' \in SUBSET (Apps \X Fds)
    <2>1. orphaned' = orphaned \/ (orphaned' = orphaned \cup {<<rid[c], fd>>} /\ rid[c] \in Apps)
      BY DEF listener_proc_refuses, listener_proc_fails, Associates
    <2>2. rid[c] \in Apps => <<rid[c], fd>> \in Apps \X Fds
      OBVIOUS
    <2> QED BY <2>1, <2>2 DEF UseInv
  <1>3. alive' \in BOOLEAN
    BY Zenon DEF listener_proc_refuses, listener_proc_fails, UseInv
  <1>4. LoopTypes'
    BY <1>1, LoopTypesKept DEF UseInv
  <1>5. UNCHANGED <<mask, table, fired>>
    BY <1>1 DEF evlLoop
  <1>6. Connections'
    BY <1>1, <1>5, HeadLeaves DEF UseInv, Connections
  <1> QED BY <1>2, <1>3, <1>4, <1>6 DEF UseInv

LEMMA UseListener ==
    ASSUME IInv, UseInv, NEW lfd \in Fds, NEW c \in Conns, NEW fd \in Fds, router_listener_proc(lfd, c, fd)
    PROVE  UseInv'
  <1>1. /\ UNCHANGED <<rset, fired, listening, rid, gone, orphaned, alive>> /\ todo' \subseteq todo
        /\ backlog # <<>> /\ backlog' = Tail(backlog) /\ c = Head(backlog)
        /\ stream[c] # <<>> /\ stream' = [stream EXCEPT ![c] = Tail(@)] /\ peer' = [peer EXCEPT ![fd] = c]
    BY DEF router_listener_proc, Accepts, Associates, Evl!Handle, Evl!Advance, clients
  <1>2. peer[fd] = NoConn /\ fd # ListenFd
    <2>1. Sock[fd] = "closed"
      BY DEF router_listener_proc, Accepts, Evl!NextFree
    <2> QED BY <2>1 DEF Sock
  <1>3. /\ rfds' = rfds \cup {fd} /\ wfds' = wfds
        /\ fdOf' = [fdOf EXCEPT ![c] = fd] /\ mask' = [mask EXCEPT ![c] = {"READ"}]
        /\ table' = [table EXCEPT ![fd] = c] /\ maxFd' \in {fd, maxFd}
    BY DEF router_listener_proc, Evl!awoke_event_add
  <1>4. c \in Structs
    BY DEF Structs
  <1>5. LoopTypes'
    <2>1. /\ table' \in [Fds -> Structs \cup {NoEvent}] /\ fdOf' \in [Structs -> Fds]
          /\ mask' \in [Structs -> SUBSET {"READ", "WRITE"}] /\ rfds' \in SUBSET Fds
          /\ maxFd' \in Fds \cup {-1, 0}
      BY <1>3, <1>4 DEF UseInv, LoopTypes
    <2> QED BY <1>1, <1>3, <2>1 DEF UseInv, LoopTypes
  <1>6. /\ peer'[fd] = c /\ \A g \in Fds : g # fd => peer'[g] = peer[g]
        /\ table'[fd] = c /\ \A g \in Fds : g # fd => table'[g] = table[g]
        /\ \A d \in Conns : d # c => mask'[d] = mask[d]
    BY <1>1, <1>3, <1>4 DEF UseInv, LoopTypes, IInv, Types, Structs
  <1>7. Waits(c) /\ \A g \in Fds : peer[g] # c
    BY <1>1, HeadLeaves DEF UseInv, Connections
  <1>8. \A f, g \in Fds : peer'[f] = peer'[g] /\ peer'[f] # NoConn => f = g
    BY <1>6, <1>7 DEF UseInv, Connections
  <1>9. \A d \in Conns : Len(stream'[d]) <= MaxInq
    BY <1>1, StreamsShorten
  <1>10. ASSUME NEW d \in Conns, Waits(d)'
         PROVE  mask'[d] = {} /\ \A g \in Fds : d \notin {peer'[g], table'[g], fired'[g]}
    <2>1. Waits(d) /\ d # c
      BY <1>1, <1>10, HeadLeaves DEF UseInv
    <2> QED BY <1>1, <1>6, <2>1 DEF UseInv, Connections
  <1>11. peer'[ListenFd] = NoConn
    BY <1>2, <1>6 DEF UseInv, Connections
  <1>12. /\ backlog' \in Seq(Conns) /\ Len(backlog') <= MaxInq
         /\ \A i, j \in DOMAIN backlog' : backlog'[i] = backlog'[j] => i = j
         /\ \A i \in DOMAIN backlog' : rid'[backlog'[i]] # Nobody
    BY <1>1, HeadLeaves DEF UseInv
  <1>13. gone' \in SUBSET Conns
    BY <1>1 DEF UseInv, Connections
  <1>14. Connections'
    BY <1>8, <1>9, <1>10, <1>11, <1>12, <1>13 DEF Connections
  <1> QED BY <1>1, <1>5, <1>14 DEF UseInv

LEMMA UseInductive == IInv /\ Attached /\ UseInv /\ [Next]_vars => UseInv'
  <1> SUFFICES ASSUME IInv, Attached, UseInv, [Next]_vars PROVE UseInv'
    OBVIOUS
  <1>0. gone \in SUBSET Conns /\ \A c \in Conns : Len(stream[c]) <= MaxInq
    BY DEF UseInv, Connections
  <1>1. CASE UNCHANGED vars \/ signal_exit
    <2>1. /\ UNCHANGED <<evlLoop, rset, fired, todo, listening, backlog, rid, peer, orphaned, gone, stream>>
          /\ alive' \in BOOLEAN
      BY <1>1 DEF vars, loop, evlLoop, clients, signal_exit, UseInv
    <2> QED BY <1>0, <2>1, UseQuiet
  <1>2. CASE Clients
    <2>1. PICK c \in Conns :
            \/ \E a \in Items : rt_message_connect(c, a)
            \/ rt_message_associate(c)
            \/ \E to \in Dests : awoke_rtmsg_send(c, to)
            \/ client_recv(c)
            \/ rt_message_handle_clean(c)
      BY <1>2 DEF Clients
    <2>2. CASE \E a \in Items : rt_message_connect(c, a)
      BY <2>2, UseConnect
    <2>3. CASE rt_message_associate(c)
      BY <2>3, UsePut DEF rt_message_associate
    <2>4. CASE \E to \in Dests : awoke_rtmsg_send(c, to)
      BY <2>4, UsePut DEF awoke_rtmsg_send
    <2>5. CASE rt_message_handle_clean(c)
      <3>1. /\ UNCHANGED <<evlLoop, rset, fired, todo, listening, backlog, rid, peer, orphaned, stream, alive>>
            /\ gone' = gone \cup {c}
        BY <2>5 DEF rt_message_handle_clean, loop, evlLoop, clients
      <3> QED BY <1>0, <3>1, UseQuiet DEF UseInv
    <2>6. CASE client_recv(c)
      <3>1. UNCHANGED <<evlLoop, rset, fired, todo, listening, backlog, rid, peer, orphaned, gone, stream, alive>>
        BY <2>6 DEF client_recv, loop, evlLoop, clients
      <3> QED BY <1>0, <3>1, UseQuiet DEF UseInv
    <2> QED BY <2>1, <2>2, <2>3, <2>4, <2>5, <2>6
  <1>3. ASSUME NEW fd \in Fds, accept_fails(fd) PROVE UseInv'
    <2>1. /\ UNCHANGED <<evlLoop, rset, fired, listening, backlog, rid, peer, orphaned, gone, stream, alive>>
          /\ todo' \subseteq todo
      BY <1>3 DEF accept_fails, Evl!Handle, Evl!Advance, clients
    <2> QED BY <1>0, <2>1, UseQuiet DEF UseInv
  <1>4. CASE router_main_loop
    BY <1>3, <1>4, UseWait, UseNotReady, UseProc, UseRefuse, UseListener DEF router_main_loop
  <1> QED BY <1>1, <1>2, <1>4 DEF Next

-----------------------------------------------------------------------------
(* Every step is a step of the loop, or none *)

LEMMA KernelKept ==
    ASSUME UNCHANGED <<peer, backlog, gone>>,
           \A fd \in Fds : peer[fd] # NoConn => Len(stream'[peer[fd]]) = Len(stream[peer[fd]])
    PROVE  Sock' = Sock /\ Inq' = Inq /\ Hup' = Hup
  BY DEF Sock, Inq, Hup

\* What is unread, descriptor by descriptor.
LEMMA InqValues ==
    /\ Inq = [fd \in Fds |-> Inq[fd]] /\ Inq' = [fd \in Fds |-> Inq'[fd]]
    /\ Inq[ListenFd] = Len(backlog) /\ Inq'[ListenFd] = Len(backlog')
    /\ \A fd \in Fds : fd # ListenFd =>
          /\ Inq[fd] = IF peer[fd] = NoConn THEN 0 ELSE Len(stream[peer[fd]])
          /\ Inq'[fd] = IF peer'[fd] = NoConn THEN 0 ELSE Len(stream'[peer'[fd]])
  BY DEF Inq

LEMMA InqOne ==
    ASSUME NEW fd \in Fds, NEW n, Inq'[fd] = n, \A f \in Fds : f # fd => Inq'[f] = Inq[f]
    PROVE  Inq' = [Inq EXCEPT ![fd] = n]
  BY InqValues

LEMMA InqTwo ==
    ASSUME NEW l \in Fds, NEW fd \in Fds, l # fd, NEW k, NEW n, Inq'[l] = k, Inq'[fd] = n,
           \A f \in Fds : f # fd /\ f # l => Inq'[f] = Inq[f]
    PROVE  Inq' = [Inq EXCEPT ![l] = k, ![fd] = n]
  BY InqValues

LEMMA LoopInit == Init => Evl!Init
  <1> SUFFICES ASSUME Init PROVE Evl!Init
    OBVIOUS
  <1>1. Sock = [fd \in Fds |-> IF fd = ListenFd THEN "listen" ELSE "closed"]
    BY DEF Init, Sock
  <1>2. Inq = [fd \in Fds |-> 0]
    <2>1. Len(backlog) = 0 /\ \A fd \in Fds : peer[fd] = NoConn
      BY DEF Init
    <2> QED BY <2>1 DEF Inq
  <1>3. Hup = {}
    BY DEF Init, Hup
  <1>4. Evl!asks
    BY DEF Init, Evl!asks
  <1> QED BY <1>1, <1>2, <1>3, <1>4 DEF Init, Evl!Init

\* The loop does not see whether the router runs, nor who waits where.
LEMMA NoLoopStep ==
    ASSUME UNCHANGED loop, Sock' = Sock, Inq' = Inq, Hup' = Hup PROVE UNCHANGED Evl!vars
  BY DEF loop, Evl!vars, Evl!loop, Evl!round, Evl!kernel

LEMMA LoopConnect ==
    ASSUME IInv, UseInv, NEW c \in Conns, NEW a \in Items, rt_message_connect(c, a) PROVE Evl!Connect
  <1>1. UNCHANGED <<loop, peer, stream, gone>> /\ Len(backlog) < MaxInq /\ backlog' = Append(backlog, c)
    BY DEF rt_message_connect
  <1>2. Len(backlog') = Len(backlog) + 1
    BY <1>1 DEF UseInv, Connections
  <1>3. Inq[ListenFd] = Len(backlog) /\ Sock' = Sock /\ Hup' = Hup
    BY <1>1 DEF Inq, Sock, Hup
  <1>4. Inq' = [Inq EXCEPT ![ListenFd] = @ + 1]
    BY <1>1, <1>2 DEF Inq
  <1>5. Sock[ListenFd] = "listen"
    BY RouterAssumption DEF Sock
  <1> QED BY <1>1, <1>3, <1>4, <1>5 DEF Evl!Connect, Evl!loop, Evl!round, loop

LEMMA LoopPut ==
    ASSUME IInv, UseInv, NEW c \in Conns, NEW to \in Dests \cup {Nobody}, Put(c, to)
    PROVE  (\E fd \in Fds : Evl!Send(fd)) \/ UNCHANGED Evl!vars
  <1>1. /\ UNCHANGED <<loop, peer, backlog, gone>> /\ Open(c) /\ Len(stream[c]) < MaxInq
        /\ stream' = [stream EXCEPT ![c] = Append(@, Msg(c, to))]
    BY DEF Put
  <1>2. /\ stream'[c] = Append(stream[c], Msg(c, to)) /\ Len(stream'[c]) = Len(stream[c]) + 1
        /\ \A d \in Conns : d # c => stream'[d] = stream[d]
    <2>1. stream \in [Conns -> Seq(Sendable)] /\ stream[c] \in Seq(Sendable)
      BY DEF IInv, Types
    <2>2. stream'[c] = Append(stream[c], Msg(c, to)) /\ \A d \in Conns : d # c => stream'[d] = stream[d]
      BY <1>1, <2>1
    <2>3. Len(Append(stream[c], Msg(c, to))) = Len(stream[c]) + 1
      BY <2>1
    <2> QED BY <2>2, <2>3
  <1>3. \A fd \in Fds : peer[fd] # NoConn => peer[fd] \in Conns
    BY DEF IInv, Types
  <1>4. CASE \E fd \in Fds : peer[fd] = c
    <2>1. PICK fd \in Fds : peer[fd] = c
      BY <1>4
    <2>2. fd # ListenFd /\ c # NoConn /\ c \notin gone
      BY <1>1, <2>1, StructFacts DEF UseInv, Connections, Open
    <2>3. \A f \in Fds : f # fd => peer[f] # c
      BY <2>1, <2>2 DEF UseInv, Connections
    <2>4. Sock[fd] = "conn" /\ fd \notin Hup /\ Inq[fd] = Len(stream[c])
      BY <2>1, <2>2 DEF Sock, Hup, Inq
    <2>5. Sock' = Sock /\ Hup' = Hup
      BY <1>1 DEF Sock, Hup
    <2>6. Inq' = [Inq EXCEPT ![fd] = @ + 1]
      <3>1. \A f \in Fds : f # fd /\ peer[f] # NoConn => stream'[peer[f]] = stream[peer[f]]
        BY <1>2, <1>3, <2>3
      <3>2. Inq'[fd] = Inq[fd] + 1
        BY <1>1, <1>2, <2>1, <2>2, InqValues
      <3>3. ASSUME NEW f \in Fds, f # fd PROVE Inq'[f] = Inq[f]
        <4>a. CASE f = ListenFd
          BY <1>1, <4>a, InqValues
        <4>b. CASE f # ListenFd /\ peer[f] = NoConn
          BY <1>1, <4>b, InqValues
        <4>c. CASE f # ListenFd /\ peer[f] # NoConn
          <5>1. stream'[peer[f]] = stream[peer[f]] /\ peer'[f] = peer[f]
            BY <1>1, <3>1, <3>3, <4>c
          <5> QED BY <5>1, <4>c, InqValues
        <4> QED BY <4>a, <4>b, <4>c
      <3> QED BY <3>2, <3>3, InqOne
    <2>7. Evl!Send(fd)
      BY <1>1, <2>4, <2>5, <2>6 DEF Evl!Send, Evl!loop, Evl!round, loop
    <2> QED BY <2>7
  <1>5. CASE ~ \E fd \in Fds : peer[fd] = c
    <2>1. \A fd \in Fds : peer[fd] # NoConn => stream'[peer[fd]] = stream[peer[fd]]
      BY <1>2, <1>3, <1>5
    <2> QED BY <1>1, <2>1, KernelKept, NoLoopStep
  <1> QED BY <1>4, <1>5

LEMMA LoopClean ==
    ASSUME IInv, UseInv, NEW c \in Conns, rt_message_handle_clean(c)
    PROVE  (\E fd \in Fds : Evl!PeerCloses(fd)) \/ UNCHANGED Evl!vars
  <1>1. UNCHANGED <<loop, peer, backlog, stream>> /\ gone' = gone \cup {c}
    BY DEF rt_message_handle_clean
  <1>2. Sock' = Sock /\ Inq' = Inq
    BY <1>1 DEF Sock, Inq
  <1>3. CASE \E fd \in Fds : peer[fd] = c
    <2>1. PICK fd \in Fds : peer[fd] = c
      BY <1>3
    <2>2. fd # ListenFd /\ c # NoConn
      BY <2>1, StructFacts DEF UseInv, Connections
    <2>3. \A f \in Fds : f # fd => peer[f] # c
      BY <2>1, <2>2 DEF UseInv, Connections
    <2>4. Sock[fd] = "conn"
      BY <2>1, <2>2 DEF Sock
    <2>5. Hup' = Hup \cup {fd}
      BY <1>1, <2>1, <2>3 DEF Hup
    <2>6. Evl!PeerCloses(fd)
      BY <1>1, <1>2, <2>4, <2>5 DEF Evl!PeerCloses, Evl!loop, Evl!round, loop
    <2> QED BY <2>6
  <1>4. CASE ~ \E fd \in Fds : peer[fd] = c
    <2>1. Hup' = Hup
      BY <1>1, <1>4 DEF Hup
    <2> QED BY <1>1, <1>2, <2>1, NoLoopStep
  <1> QED BY <1>3, <1>4

\* An event is in the table, and fired, under its own descriptor.
Located ==
    /\ \A fd \in Fds : table[fd] # NoEvent => fdOf[table[fd]] = fd
    /\ \A fd \in Fds : fired[fd] # NoEvent => fdOf[fired[fd]] = fd

LEMMA LocatedInit == Init => Located
  BY DEF Init, Located

LEMMA LocatedInductive == UseInv /\ Located /\ [Next]_vars => Located'
  <1> SUFFICES ASSUME UseInv, Located, [Next]_vars PROVE Located'
    OBVIOUS
  <1>1. ASSUME UNCHANGED <<table, fdOf, fired>> PROVE Located'
    BY <1>1 DEF Located
  <1>2. CASE UNCHANGED vars \/ Clients \/ signal_exit
    <2>1. UNCHANGED <<table, fdOf, fired>>
      BY <1>2 DEF vars, loop, Clients, signal_exit, rt_message_connect, rt_message_associate,
                  awoke_rtmsg_send, Put, client_recv, rt_message_handle_clean
    <2> QED BY <1>1, <2>1
  <1>3. CASE awoke_event_wait
    <2>1. UNCHANGED <<table, fdOf>>
          /\ fired' = [fd \in Fds |-> IF fd \in Evl!Reported THEN table[fd] ELSE NoEvent]
      BY <1>3 DEF awoke_event_wait, Evl!awoke_event_wait, Evl!loop
    <2> QED BY <2>1 DEF Located
  <1>4. ASSUME NEW fd \in Fds, NotReady(fd) PROVE Located'
    <2>1. UNCHANGED <<fdOf, fired>>
      BY <1>4 DEF NotReady, Evl!DropEvent, Evl!SkipEvent, Evl!Advance, Evl!awoke_event_del, Evl!loop
    <2>2. UNCHANGED table \/ \E e : table' = [table EXCEPT ![fdOf[e]] = NoEvent]
      BY <1>4 DEF NotReady, Evl!DropEvent, Evl!SkipEvent, Evl!awoke_event_del, Evl!loop
    <2>3. \A f \in Fds : table'[f] = table[f] \/ table'[f] = NoEvent
      BY <2>2 DEF UseInv, LoopTypes
    <2>4. \A f \in Fds : table'[f] # NoEvent => table'[f] = table[f]
      BY <2>3
    <2> QED BY <2>1, <2>4 DEF Located
  <1>5. ASSUME NEW fd \in Fds, router_connect_proc(fd) \/ accept_fails(fd) PROVE Located'
    <2>1. UNCHANGED <<table, fdOf, fired>>
      BY <1>5 DEF router_connect_proc, accept_fails, evlLoop, Evl!Handle, Evl!Advance
    <2> QED BY <1>1, <2>1
  <1>6. ASSUME NEW fd \in Fds, NEW c \in Conns, NEW new \in Fds,
               listener_proc_refuses(fd, c, new) \/ listener_proc_fails(fd, c, new)
        PROVE  Located'
    <2>1. UNCHANGED <<table, fdOf, fired>>
      BY <1>6 DEF listener_proc_refuses, listener_proc_fails, Accepts, evlLoop, Evl!Handle, Evl!Advance
    <2> QED BY <1>1, <2>1
  <1>7. ASSUME NEW fd \in Fds, NEW c \in Conns, NEW new \in Fds, router_listener_proc(fd, c, new)
        PROVE  Located'
    <2>1. /\ UNCHANGED <<fired, rid>> /\ backlog # <<>> /\ backlog' = Tail(backlog) /\ c = Head(backlog)
          /\ fdOf' = [fdOf EXCEPT ![c] = new] /\ table' = [table EXCEPT ![new] = c]
      BY <1>7 DEF router_listener_proc, Accepts, Evl!Handle, Evl!Advance, Evl!awoke_event_add, clients
    <2>2. Waits(c)
      BY <2>1, HeadLeaves DEF UseInv
    <2>3. \A f \in Fds : table[f] # c /\ fired[f] # c
      BY <2>2 DEF UseInv, Connections
    <2>4. /\ fdOf'[c] = new /\ \A e \in Structs : e # c => fdOf'[e] = fdOf[e]
          /\ table'[new] = c /\ \A f \in Fds : f # new => table'[f] = table[f]
      BY <2>1 DEF UseInv, LoopTypes, Structs
    <2>5. ASSUME NEW f \in Fds, table'[f] # NoEvent PROVE fdOf'[table'[f]] = f
      <3>1. CASE f = new
        BY <2>4, <3>1
      <3>2. CASE f # new
        <4>1. table'[f] = table[f] /\ table[f] \in Structs /\ table[f] # c
          BY <2>3, <2>4, <2>5, <3>2 DEF UseInv, LoopTypes
        <4> QED BY <2>4, <2>5, <4>1 DEF Located
      <3> QED BY <3>1, <3>2
    <2>6. ASSUME NEW f \in Fds, fired'[f] # NoEvent PROVE fdOf'[fired'[f]] = f
      <3>1. fired'[f] = fired[f] /\ fired[f] \in Structs /\ fired[f] # c
        BY <2>1, <2>3, <2>6 DEF UseInv, LoopTypes
      <3> QED BY <2>4, <2>6, <3>1 DEF Located
    <2> QED BY <2>5, <2>6 DEF Located
  <1> QED BY <1>2, <1>3, <1>4, <1>5, <1>6, <1>7 DEF Next, router_main_loop

LEMMA LoopProc ==
    ASSUME IInv, Attached, UseInv, Located, NEW fd \in Fds, router_connect_proc(fd) PROVE Evl!HandleRead(fd)
  <1> DEFINE c == peer[fd]
  <1>1. /\ UNCHANGED <<evlLoop, peer, backlog, gone>> /\ fd \in todo /\ Evl!Handle(fd) /\ fired[fd] # Listener
        /\ stream[c] # <<>> /\ stream' = [stream EXCEPT ![c] = Tail(@)]
    BY DEF router_connect_proc, Evl!Handle, Evl!Advance, Evl!Turn
  <1>2. c \in Conns /\ c # NoConn
    BY <1>1 DEF Attached, IInv, Types
  <1>3. fd # ListenFd /\ \A f \in Fds : f # fd => peer[f] # c
    BY <1>2 DEF UseInv, Connections
  <1>4. /\ stream'[c] = Tail(stream[c]) /\ Len(stream'[c]) = Len(stream[c]) - 1 /\ Len(stream[c]) > 0
        /\ \A d \in Conns : d # c => stream'[d] = stream[d]
    <2>1. stream \in [Conns -> Seq(Sendable)] /\ stream[c] \in Seq(Sendable)
      BY <1>2 DEF IInv, Types
    <2>2. stream'[c] = Tail(stream[c]) /\ \A d \in Conns : d # c => stream'[d] = stream[d]
      BY <1>1, <1>2, <2>1
    <2>3. Len(Tail(stream[c])) = Len(stream[c]) - 1 /\ Len(stream[c]) > 0
      BY <1>1, <2>1
    <2> QED BY <2>2, <2>3
  <1>5. Sock' = Sock /\ Hup' = Hup
    BY <1>1 DEF Sock, Hup
  <1>6. \A f \in Fds : f # fd /\ peer[f] # NoConn => stream'[peer[f]] = stream[peer[f]]
    BY <1>3, <1>4 DEF IInv, Types
  <1>7. Inq[fd] = Len(stream[c])
    BY <1>2, <1>3 DEF Inq
  <1>8. Inq' = [Inq EXCEPT ![fd] = IF @ > 0 THEN @ - 1 ELSE @]
    <2>1. Inq' = [Inq EXCEPT ![fd] = Len(stream[c]) - 1]
      <3>1. Inq'[fd] = Len(stream[c]) - 1
        BY <1>1, <1>2, <1>3, <1>4, InqValues
      <3>2. ASSUME NEW f \in Fds, f # fd PROVE Inq'[f] = Inq[f]
        <4>a. CASE f = ListenFd
          BY <1>1, <4>a, InqValues
        <4>b. CASE f # ListenFd /\ peer[f] = NoConn
          BY <1>1, <4>b, InqValues
        <4>c. CASE f # ListenFd /\ peer[f] # NoConn
          <5>1. stream'[peer[f]] = stream[peer[f]] /\ peer'[f] = peer[f]
            BY <1>1, <1>6, <3>2, <4>c
          <5> QED BY <5>1, <4>c, InqValues
        <4> QED BY <4>a, <4>b, <4>c
      <3> QED BY <3>1, <3>2, InqOne
    <2> QED BY <1>4, <1>7, <2>1
  <1>9. fdOf[fired[fd]] = fd
    <2>1. fired[fd] # NoEvent
      BY <1>1 DEF UseInv, LoopTypes
    <2> QED BY <2>1 DEF Located
  <1> QED BY <1>1, <1>5, <1>8, <1>9 DEF Evl!HandleRead, Evl!HandleConnection, Evl!loop, evlLoop

LEMMA LoopRefuse ==
    ASSUME IInv, UseInv, NEW lfd \in Fds, NEW c \in Conns, NEW fd \in Fds,
           listener_proc_refuses(lfd, c, fd) \/ listener_proc_fails(lfd, c, fd)
    PROVE  Evl!HandleRefuse(lfd, fd)
  <1>1. /\ UNCHANGED <<evlLoop, peer, rid, stream, gone>> /\ backlog # <<>> /\ backlog' = Tail(backlog)
        /\ Evl!Handle(lfd) /\ fired[lfd] = Listener /\ Evl!NextFree(fd)
    BY DEF listener_proc_refuses, listener_proc_fails, Accepts, clients
  <1>2. Len(backlog') = Len(backlog) - 1
    BY <1>1, HeadLeaves DEF UseInv
  <1>3. Sock' = Sock /\ Hup' = Hup
    BY <1>1 DEF Sock, Hup
  <1>4. Inq' = [Inq EXCEPT ![ListenFd] = @ - 1]
    BY <1>1, <1>2 DEF Inq
  <1> QED BY <1>1, <1>3, <1>4 DEF Evl!HandleRefuse, Evl!loop, evlLoop

\* An accepted connection's structure is not in use, and what it has sent so far
\* is what the loop finds on its descriptor.
LEMMA LoopAccept ==
    ASSUME IInv, UseInv, NEW lfd \in Fds, NEW c \in Conns, NEW fd \in Fds, router_listener_proc(lfd, c, fd)
    PROVE  Evl!HandleAccept(lfd, c, fd)
  <1>1. /\ UNCHANGED <<rid, gone>> /\ backlog # <<>> /\ backlog' = Tail(backlog) /\ c = Head(backlog)
        /\ stream[c] # <<>> /\ stream' = [stream EXCEPT ![c] = Tail(@)] /\ peer' = [peer EXCEPT ![fd] = c]
        /\ Evl!Handle(lfd) /\ fired[lfd] = Listener /\ Evl!NextFree(fd) /\ fd <= FdSetSize
        /\ Evl!awoke_event_add(c, fd, {"READ"})
    BY DEF router_listener_proc, Accepts, Associates, clients
  <1>2. peer[fd] = NoConn /\ fd # ListenFd
    <2>1. Sock[fd] = "closed"
      BY <1>1 DEF Evl!NextFree
    <2> QED BY <2>1 DEF Sock
  <1>3. Waits(c) /\ Len(backlog') = Len(backlog) - 1
    BY <1>1, HeadLeaves DEF UseInv
  <1>4. mask[c] = {} /\ \A f \in Fds : peer[f] # c /\ fired[f] # c
    BY <1>3 DEF UseInv, Connections
  <1>5. ~Evl!Registered(c) /\ \A f \in todo : fired[f] # c
    BY <1>4 DEF Evl!Registered, UseInv, LoopTypes
  <1>6. /\ peer'[fd] = c /\ c # NoConn /\ \A f \in Fds : f # fd => peer'[f] = peer[f]
    BY <1>1, StructFacts DEF IInv, Types
  <1>7. \A d \in Conns : d # c => stream'[d] = stream[d]
    BY <1>1 DEF IInv, Types
  <1>8. \A f \in Fds : f # fd /\ peer[f] # NoConn => stream'[peer'[f]] = stream[peer[f]]
    BY <1>4, <1>6, <1>7 DEF IInv, Types
  <1>9. Len(stream'[c]) \in 0 .. MaxInq
    <2>1. Len(stream'[c]) <= MaxInq
      BY <1>1, StreamsShorten
    <2>2. stream[c] \in Seq(Sendable) /\ stream \in [Conns -> Seq(Sendable)]
      BY DEF IInv, Types
    <2>3. stream'[c] = Tail(stream[c]) /\ Tail(stream[c]) \in Seq(Sendable)
      BY <1>1, <2>2
    <2>4. Len(stream'[c]) \in Nat
      BY <2>3
    <2> QED BY <2>1, <2>4
  <1>10. Sock' = [Sock EXCEPT ![fd] = "conn"]
    BY <1>2, <1>6 DEF Sock
  <1>11. Hup' \in {Hup, Hup \cup {fd}}
    <2>1. NoConn \notin gone
      BY StructFacts DEF UseInv, Connections
    <2>2. CASE c \in gone
      <3>1. Hup' = Hup \cup {fd}
        BY <1>1, <1>6, <2>2 DEF Hup
      <3> QED BY <3>1
    <2>3. CASE c \notin gone
      <3>1. Hup' = Hup
        BY <1>1, <1>2, <1>6, <2>1, <2>3 DEF Hup
      <3> QED BY <3>1
    <2> QED BY <2>2, <2>3
  <1>12. Inq' = [Inq EXCEPT ![ListenFd] = @ - 1, ![fd] = Len(stream'[c])]
    <2>1. Inq'[ListenFd] = Inq[ListenFd] - 1
      BY <1>3, InqValues
    <2>2. Inq'[fd] = Len(stream'[c])
      BY <1>2, <1>6, InqValues
    <2>3. ASSUME NEW f \in Fds, f # fd, f # ListenFd PROVE Inq'[f] = Inq[f]
      <3>1. peer'[f] = peer[f]
        BY <1>6, <2>3
      <3>2. CASE peer[f] = NoConn
        BY <2>3, <3>1, <3>2, InqValues
      <3>3. CASE peer[f] # NoConn
        <4>1. stream'[peer'[f]] = stream[peer[f]]
          BY <1>8, <2>3, <3>3
        <4> QED BY <2>3, <3>1, <3>3, <4>1, InqValues
      <3> QED BY <3>2, <3>3
    <2>4. Inq' = [Inq EXCEPT ![ListenFd] = Inq[ListenFd] - 1, ![fd] = Len(stream'[c])]
      <3>1. ListenFd \in Fds
        BY RouterAssumption
      <3>2. PICK k, n : k = Inq[ListenFd] - 1 /\ n = Len(stream'[c])
        OBVIOUS
      <3>3. Inq' = [Inq EXCEPT ![ListenFd] = k, ![fd] = n]
        BY <1>2, <2>1, <2>2, <2>3, <3>1, <3>2, InqTwo
      <3> QED BY <3>2, <3>3
    <2> QED BY <2>4
  <1> QED BY <1>1, <1>5, <1>9, <1>10, <1>11, <1>12 DEF Evl!HandleAccept

LEMMA LoopStep == IInv /\ Attached /\ UseInv /\ Located /\ [Next]_vars => [Evl!Next]_(Evl!vars)
  <1> SUFFICES ASSUME IInv, Attached, UseInv, Located, [Next]_vars PROVE Evl!Next \/ UNCHANGED Evl!vars
    OBVIOUS
  <1>1. CASE UNCHANGED vars \/ signal_exit
    <2>1. UNCHANGED <<loop, peer, backlog, gone, stream>>
      BY <1>1 DEF vars, signal_exit
    <2> QED BY <2>1, KernelKept, NoLoopStep
  <1>2. CASE Clients
    <2>1. PICK c \in Conns :
            \/ \E a \in Items : rt_message_connect(c, a)
            \/ rt_message_associate(c)
            \/ \E to \in Dests : awoke_rtmsg_send(c, to)
            \/ client_recv(c)
            \/ rt_message_handle_clean(c)
      BY <1>2 DEF Clients
    <2>2. CASE \E a \in Items : rt_message_connect(c, a)
      BY <2>2, LoopConnect DEF Evl!Next, Evl!Peers
    <2>3. CASE \E to \in Dests \cup {Nobody} : Put(c, to)
      BY <2>3, LoopPut DEF Evl!Next, Evl!Peers
    <2>4. CASE rt_message_handle_clean(c)
      BY <2>4, LoopClean DEF Evl!Next, Evl!Peers
    <2>5. CASE client_recv(c)
      <3>1. UNCHANGED <<loop, peer, backlog, gone, stream>>
        BY <2>5 DEF client_recv
      <3> QED BY <3>1, KernelKept, NoLoopStep
    <2> QED BY <2>1, <2>2, <2>3, <2>4, <2>5 DEF rt_message_associate, awoke_rtmsg_send
  <1>3. CASE awoke_event_wait
    BY <1>3 DEF awoke_event_wait, Evl!Next, Evl!Loop
  <1>4. ASSUME NEW fd \in Fds, NotReady(fd) PROVE Evl!Next
    BY <1>4 DEF NotReady, Evl!Next, Evl!Loop
  <1>5. ASSUME NEW fd \in Fds, router_connect_proc(fd) PROVE Evl!Next
    BY <1>5, LoopProc DEF Evl!Next, Evl!Loop
  <1>6. ASSUME NEW fd \in Fds, accept_fails(fd) PROVE Evl!Next
    <2>1. UNCHANGED <<evlLoop, peer, backlog, gone, stream>> /\ Evl!Handle(fd) /\ fired[fd] = Listener
      BY <1>6 DEF accept_fails
    <2>2. Evl!HandleAcceptFails(fd)
      BY <2>1, KernelKept DEF Evl!HandleAcceptFails, Evl!loop, Evl!kernel, evlLoop
    <2> QED BY <2>2 DEF Evl!Next, Evl!Loop
  <1>7. ASSUME NEW fd \in Fds, NEW c \in Conns, NEW new \in Fds,
               listener_proc_refuses(fd, c, new) \/ listener_proc_fails(fd, c, new)
        PROVE  Evl!Next
    <2>1. Evl!HandleRefuse(fd, new)
      BY <1>7, LoopRefuse
    <2> QED BY <2>1 DEF Evl!Next, Evl!Loop
  <1>8. ASSUME NEW fd \in Fds, NEW c \in Conns, NEW new \in Fds, router_listener_proc(fd, c, new)
        PROVE  Evl!Next
    <2>1. Evl!HandleAccept(fd, c, new)
      BY <1>8, LoopAccept
    <2> QED BY <2>1 DEF Evl!Next, Evl!Loop
  <1>9. CASE router_main_loop
    BY <1>3, <1>4, <1>5, <1>6, <1>7, <1>8, <1>9 DEF router_main_loop
  <1> QED BY <1>1, <1>2, <1>9 DEF Next

\* No client's socket holds more than it can.
Held == inbox \in [Conns -> 0 .. MaxOut]

LEMMA FilledType == ASSUME NEW n \in Nat PROVE Filled(n) \in 0 .. MaxOut
  BY RouterAssumption DEF Filled

LEMMA HeldInit == Init => Held
  BY RouterAssumption DEF Init, Held

LEMMA HeldInductive == IInv /\ Held /\ [Next]_vars => Held'
  <1> SUFFICES ASSUME IInv, Held, [Next]_vars PROVE Held'
    OBVIOUS
  <1>1. ASSUME UNCHANGED inbox PROVE Held'
    BY <1>1 DEF Held
  <1>2. ASSUME NEW c \in Conns, client_recv(c) PROVE Held'
    <2>1. inbox' = [inbox EXCEPT ![c] = @ - 1] /\ inbox[c] > 0
      BY <1>2 DEF client_recv
    <2>2. inbox[c] - 1 \in 0 .. MaxOut
      BY <2>1, RouterAssumption DEF Held
    <2> QED BY <2>1, <2>2 DEF Held
  <1>3. ASSUME NEW m, NEW B \in SUBSET Reached(Items), Written(m, B) PROVE Held'
    <2>1. inbox' = [c \in Conns |-> Filled(inbox[c] + Copies(c, B))]
      BY <1>3 DEF Written
    <2>2. ASSUME NEW c \in Conns PROVE Filled(inbox[c] + Copies(c, B)) \in 0 .. MaxOut
      <3>1. inbox[c] \in Nat /\ Copies(c, B) \in Nat
        BY <1>3, OneCopy, RouterAssumption DEF Held
      <3>2. PICK n : n = inbox[c] + Copies(c, B)
        OBVIOUS
      <3>3. n \in Nat
        BY <3>1, <3>2
      <3>4. Filled(n) \in 0 .. MaxOut
        BY <3>3, FilledType
      <3> QED BY <3>2, <3>4
    <2> QED BY <2>1, <2>2 DEF Held
  <1>4. ASSUME NEW fd \in Fds, router_connect_proc(fd) PROVE Held'
    <2>1. PICK m : router_fdt_deliver(m)
      BY <1>4 DEF router_connect_proc
    <2>2. UNCHANGED inbox \/ \E B \in SUBSET Reached(Items) : Written(m, B)
      BY <2>1 DEF router_fdt_deliver, forward_deliver_broadcast, forward_deliver_unicast, written, Reached
    <2> QED BY <1>1, <1>3, <2>2
  <1>5. CASE UNCHANGED vars \/ signal_exit \/ awoke_event_wait
    BY <1>1, <1>5 DEF vars, written, signal_exit, awoke_event_wait
  <1>6. CASE Clients
    <2>1. UNCHANGED inbox \/ \E c \in Conns : client_recv(c)
      BY <1>6 DEF Clients, rt_message_connect, rt_message_associate, awoke_rtmsg_send, Put,
                  rt_message_handle_clean, written
    <2> QED BY <1>1, <1>2, <2>1
  <1>7. ASSUME NEW fd \in Fds, NotReady(fd) \/ accept_fails(fd) PROVE Held'
    BY <1>1, <1>7 DEF NotReady, accept_fails, written
  <1>8. ASSUME NEW fd \in Fds, NEW c \in Conns, NEW new \in Fds,
               router_listener_proc(fd, c, new) \/ listener_proc_refuses(fd, c, new)
               \/ listener_proc_fails(fd, c, new)
        PROVE  Held'
    BY <1>1, <1>8 DEF router_listener_proc, listener_proc_refuses, listener_proc_fails, Accepts, written
  <1> QED BY <1>4, <1>5, <1>6, <1>7, <1>8 DEF Next, router_main_loop

LEMMA Uses == Spec => [](IInv /\ Attached /\ UseInv /\ Located /\ Held)
  BY Initially, UseInit, LocatedInit, HeldInit, Inductive, AttachedInductive, UseInductive,
     LocatedInductive, HeldInductive, PTL DEF Spec

\* The router uses the event loop as its users do: whatever its handlers, the
\* clients and the kernel do, each step is a step of the loop or invisible to it.
\* In particular an accepted connection's event is never one the loop still has.
THEOREM UsesLoop == Spec => LoopSpec
  BY LoopInit, LoopStep, Uses, PTL DEF Spec, LoopSpec, Evl!Spec

\* Type correctness, the loop's included: in particular no socket ever holds more
\* than the bound of the loop's model, and the loop never has a turn without event.
THEOREM TypeCorrect == Spec => []TypeOK
  <1>1. ASSUME IInv, UseInv, Held PROVE TypeOK
    <2>1. Sock \in [Fds -> {"closed", "listen", "conn"}] /\ Hup \in SUBSET Fds
      BY DEF Sock, Hup
    <2>2. Inq \in [Fds -> 0 .. MaxInq]
      <3>1. Len(backlog) \in 0 .. MaxInq
        <4>1. Len(backlog) \in Nat /\ Len(backlog) <= MaxInq
          BY <1>1 DEF UseInv, Connections
        <4> QED BY <4>1
      <3>2. ASSUME NEW c \in Conns PROVE Len(stream[c]) \in 0 .. MaxInq
        <4>1. stream[c] \in Seq(Sendable) /\ Len(stream[c]) <= MaxInq
          BY <1>1 DEF IInv, Types, UseInv, Connections
        <4>2. Len(stream[c]) \in Nat
          BY <4>1
        <4> QED BY <4>1, <4>2
      <3>3. \A fd \in Fds : peer[fd] # NoConn => peer[fd] \in Conns
        BY <1>1 DEF IInv, Types
      <3> QED BY <3>1, <3>2, <3>3 DEF Inq
    <2>3. Evl!TypeOK
      BY <1>1, <2>1, <2>2 DEF Evl!TypeOK, UseInv, LoopTypes, Structs
    <2> QED BY <1>1, <2>3 DEF TypeOK, IInv, Types, UseInv, Held, Connections, Entries, Sendable, Messages
  <1> QED BY <1>1, Uses, PTL

-----------------------------------------------------------------------------
(* The theorems of the event loop, for the loop in the router *)

EvlP == INSTANCE AwokeEventProofs WITH Events <- Conns \cup {Listener},
                                       sock <- Sock, inq <- Inq, hup <- Hup

\* What AwokeEventProofs proves of every user of the loop.
LoopSafe == Evl!Consistent /\ Evl!MaxFdCovers /\ Evl!NoClosedFd /\ Evl!NoStaleTurn

\* It is the same loop.
LEMMA SameLoop == LoopSpec => EvlP!Spec
  <1>1. Evl!Init => EvlP!Init
    BY DEF Evl!Init, EvlP!Init, Evl!asks, EvlP!asks
  <1>2. Evl!Next => EvlP!Next
    BY DEF Evl!loop, Evl!round, Evl!kernel, Evl!Registered, Evl!Dispatching,
             Evl!SearchEnd, Evl!awoke_event_del, Evl!awoke_event_add,
             Evl!awoke_sock_fd_read_ready, Evl!Connect, Evl!Send, Evl!PeerCloses,
             Evl!Readable, Evl!Writable, Evl!Reported, Evl!awoke_event_wait, Evl!Turn,
             Evl!awoke_event_ready, Evl!Advance, Evl!DropEvent, Evl!SkipEvent, Evl!Handle,
             Evl!NextFree, Evl!HandleAccept, Evl!HandleRefuse, Evl!HandleAcceptFails,
             Evl!HandleRead, Evl!Serve, Evl!HandleConnection, Evl!Close, Evl!mtk_event_change_mask, Evl!BetweenRounds,
             Evl!OpenConnection, Evl!CloseConnection, Evl!AskToWrite, Evl!User, Evl!asks,
             Evl!HandleClose, Evl!HandleMask, Evl!Peers,
             Evl!Loop, Evl!Next,
             EvlP!loop, EvlP!round, EvlP!kernel, EvlP!Registered, EvlP!Dispatching,
             EvlP!SearchEnd, EvlP!awoke_event_del, EvlP!awoke_event_add,
             EvlP!awoke_sock_fd_read_ready, EvlP!Connect, EvlP!Send, EvlP!PeerCloses,
             EvlP!Readable, EvlP!Writable, EvlP!Reported, EvlP!awoke_event_wait, EvlP!Turn,
             EvlP!awoke_event_ready, EvlP!Advance, EvlP!DropEvent, EvlP!SkipEvent,
             EvlP!Handle, EvlP!NextFree, EvlP!HandleAccept, EvlP!HandleRefuse,
             EvlP!HandleAcceptFails, EvlP!HandleRead, EvlP!Serve, EvlP!HandleConnection, EvlP!Close, EvlP!mtk_event_change_mask, EvlP!BetweenRounds,
             EvlP!OpenConnection, EvlP!CloseConnection, EvlP!AskToWrite, EvlP!User, EvlP!asks,
             EvlP!HandleClose,
             EvlP!HandleMask, EvlP!Peers, EvlP!Loop, EvlP!Next
  <1>3. (UNCHANGED Evl!vars) => UNCHANGED EvlP!vars
    BY DEF Evl!vars, EvlP!vars, Evl!loop, Evl!round, Evl!kernel, EvlP!loop, EvlP!round, EvlP!kernel
  <1>4. [Evl!Next]_(Evl!vars) => [EvlP!Next]_(EvlP!vars)
    BY <1>2, <1>3
  <1> QED BY <1>1, <1>4, PTL DEF LoopSpec, Evl!Spec, EvlP!Spec

\* In the router, the loop's table and the sets it selects on agree, select looks
\* at every registered descriptor and at no closed one, and no handler runs for a
\* connection that an earlier handler of the round dropped.
THEOREM RouterLoopSafe == Spec => []LoopSafe
  <1>1. EvlP!EventAssumption
    BY RouterAssumption DEF EvlP!EventAssumption
  <1>2. EvlP!Spec => [](EvlP!Consistent /\ EvlP!MaxFdCovers /\ EvlP!NoClosedFd /\ EvlP!NoStaleTurn)
    BY <1>1, EvlP!LoopConsistent, EvlP!MaxFdAlwaysCovers, EvlP!NeverClosedFd, EvlP!TurnsNeverStale, PTL
  <1>3. EvlP!Consistent => Evl!Consistent
    BY DEF EvlP!Consistent, Evl!Consistent, EvlP!Registered, Evl!Registered
  <1>4. EvlP!MaxFdCovers => Evl!MaxFdCovers
    BY DEF EvlP!MaxFdCovers, Evl!MaxFdCovers
  <1>5. EvlP!NoClosedFd => Evl!NoClosedFd
    BY DEF EvlP!NoClosedFd, Evl!NoClosedFd
  <1>6. EvlP!NoStaleTurn => Evl!NoStaleTurn
    BY DEF EvlP!NoStaleTurn, Evl!NoStaleTurn, EvlP!awoke_event_ready, Evl!awoke_event_ready,
           EvlP!awoke_sock_fd_read_ready, Evl!awoke_sock_fd_read_ready, EvlP!asks, Evl!asks,
           EvlP!Registered, Evl!Registered
  <1> QED BY <1>2, <1>3, <1>4, <1>5, <1>6, UsesLoop, SameLoop, PTL DEF LoopSafe

=============================================================================
