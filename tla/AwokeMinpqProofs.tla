-------------------------- MODULE AwokeMinpqProofs --------------------------
(***************************************************************************)
(* The heap order of AwokeMinpq for every set of nodes and priorities and  *)
(* every capacity.  Between calls the order is complete; while a node      *)
(* swims or sinks it may be broken at one place only, next to slot k, and  *)
(* the slots on both sides of k are in order with each other.  A removal   *)
(* that bends the heap ends all that, but for the types.  The queue is a   *)
(* priority queue at every step: what moves a node moves no element in or  *)
(* out, and the node behind the last one is never counted.                 *)
(***************************************************************************)
EXTENDS AwokeMinpq, WellFoundedInduction, FiniteSetTheorems, TLAPS

\* What orders the slots.
Keys == IF custom THEN q ELSE p

\* The places where an array a of n nodes is in order, given the one where it
\* need not be.
OrderedBut(a, n, j) == \A i \in 2 .. n : i # j => a[i \div 2] <= a[i]

OrderedButBelow(a, n, j) == \A i \in 2 .. n : i \div 2 # j => a[i \div 2] <= a[i]

\* The children of j are not below j's parent.
Bridges(a, n, j) == \A i \in 2 .. n : i \div 2 = j /\ j > 1 => a[j \div 2] <= a[i]

Types ==
    /\ TypeOK
    /\ grows => custom
    /\ pc = "swim" => k \in 1 .. nr
    /\ pc = "sink" => k \in 1 .. (nr + 1) /\ nr < capacity

Order ==
    /\ pc = "idle" /\ ~bent => OrderedBut(Keys, nr, 1)
    /\ pc = "swim" /\ ~bent => OrderedBut(Keys, nr, k) /\ Bridges(Keys, nr, k)
    /\ pc = "sink" /\ ~bent => OrderedButBelow(Keys, nr, k) /\ Bridges(Keys, nr, k)

Ops == {"insert", "delmin", "del", "get"}

IInv == Types /\ Order

USE MinpqAssumption

-----------------------------------------------------------------------------
(* Facts about arrays *)

\* Every non-empty set of slot numbers has a least one.
LEMMA LeastSlot ==
    ASSUME NEW T, T \subseteq Nat, T # {}
    PROVE  \E x \in T : \A y \in T : x <= y
  <1>1. PICK x \in T : \A y \in T : ~(<<y, x>> \in OpToRel(<, Nat))
    BY NatLessThanWellFounded, WFMin
  <1>2. ASSUME NEW y \in T PROVE x <= y
    <2>1. x \in Nat /\ y \in Nat
      OBVIOUS
    <2>2. <<y, x>> \in Nat \X Nat /\ ~(<<y, x>> \in OpToRel(<, Nat))
      BY <1>1, <2>1
    <2>3. ~(y < x)
      BY <2>1, <2>2 DEF OpToRel
    <2> QED BY <2>1, <2>3
  <1> QED BY <1>2

\* In an ordered array the first node is a least one: a lesser one nearest to
\* the root would be lesser than its parent.
LEMMA OrderedRoot ==
    ASSUME NEW c \in Nat, NEW a \in [1 .. c -> Int], NEW n \in 0 .. c, OrderedBut(a, n, 1)
    PROVE  \A i \in 1 .. n : a[1] <= a[i]
  <1> DEFINE T == {i \in 1 .. n : a[1] > a[i]}
  <1>1. ASSUME T # {} PROVE FALSE
    <2>1. T \subseteq Nat
      OBVIOUS
    <2> HIDE DEF T
    <2>2. PICK x \in T : \A y \in T : x <= y
      BY <1>1, <2>1, LeastSlot
    <2>3. x \in 1 .. n /\ a[1] > a[x]
      BY <2>2 DEF T
    <2>4. x \in 2 .. n /\ x \in 1 .. c /\ 1 \in 1 .. c
      <3>1. a[1] \in Int
        BY <2>3
      <3>2. x # 1
        BY <2>3, <3>1
      <3> QED BY <2>3, <3>2
    <2>5. x \div 2 \in 1 .. n /\ x \div 2 < x /\ x \div 2 \in 1 .. c /\ x # 1
      BY <2>4
    <2>6. a[x \div 2] <= a[x]
      BY <2>4, <2>5 DEF OrderedBut
    <2>7. a[x \div 2] \in Int /\ a[x] \in Int /\ a[1] \in Int
      BY <2>4, <2>5
    <2>8. x \div 2 \in T
      BY <2>3, <2>5, <2>6, <2>7 DEF T
    <2> QED BY <2>2, <2>4, <2>5, <2>8
  <1>2. ASSUME NEW i \in 1 .. n PROVE a[1] <= a[i]
    <2>1. i \notin T /\ a[i] \in Int /\ a[1] \in Int
      BY <1>1
    <2> QED BY <2>1
  <1> QED BY <1>2

\* A swim step moves the place that may be out of order to the parent.
LEMMA SwimStep ==
    ASSUME NEW c \in Nat, NEW a \in [1 .. c -> Int], NEW n \in 0 .. c, NEW j \in 2 .. n,
           OrderedBut(a, n, j), Bridges(a, n, j), a[j \div 2] > a[j]
    PROVE  /\ OrderedBut(Swapped(a, j, j \div 2), n, j \div 2)
           /\ Bridges(Swapped(a, j, j \div 2), n, j \div 2)
  <1> DEFINE b == Swapped(a, j, j \div 2)
             h == j \div 2
  <1>1. h \in 1 .. n /\ h < j /\ j \in 1 .. c /\ h \in 1 .. c
    OBVIOUS
  <1>2. b[j] = a[h] /\ b[h] = a[j] /\ \A i \in 1 .. c : i # j /\ i # h => b[i] = a[i]
    BY <1>1 DEF Swapped
  <1>3. ASSUME NEW i \in 2 .. n, i # h
        PROVE  b[i \div 2] <= b[i]
    <2>1. i \div 2 \in 1 .. c /\ i \in 1 .. c /\ i \div 2 < i
      OBVIOUS
    <2>2. CASE i = j
      BY <1>1, <1>2, <2>1, <2>2
    <2>3. CASE i # j /\ i \div 2 = j
      BY <1>1, <1>2, <2>1, <2>3, <1>3 DEF Bridges
    <2>4. CASE i # j /\ i \div 2 = h
      <3>1. a[h] <= a[i]
        BY <2>4 DEF OrderedBut
      <3>2. b[i] = a[i] /\ b[i \div 2] = a[j]
        BY <1>2, <2>1, <2>4, <1>3
      <3> QED BY <3>1, <3>2, <1>1, <2>1
    <2>5. CASE i # j /\ i \div 2 # j /\ i \div 2 # h
      <3>1. a[i \div 2] <= a[i]
        BY <2>5 DEF OrderedBut
      <3>2. b[i] = a[i] /\ b[i \div 2] = a[i \div 2]
        BY <1>2, <2>1, <2>5, <1>3
      <3> QED BY <3>1, <3>2
    <2> QED BY <2>2, <2>3, <2>4, <2>5
  <1>4. ASSUME NEW i \in 2 .. n, i \div 2 = h, h > 1
        PROVE  b[h \div 2] <= b[i]
    <2>1. h \div 2 \in 1 .. c /\ h \div 2 < h /\ i \in 1 .. c /\ h < i /\ h \in 2 .. n
      BY <1>1, <1>4
    <2>2. b[h \div 2] = a[h \div 2] /\ a[h \div 2] <= a[h]
      BY <1>1, <1>2, <2>1 DEF OrderedBut
    <2>3. CASE i = j
      BY <1>2, <2>2, <2>3
    <2>4. CASE i # j
      <3>1. a[i \div 2] <= a[i]
        BY <2>4 DEF OrderedBut
      <3>2. b[i] = a[i]
        BY <1>2, <2>1, <2>4
      <3>3. a[h \div 2] \in Int /\ a[h] \in Int /\ a[i] \in Int
        BY <1>1, <2>1
      <3>4. a[h] <= a[i]
        BY <1>4, <3>1
      <3>5. a[h \div 2] <= a[i]
        BY <2>2, <3>3, <3>4
      <3> QED BY <2>2, <3>2, <3>5
    <2> QED BY <2>3, <2>4
  <1> QED BY <1>3, <1>4 DEF OrderedBut, Bridges

\* A sink step moves it to the child that was exchanged, when that is the
\* lesser one.
LEMMA SinkStep ==
    ASSUME NEW c \in Nat, NEW a \in [1 .. c -> Int], NEW n \in 0 .. c,
           NEW j \in 1 .. n, NEW m \in 2 .. n, m \div 2 = j,
           OrderedButBelow(a, n, j), Bridges(a, n, j), a[j] > a[m],
           \A i \in 2 .. n : i \div 2 = j => a[m] <= a[i]
    PROVE  /\ OrderedButBelow(Swapped(a, j, m), n, m)
           /\ Bridges(Swapped(a, j, m), n, m)
  <1> DEFINE b == Swapped(a, j, m)
  <1>1. j < m /\ j \in 1 .. c /\ m \in 1 .. c
    OBVIOUS
  <1>2. b[j] = a[m] /\ b[m] = a[j] /\ \A i \in 1 .. c : i # j /\ i # m => b[i] = a[i]
    BY <1>1 DEF Swapped
  <1>3. ASSUME NEW i \in 2 .. n, i \div 2 # m
        PROVE  b[i \div 2] <= b[i]
    <2>1. i \div 2 \in 1 .. c /\ i \in 1 .. c /\ i \div 2 < i
      OBVIOUS
    <2>2. CASE i = m
      BY <1>1, <1>2, <2>1, <2>2
    <2>3. CASE i = j
      <3>1. a[j \div 2] <= a[m] /\ j > 1
        BY <2>3 DEF Bridges
      <3>2. b[i] = a[m] /\ b[i \div 2] = a[j \div 2]
        BY <1>1, <1>2, <2>1, <2>3
      <3> QED BY <3>1, <3>2
    <2>4. CASE i # m /\ i # j /\ i \div 2 = j
      <3>1. a[m] <= a[i]
        BY <2>4
      <3>2. b[i] = a[i] /\ b[i \div 2] = a[m]
        BY <1>2, <2>1, <2>4
      <3> QED BY <3>1, <3>2
    <2>5. CASE i # m /\ i # j /\ i \div 2 # j
      <3>1. a[i \div 2] <= a[i]
        BY <2>5 DEF OrderedButBelow
      <3>2. b[i] = a[i] /\ b[i \div 2] = a[i \div 2]
        BY <1>2, <2>1, <2>5, <1>3
      <3> QED BY <3>1, <3>2
    <2> QED BY <2>2, <2>3, <2>4, <2>5
  <1>4. ASSUME NEW i \in 2 .. n, i \div 2 = m
        PROVE  b[m \div 2] <= b[i]
    <2>1. i \in 1 .. c /\ m < i /\ i \div 2 # j
      BY <1>1, <1>4
    <2>2. a[m] <= a[i]
      BY <2>1, <1>4 DEF OrderedButBelow
    <2>3. b[i] = a[i] /\ b[m \div 2] = a[m]
      <3>1. i # j /\ i # m
        BY <1>1, <2>1
      <3>2. b[m \div 2] = b[j]
        OBVIOUS
      <3> HIDE DEF b
      <3> QED BY <1>2, <2>1, <3>1, <3>2
    <2> QED BY <2>2, <2>3
  <1> QED BY <1>3, <1>4 DEF OrderedButBelow, Bridges

\* The last node in the place of another, when it is not less than the parent of
\* that place.
LEMMA TakeAny ==
    ASSUME NEW c \in Nat, NEW a \in [1 .. c -> Int], NEW n \in 1 .. c, NEW j \in 1 .. n,
           OrderedBut(a, n, 1), j > 1 => a[j \div 2] <= a[n]
    PROVE  /\ OrderedButBelow([a EXCEPT ![j] = a[n]], n - 1, j)
           /\ Bridges([a EXCEPT ![j] = a[n]], n - 1, j)
  <1> DEFINE b == [a EXCEPT ![j] = a[n]]
  <1>0. b[j] = a[n] /\ \A i \in 1 .. c : i # j => b[i] = a[i]
    OBVIOUS
  <1>1. ASSUME NEW i \in 2 .. (n - 1), i \div 2 # j PROVE b[i \div 2] <= b[i]
    <2>1. i \div 2 \in 1 .. c /\ i \in 2 .. n /\ i \in 1 .. c /\ i # 1
      OBVIOUS
    <2>2. a[i \div 2] <= a[i] /\ b[i \div 2] = a[i \div 2]
      BY <1>0, <1>1, <2>1 DEF OrderedBut
    <2>3. CASE i = j
      BY <1>0, <2>1, <2>2, <2>3
    <2>4. CASE i # j
      BY <1>0, <2>1, <2>2, <2>4
    <2> QED BY <2>3, <2>4
  <1>2. ASSUME NEW i \in 2 .. (n - 1), i \div 2 = j, j > 1 PROVE b[j \div 2] <= b[i]
    <2>1. /\ i \in 2 .. n /\ i \in 1 .. c /\ i # 1 /\ i # j
          /\ j \in 2 .. n /\ j \div 2 \in 1 .. c /\ j \div 2 # j /\ j # 1
      BY <1>2
    <2>2. a[j] <= a[i] /\ a[j \div 2] <= a[j]
      BY <1>2, <2>1 DEF OrderedBut
    <2>3. b[i] = a[i] /\ b[j \div 2] = a[j \div 2] /\ a[j] \in Int /\ a[i] \in Int /\ a[j \div 2] \in Int
      BY <1>0, <2>1
    <2> QED BY <2>2, <2>3
  <1> QED BY <1>1, <1>2 DEF OrderedButBelow, Bridges

-----------------------------------------------------------------------------
(* The inductive invariant *)

LEMMA Initially == Init => IInv
  <1> SUFFICES ASSUME NEW c \in Capacities, NEW f \in BOOLEAN, c = 0 => f, InitWith(c, f)
               PROVE  IInv
    BY DEF Init
  <1>1. capacity \in Nat /\ nr \in 0 .. capacity
    BY DEF InitWith
  <1>2. out \in Int \X Int
    BY DEF InitWith
  <1>3. TypeOK
    BY <1>1, <1>2 DEF InitWith, TypeOK, Slots
  <1>4. Types
    BY <1>3 DEF InitWith, Types
  <1>5. Order
    BY DEF InitWith, Order, OrderedBut
  <1> QED BY <1>4, <1>5 DEF IInv

\* A call that is refused, a look at the first node.
LEMMA NothingMoves ==
    ASSUME IInv, ret' \in {"et_ok", "et_full", "et_empty", "et_param"}, out' \in Int \X Int, op' \in Ops,
           UNCHANGED <<q, p, nr, capacity, pc, k, custom, grows, bent>>
    PROVE  IInv'
  <1>1. TypeOK'
    BY DEF IInv, Types, TypeOK, Slots, Ops
  <1>2. Types'
    BY <1>1 DEF IInv, Types
  <1>3. Order'
    BY DEF IInv, Order, Keys, OrderedBut, OrderedButBelow, Bridges
  <1> QED BY <1>2, <1>3 DEF IInv

LEMMA PutKeeps ==
    ASSUME IInv, pc = "idle", UNCHANGED fixed,
           NEW v \in Nodes, NEW x \in Priors,
           capacity' \in Nat, nr < capacity',
           NEW nodes \in [1 .. capacity' -> Int], NEW priors \in [1 .. capacity' -> Int],
           \A i \in 1 .. nr : (IF custom THEN nodes ELSE priors)[i] = Keys[i],
           Put(nodes, priors, v, x), op' \in Ops, UNCHANGED bent
    PROVE  IInv'
  <1>1. nr \in Nat /\ nr' = nr + 1 /\ nr' \in 0 .. capacity' /\ v \in Int /\ x \in Int
    BY DEF IInv, Types, TypeOK, Put
  <1>2. TypeOK'
    <2>1. q' \in [1 .. capacity' -> Int] /\ p' \in [1 .. capacity' -> Int]
      BY <1>1 DEF Put
    <2>2. k' \in Nat /\ pc' = "swim" /\ ret' = "et_ok" /\ out' \in Int \X Int
      BY <1>1 DEF Put, IInv, Types, TypeOK
    <2>3. custom' \in BOOLEAN /\ grows' \in BOOLEAN
      BY DEF IInv, Types, TypeOK, fixed
    <2>4. bent' \in BOOLEAN
      BY DEF IInv, Types, TypeOK
    <2> QED BY <1>1, <2>1, <2>2, <2>3, <2>4 DEF TypeOK, Slots, Ops
  <1>3. Types'
    BY <1>1, <1>2 DEF Types, Put, IInv, fixed
  <1>4. \A i \in 1 .. nr : Keys'[i] = Keys[i]
    BY <1>1 DEF Put, Keys, fixed
  <1>5. ~bent => OrderedBut(Keys', nr', k')
    <2> SUFFICES ASSUME ~bent, NEW i \in 2 .. nr', i # k'
                 PROVE  Keys'[i \div 2] <= Keys'[i]
      BY DEF OrderedBut
    <2>1. i \in 2 .. nr /\ i \in 1 .. nr /\ i \div 2 \in 1 .. nr /\ i # 1
      BY <1>1 DEF Put
    <2>2. Keys[i \div 2] <= Keys[i]
      BY <2>1 DEF IInv, Order, OrderedBut
    <2> QED BY <2>1, <2>2, <1>4
  <1>6. Bridges(Keys', nr', k')
    BY <1>1 DEF Bridges, Put
  <1>7. Order'
    BY <1>5, <1>6 DEF Order, Put
  <1> QED BY <1>3, <1>7 DEF IInv

LEMMA InsertKeeps ==
    ASSUME IInv, UNCHANGED fixed, NEW v \in Nodes, NEW x \in Priors, awoke_minpq_insert(v, x)
    PROVE  IInv'
  <1>0. op' \in Ops /\ UNCHANGED bent
    BY DEF awoke_minpq_insert, Ops
  <1>1. CASE ~Full /\ Put(q, p, v, x) /\ UNCHANGED capacity
    <2>1. nr \in 0 .. capacity /\ capacity \in Nat /\ nr < capacity'
      BY <1>1 DEF IInv, Types, TypeOK, Full
    <2>2. q \in [1 .. capacity' -> Int] /\ p \in [1 .. capacity' -> Int]
      BY <1>1 DEF IInv, Types, TypeOK, Slots
    <2>3. \A i \in 1 .. nr : (IF custom THEN q ELSE p)[i] = Keys[i]
      BY DEF Keys
    <2>4. pc = "idle" /\ capacity' \in Nat
      BY <2>1, <1>1 DEF awoke_minpq_insert
    <2> QED BY <1>0, <1>1, <2>1, <2>2, <2>3, <2>4, PutKeeps
  <1>2. CASE ret' = "et_full" /\ UNCHANGED <<q, p, nr, capacity, pc, k, out>>
    <2>1. out' \in Int \X Int
      BY <1>2 DEF IInv, Types, TypeOK
    <2> QED BY <1>0, <1>2, <2>1, NothingMoves DEF fixed
  <1>3. CASE /\ Full /\ grows /\ capacity' = NextCapacity
             /\ Put(Resized(NextCapacity), Resized(NextCapacity), v, x)
    <2>1. nr \in Nat /\ capacity \in Nat /\ nr = capacity /\ capacity' \in Nat /\ nr < capacity'
      BY <1>3 DEF IInv, Types, TypeOK, Full, NextCapacity
    <2>2. Resized(NextCapacity) \in [1 .. capacity' -> Int]
      BY <1>3, <2>1 DEF Resized, IInv, Types, TypeOK, Slots
    <2>3. custom
      BY <1>3 DEF IInv, Types
    <2>4. \A i \in 1 .. nr : Resized(NextCapacity)[i] = Keys[i]
      BY <1>3, <2>1, <2>3 DEF Resized, Keys
    <2>5. pc = "idle"
      BY DEF awoke_minpq_insert
    <2> QED BY <1>0, <1>3, <2>1, <2>2, <2>4, <2>5, PutKeeps
  <1> QED BY <1>1, <1>2, <1>3 DEF awoke_minpq_insert

LEMMA TakeKeeps ==
    ASSUME IInv, UNCHANGED fixed, pc = "idle", NEW j \in 1 .. nr, Take(j), op' \in Ops
    PROVE  IInv'
  <1>1. capacity \in Nat /\ nr \in 1 .. capacity /\ nr' = nr - 1 /\ capacity' = capacity /\ j \in 1 .. capacity
    BY DEF IInv, Types, TypeOK, Take
  <1>2. q \in [1 .. capacity -> Int] /\ p \in [1 .. capacity -> Int]
    BY DEF IInv, Types, TypeOK, Slots
  <1>3. q' \in [1 .. capacity' -> Int] /\ p' \in [1 .. capacity' -> Int] /\ out' \in Int \X Int
    BY <1>1, <1>2 DEF Take
  <1>4. k' = j /\ pc' = "sink" /\ ret' = "et_ok"
    BY DEF Take
  <1>5. custom' \in BOOLEAN /\ grows' \in BOOLEAN /\ (grows' => custom')
    BY DEF IInv, Types, TypeOK, fixed
  <1>b. bent' \in BOOLEAN
    BY DEF Take
  <1>6. TypeOK'
    BY <1>1, <1>3, <1>4, <1>5, <1>b DEF TypeOK, Slots, Ops
  <1>7. Types'
    BY <1>1, <1>4, <1>5, <1>6 DEF Types
  <1>8. Keys \in [1 .. capacity -> Int] /\ Keys' = [Keys EXCEPT ![j] = Keys[nr]]
    BY <1>1, <1>2 DEF Take, Keys, fixed
  <1>9. ASSUME ~bent' PROVE OrderedButBelow(Keys', nr', k') /\ Bridges(Keys', nr', k')
    <2>1. ~bent /\ ~(j > 1 /\ Greater(j \div 2, nr))
      BY <1>9 DEF Take
    <2>2. OrderedBut(Keys, nr, 1)
      BY <2>1 DEF IInv, Order
    <2>3. ASSUME j > 1 PROVE Keys[j \div 2] <= Keys[nr]
      <3>1. ~(Keys[j \div 2] > Keys[nr])
        BY <2>1, <2>3 DEF Greater, Keys
      <3>2. j \div 2 \in 1 .. capacity /\ nr \in 1 .. capacity
        BY <1>1, <2>3
      <3> QED BY <1>8, <3>1, <3>2
    <2> QED BY <1>1, <1>4, <1>8, <2>2, <2>3, TakeAny
  <1> QED BY <1>4, <1>7, <1>9 DEF IInv, Order

LEMMA DelKeeps == ASSUME IInv, UNCHANGED fixed, NEW j \in 0 .. nr, awoke_minpq_del(j) PROVE IInv'
  <1>0. pc = "idle" /\ op' \in Ops /\ nr \in Nat
    BY DEF awoke_minpq_del, Ops, IInv, Types, TypeOK
  <1>1. CASE ret' \in {"et_empty", "et_param"} /\ UNCHANGED <<q, p, nr, capacity, pc, k, out, bent>>
    <2>1. out' \in Int \X Int
      BY <1>1 DEF IInv, Types, TypeOK
    <2> QED BY <1>0, <1>1, <2>1, NothingMoves DEF fixed
  <1>2. CASE j >= 1 /\ Take(j)
    <2>1. j \in 1 .. nr
      BY <1>0, <1>2
    <2> QED BY <1>0, <1>2, <2>1, TakeKeeps
  <1> QED BY <1>1, <1>2 DEF awoke_minpq_del

LEMMA DelminKeeps == ASSUME IInv, UNCHANGED fixed, awoke_minpq_delmin PROVE IInv'
  <1>0. pc = "idle" /\ op' \in Ops
    BY DEF awoke_minpq_delmin, Ops
  <1>1. CASE Empty /\ ret' = "et_empty" /\ UNCHANGED <<q, p, nr, capacity, pc, k, out, bent>>
    <2>1. out' \in Int \X Int
      BY <1>1 DEF IInv, Types, TypeOK
    <2> QED BY <1>0, <1>1, <2>1, NothingMoves DEF fixed
  <1>2. CASE ~Empty /\ Take(1)
    <2>1. 1 \in 1 .. nr
      BY <1>2 DEF IInv, Types, TypeOK, Empty
    <2> QED BY <1>0, <1>2, <2>1, TakeKeeps
  <1> QED BY <1>1, <1>2 DEF awoke_minpq_delmin

LEMMA SwapTypes ==
    ASSUME Types, NEW i \in Slots, NEW j \in Slots, Swap(i, j), UNCHANGED <<capacity, custom>>
    PROVE  /\ q' \in [Slots -> Int] /\ p' \in [Slots -> Int]
           /\ Keys \in [Slots -> Int]
           /\ Keys' = Swapped(Keys, i, j)
  BY DEF Types, TypeOK, Swap, Swapped, Keys

LEMMA SwimKeeps == ASSUME IInv, UNCHANGED fixed, minpq_swim PROVE IInv'
  <1>1. /\ capacity \in Nat /\ nr \in 0 .. capacity /\ k \in 1 .. nr /\ pc = "swim"
        /\ Keys \in [1 .. capacity -> Int]
        /\ ~bent => OrderedBut(Keys, nr, k) /\ Bridges(Keys, nr, k)
    BY DEF IInv, Types, TypeOK, Slots, Order, minpq_swim, Keys
  <1>2. /\ nr' = nr /\ capacity' = capacity /\ ret' = ret /\ out' = out /\ op' = op /\ bent' = bent
        /\ custom' = custom /\ grows' = grows
    BY DEF minpq_swim, fixed
  <1>3. CASE /\ k > 1 /\ Greater(k \div 2, k)
             /\ Swap(k, k \div 2) /\ k' = k \div 2 /\ UNCHANGED pc
    <2>1. k \in 2 .. nr /\ k \div 2 \in 1 .. nr /\ k \in Slots /\ k \div 2 \in Slots
      BY <1>1, <1>3 DEF Slots
    <2>2. /\ q' \in [Slots -> Int] /\ p' \in [Slots -> Int]
          /\ Keys' = Swapped(Keys, k, k \div 2)
      BY <1>2, <1>3, <2>1, SwapTypes DEF IInv
    <2>3. TypeOK'
      BY <1>1, <1>2, <1>3, <2>1, <2>2 DEF TypeOK, Slots, IInv, Types
    <2>4. Types'
      BY <1>1, <1>2, <1>3, <2>1, <2>3 DEF Types, IInv
    <2>5. Keys[k \div 2] > Keys[k]
      BY <1>3 DEF Greater, Keys
    <2>6. ~bent => OrderedBut(Keys', nr', k') /\ Bridges(Keys', nr', k')
      BY <1>1, <1>2, <1>3, <2>1, <2>2, <2>5, SwimStep
    <2> QED BY <1>1, <1>2, <1>3, <2>4, <2>6 DEF IInv, Order
  <1>4. CASE ~(k > 1 /\ Greater(k \div 2, k)) /\ pc' = "idle" /\ k' = 0 /\ UNCHANGED <<q, p>>
    <2>1. TypeOK'
      BY <1>2, <1>4 DEF TypeOK, Slots, IInv, Types
    <2>2. Types'
      BY <1>2, <1>4, <2>1 DEF Types, IInv
    <2>3. Keys' = Keys
      BY <1>2, <1>4 DEF Keys
    <2>4. ~bent => OrderedBut(Keys, nr, 1)
      <3> SUFFICES ASSUME ~bent, NEW i \in 2 .. nr
                   PROVE  Keys[i \div 2] <= Keys[i]
        BY DEF OrderedBut
      <3>1. CASE i = k
        <4>1. ~(Keys[k \div 2] > Keys[k]) /\ k \div 2 \in 1 .. capacity /\ k \in 1 .. capacity
          BY <1>1, <1>4, <3>1 DEF Greater, Keys
        <4> QED BY <1>1, <3>1, <4>1
      <3>2. CASE i # k
        BY <1>1, <3>2 DEF OrderedBut
      <3> QED BY <3>1, <3>2
    <2> QED BY <1>2, <1>4, <2>2, <2>3, <2>4 DEF IInv, Order
  <1> QED BY <1>3, <1>4 DEF minpq_swim

\* When the child that is exchanged is the lesser one.
LEMMA ChildIsLesser ==
    ASSUME Keys \in [1 .. capacity -> Int], capacity \in Nat, nr \in 0 .. capacity,
           k \in Nat \ {0}, 2 * k <= nr
    PROVE  /\ Child \in 2 .. nr /\ Child \div 2 = k
           /\ \A i \in 2 .. nr : i \div 2 = k => Keys[Child] <= Keys[i]
  <1>1. \A i \in 2 .. nr : i \div 2 = k => i = 2 * k \/ i = 2 * k + 1
    OBVIOUS
  <1>2. (2 * k) \div 2 = k /\ (2 * k + 1) \div 2 = k /\ 2 * k \in 1 .. capacity
    OBVIOUS
  <1>3. Child \in 2 .. nr /\ Child \div 2 = k
    BY <1>2 DEF Child
  <1>4. CASE 2 * k < nr
    <2>1. Keys[2 * k] \in Int /\ Keys[2 * k + 1] \in Int
      BY <1>4
    <2>2. Keys[Child] <= Keys[2 * k] /\ Keys[Child] <= Keys[2 * k + 1]
      BY <1>4, <2>1 DEF Child, Greater, Keys
    <2> QED BY <1>1, <1>3, <2>2
  <1>5. CASE 2 * k = nr
    <2>1. Keys[Child] <= Keys[2 * k]
      BY <1>2, <1>5 DEF Child
    <2> QED BY <1>1, <1>3, <1>5, <2>1
  <1> QED BY <1>4, <1>5

LEMMA SinkKeeps == ASSUME IInv, UNCHANGED fixed, minpq_sink PROVE IInv'
  <1>1. /\ capacity \in Nat /\ nr \in 0 .. capacity /\ nr < capacity /\ k \in 1 .. (nr + 1)
        /\ pc = "sink" /\ Keys \in [1 .. capacity -> Int]
        /\ ~bent => OrderedButBelow(Keys, nr, k) /\ Bridges(Keys, nr, k)
    BY DEF IInv, Types, TypeOK, Slots, Order, minpq_sink, Keys
  <1>2. /\ nr' = nr /\ ret' = ret /\ out' = out /\ op' = op /\ bent' = bent /\ custom' = custom /\ grows' = grows
    BY DEF minpq_sink, fixed
  <1>3. CASE Sinks /\ Swap(k, Child) /\ k' = Child /\ UNCHANGED <<pc, capacity>>
    <2>1. /\ k \in 1 .. nr /\ k \in Slots
          /\ Child \in 2 .. nr /\ Child \div 2 = k /\ Child \in Slots
          /\ \A i \in 2 .. nr : i \div 2 = k => Keys[Child] <= Keys[i]
      <3>1. 2 * k <= nr /\ k \in Nat \ {0}
        BY <1>1, <1>3 DEF Sinks
      <3>2. k \in 1 .. nr /\ k \in Slots
        BY <1>1, <3>1 DEF Slots
      <3>3. /\ Child \in 2 .. nr /\ Child \div 2 = k
            /\ \A i \in 2 .. nr : i \div 2 = k => Keys[Child] <= Keys[i]
        BY <1>1, <3>1, ChildIsLesser
      <3> QED BY <1>1, <3>2, <3>3 DEF Slots
    <2>2. /\ q' \in [Slots -> Int] /\ p' \in [Slots -> Int]
          /\ Keys' = Swapped(Keys, k, Child)
      BY <1>2, <1>3, <2>1, SwapTypes DEF IInv
    <2>3. TypeOK'
      BY <1>1, <1>2, <1>3, <2>1, <2>2 DEF TypeOK, Slots, IInv, Types
    <2>4. Types'
      BY <1>1, <1>2, <1>3, <2>1, <2>3 DEF Types, IInv
    <2>5. Keys[k] > Keys[Child]
      BY <1>3 DEF Sinks, Greater, Keys
    <2>6. ~bent => OrderedButBelow(Keys', nr', k') /\ Bridges(Keys', nr', k')
      BY <1>1, <1>2, <1>3, <2>1, <2>2, <2>5, SinkStep
    <2> QED BY <1>1, <1>2, <1>3, <2>4, <2>6 DEF IInv, Order
  <1>4. ASSUME ~Sinks, ~bent PROVE OrderedBut(Keys, nr, 1)
    <2> SUFFICES ASSUME NEW i \in 2 .. nr
                 PROVE  Keys[i \div 2] <= Keys[i]
      BY DEF OrderedBut
    <2>1. CASE i \div 2 = k
      <3>1. 2 * k <= nr /\ k \in Nat \ {0} /\ k \in 1 .. capacity
        BY <1>1, <2>1
      <3>2. Child \in 2 .. nr /\ Keys[Child] <= Keys[i]
        BY <1>1, <2>1, <3>1, ChildIsLesser
      <3>3. ~(Keys[k] > Keys[Child])
        BY <1>4, <3>1 DEF Sinks, Greater, Keys
      <3>4. Keys[k] \in Int /\ Keys[Child] \in Int /\ Keys[i] \in Int
        BY <1>1, <3>1, <3>2
      <3> QED BY <2>1, <3>2, <3>3, <3>4
    <2>2. CASE i \div 2 # k
      BY <1>1, <1>4, <2>2 DEF OrderedButBelow
    <2> QED BY <2>1, <2>2
  <1>5. ASSUME ~Sinks, pc' = "idle", k' = 0, capacity' \in Nat, nr < capacity',
               q' \in [1 .. capacity' -> Int], p' \in [1 .. capacity' -> Int],
               \A i \in 1 .. nr : Keys'[i] = Keys[i]
        PROVE  IInv'
    <2>1. TypeOK'
      BY <1>1, <1>2, <1>5 DEF TypeOK, Slots, IInv, Types
    <2>2. Types'
      BY <1>2, <1>5, <2>1 DEF Types, IInv
    <2>3. ~bent => OrderedBut(Keys', nr', 1)
      <3> SUFFICES ASSUME ~bent, NEW i \in 2 .. nr
                   PROVE  Keys'[i \div 2] <= Keys'[i]
        BY <1>2 DEF OrderedBut
      <3>1. i \in 1 .. nr /\ i \div 2 \in 1 .. nr /\ i # 1
        BY <1>1
      <3>2. Keys[i \div 2] <= Keys[i]
        BY <1>4, <1>5, <3>1 DEF OrderedBut
      <3> QED BY <1>5, <3>1, <3>2
    <2> QED BY <1>2, <1>5, <2>2, <2>3 DEF IInv, Order
  <1>6. CASE /\ ~Sinks /\ p' = [p EXCEPT ![nr + 1] = 0] /\ q' = [q EXCEPT ![nr + 1] = 0]
             /\ pc' = "idle" /\ k' = 0 /\ UNCHANGED capacity
    <2>1. q' \in [1 .. capacity' -> Int] /\ p' \in [1 .. capacity' -> Int]
      BY <1>1, <1>6 DEF IInv, Types, TypeOK, Slots
    <2>2. \A i \in 1 .. nr : q'[i] = q[i] /\ p'[i] = p[i]
      BY <1>1, <1>6 DEF IInv, Types, TypeOK, Slots
    <2>3. \A i \in 1 .. nr : Keys'[i] = Keys[i]
      BY <1>2, <2>2 DEF Keys
    <2> QED BY <1>1, <1>5, <1>6, <2>1, <2>3
  <1>7. CASE /\ ~Sinks /\ Shrinks /\ capacity' = capacity \div 2
             /\ p' = Resized(capacity \div 2)
             /\ q' = [Resized(capacity \div 2) EXCEPT ![nr + 1] = 0]
             /\ pc' = "idle" /\ k' = 0
    <2>1. capacity' \in Nat /\ nr < capacity' /\ custom
      BY <1>1, <1>7 DEF Shrinks, IInv, Types
    <2>2. Resized(capacity \div 2) \in [1 .. capacity' -> Int]
      BY <1>1, <1>7, <2>1 DEF Resized, IInv, Types, TypeOK, Slots
    <2>3. q' \in [1 .. capacity' -> Int] /\ p' \in [1 .. capacity' -> Int]
      BY <1>7, <2>1, <2>2
    <2>4. \A i \in 1 .. nr : q'[i] = q[i]
      BY <1>1, <1>7, <2>1 DEF Resized
    <2>5. \A i \in 1 .. nr : Keys'[i] = Keys[i]
      BY <1>2, <2>1, <2>4 DEF Keys
    <2> QED BY <1>5, <1>7, <2>1, <2>3, <2>5
  <1> QED BY <1>3, <1>6, <1>7 DEF minpq_sink

-----------------------------------------------------------------------------

THEOREM Invariance == Spec => []IInv
  <1>1. IInv /\ [Next]_vars => IInv'
    <2> SUFFICES ASSUME IInv, [Next]_vars PROVE IInv'
      OBVIOUS
    <2>1. ASSUME UNCHANGED fixed, NEW v \in Nodes, NEW x \in Priors, awoke_minpq_insert(v, x)
          PROVE  IInv'
      BY <2>1, InsertKeeps
    <2>2. ASSUME UNCHANGED fixed, awoke_minpq_get PROVE IInv'
      <3>1. out' \in Int \X Int
        BY <2>2 DEF awoke_minpq_get, Empty, IInv, Types, TypeOK, Slots
      <3>2. op' \in Ops
        BY <2>2 DEF awoke_minpq_get, Ops
      <3> QED BY <2>2, <3>1, <3>2, NothingMoves DEF awoke_minpq_get, fixed
    <2>3. CASE UNCHANGED vars
      <3>1. ret' \in {"et_ok", "et_full", "et_empty", "et_param"} /\ out' \in Int \X Int
        BY <2>3 DEF vars, IInv, Types, TypeOK
      <3>2. op' \in Ops
        BY <2>3 DEF vars, IInv, Types, TypeOK, Ops
      <3> QED BY <2>3, <3>1, <3>2, NothingMoves DEF vars
    <2> QED BY <2>1, <2>2, <2>3, DelKeeps, DelminKeeps, SwimKeeps, SinkKeeps DEF Next
  <1> QED BY <1>1, Initially, PTL DEF Spec

\* The arrays are never indexed outside of what is allocated, by any sequence
\* of inserts, takes, removals and resizes.
THEOREM TypeCorrect == Spec => []TypeOK
  <1>1. IInv => TypeOK
    BY DEF IInv, Types
  <1> QED BY <1>1, Invariance, PTL

\* The heap order holds between calls, until awoke_minpq_del bends the heap.
THEOREM HeapAlwaysOrdered == Spec => []HeapOrdered
  <1>1. IInv => HeapOrdered
    <2> SUFFICES ASSUME IInv, pc = "idle", ~bent, NEW i \in 2 .. nr
                 PROVE  ~Greater(i \div 2, i)
      BY DEF HeapOrdered
    <2>1. nr \in Nat /\ capacity \in Nat /\ nr <= capacity
      BY DEF IInv, Types, TypeOK
    <2>2. i \in 1 .. capacity /\ i \div 2 \in 1 .. capacity /\ i # 1
      BY <2>1
    <2>3. Keys[i \div 2] <= Keys[i]
      BY <2>2 DEF IInv, Order, OrderedBut
    <2>4. Keys \in [1 .. capacity -> Int]
      BY DEF IInv, Types, TypeOK, Slots, Keys
    <2>5. Keys[i \div 2] \in Int /\ Keys[i] \in Int
      BY <2>2, <2>4
    <2>6. ~(Keys[i \div 2] > Keys[i])
      BY <2>3, <2>5
    <2> QED BY <2>6 DEF Keys, Greater
  <1> QED BY <1>1, Invariance, PTL

\* What delmin takes is a least node, until awoke_minpq_del bends the heap.
THEOREM RootAlwaysMinimum == Spec => []RootIsMinimum
  <1>1. IInv => RootIsMinimum
    <2> SUFFICES ASSUME IInv, pc = "idle", ~bent, NEW i \in 1 .. nr
                 PROVE  ~Greater(1, i)
      BY DEF RootIsMinimum
    <2>1. /\ capacity \in Nat /\ nr \in 0 .. capacity /\ OrderedBut(Keys, nr, 1)
          /\ Keys \in [1 .. capacity -> Int]
      BY DEF IInv, Types, TypeOK, Order, Slots, Keys
    <2>2. Keys[1] <= Keys[i]
      BY <2>1, OrderedRoot
    <2>3. Keys[1] \in Int /\ Keys[i] \in Int
      BY <2>1
    <2>4. ~(Keys[1] > Keys[i])
      BY <2>2, <2>3
    <2> QED BY <2>4 DEF Keys, Greater
  <1> QED BY <1>1, Invariance, PTL

-----------------------------------------------------------------------------
(* The abstract priority queue *)

\* Where an array of n elements holds one of them.
Where(a, n, e) == {i \in 1 .. n : a[i] = e}

Count(a, n, e) == Cardinality(Where(a, n, e))

LEMMA CountsAreNumbers ==
    ASSUME NEW a, NEW n \in Int, NEW e PROVE IsFiniteSet(Where(a, n, e)) /\ Count(a, n, e) \in Nat
  <1>1. IsFiniteSet(1 .. n) /\ Where(a, n, e) \subseteq 1 .. n
    BY FS_Interval DEF Where
  <1>2. IsFiniteSet(Where(a, n, e))
    BY <1>1, FS_Subset
  <1> QED BY <1>2, FS_CardinalityType DEF Count

\* One place more, one place less, another place.
LEMMA OneMore ==
    ASSUME NEW S, IsFiniteSet(S), NEW x, x \notin S, NEW T, T = S \cup {x}
    PROVE  IsFiniteSet(T) /\ Cardinality(T) = Cardinality(S) + 1
  BY FS_AddElement

LEMMA OneLess ==
    ASSUME NEW S, IsFiniteSet(S), NEW x \in S, NEW T, T = S \ {x}
    PROVE  IsFiniteSet(T) /\ Cardinality(T) = Cardinality(S) - 1
  BY FS_RemoveElement

LEMMA Another ==
    ASSUME NEW S, IsFiniteSet(S), NEW x \in S, NEW y, y \notin S, NEW T, T = (S \ {x}) \cup {y}
    PROVE  Cardinality(T) = Cardinality(S)
  <1>1. PICK R : R = S \ {x}
    OBVIOUS
  <1>2. IsFiniteSet(R) /\ Cardinality(R) = Cardinality(S) - 1
    BY <1>1, OneLess
  <1>3. y \notin R /\ T = R \cup {y}
    BY <1>1
  <1>4. Cardinality(T) = Cardinality(R) + 1
    BY <1>2, <1>3, OneMore
  <1>5. Cardinality(S) \in Nat
    BY FS_CardinalityType
  <1> QED BY <1>2, <1>4, <1>5

LEMMA CountPut ==
    ASSUME NEW a, NEW b, NEW n \in Nat, NEW m, m = n + 1, NEW e, \A i \in 1 .. n : b[i] = a[i]
    PROVE  Count(b, m, e) = IF b[m] = e THEN Count(a, n, e) + 1 ELSE Count(a, n, e)
  <1>1. IsFiniteSet(Where(a, n, e)) /\ m \notin Where(a, n, e)
    <2>1. IsFiniteSet(Where(a, n, e))
      BY CountsAreNumbers
    <2> QED BY <2>1 DEF Where
  <1>2. CASE b[m] = e
    <2>1. Where(b, m, e) = Where(a, n, e) \cup {m}
      BY <1>2 DEF Where
    <2> QED BY <1>1, <1>2, <2>1, OneMore DEF Count
  <1>3. CASE b[m] # e
    <2>1. Where(b, m, e) = Where(a, n, e)
      BY <1>3 DEF Where
    <2> QED BY <1>3, <2>1 DEF Count
  <1> QED BY <1>2, <1>3

\* The last element takes the place of the one at j.
TakenAt(a, n, b, m, j) ==
    /\ n \in Nat /\ m = n - 1 /\ j \in 1 .. n
    /\ j \in 1 .. m => b[j] = a[n]
    /\ \A i \in 1 .. m : i # j => b[i] = a[i]

LEMMA CountTake ==
    ASSUME NEW a, NEW n, NEW b, NEW m, NEW j, NEW e, TakenAt(a, n, b, m, j)
    PROVE  Count(b, m, e) = IF a[j] = e THEN Count(a, n, e) - 1 ELSE Count(a, n, e)
  <1> DEFINE S == Where(a, n, e)
             T == Where(b, m, e)
  <1>1. IsFiniteSet(S)
    BY CountsAreNumbers DEF TakenAt
  <1>2. CASE a[j] = e /\ a[n] = e
    <2>1. T = S \ {n} /\ n \in S
      BY <1>2 DEF Where, TakenAt
    <2> QED BY <1>1, <1>2, <2>1, OneLess DEF Count
  <1>3. CASE a[j] = e /\ a[n] # e
    <2>1. T = S \ {j} /\ j \in S
      BY <1>3 DEF Where, TakenAt
    <2> QED BY <1>1, <1>3, <2>1, OneLess DEF Count
  <1>4. CASE a[j] # e /\ a[n] = e
    <2>1. T = (S \ {n}) \cup {j} /\ n \in S /\ j \notin S
      BY <1>4 DEF Where, TakenAt
    <2> QED BY <1>1, <1>4, <2>1, Another DEF Count
  <1>5. CASE a[j] # e /\ a[n] # e
    <2>1. T = S
      BY <1>5 DEF Where, TakenAt
    <2> QED BY <1>5, <2>1 DEF Count
  <1> QED BY <1>2, <1>3, <1>4, <1>5

LEMMA CountSwap ==
    ASSUME NEW a, NEW b, NEW n \in Nat, NEW j \in 1 .. n, NEW l \in 1 .. n, NEW e,
           b[j] = a[l], b[l] = a[j], \A i \in 1 .. n : i # j /\ i # l => b[i] = a[i]
    PROVE  Count(b, n, e) = Count(a, n, e)
  <1> DEFINE S == Where(a, n, e)
             T == Where(b, n, e)
  <1>1. IsFiniteSet(S)
    BY CountsAreNumbers
  <1>2. CASE (a[j] = e /\ a[l] = e) \/ (a[j] # e /\ a[l] # e)
    <2>1. T = S
      BY <1>2 DEF Where
    <2> QED BY <2>1 DEF Count
  <1>3. CASE a[j] = e /\ a[l] # e
    <2>1. T = (S \ {j}) \cup {l} /\ j \in S /\ l \notin S
      BY <1>3 DEF Where
    <2> QED BY <1>1, <2>1, Another DEF Count
  <1>4. CASE a[j] # e /\ a[l] = e
    <2>1. T = (S \ {l}) \cup {j} /\ l \in S /\ j \notin S
      BY <1>4 DEF Where
    <2> QED BY <1>1, <2>1, Another DEF Count
  <1> QED BY <1>2, <1>3, <1>4

\* The elements in the order of their slots, and how often each is there.
Elems == [i \in 1 .. nr |-> Element(q[i], p[i])]

Copies == [e \in Elements |-> Cardinality(Holding(e))]

\* Nothing is in the queue that was not inserted.
Inserted == \A i \in 1 .. nr : Element(q[i], p[i]) \in Elements

LEMMA CopiesAreCounts ==
    /\ Copies = [e \in Elements |-> Count(Elems, nr, e)]
    /\ Copies' = [e \in Elements |-> Count(Elems', nr', e)]
  <1>1. \A e : Holding(e) = Where(Elems, nr, e)
    BY DEF Holding, Where, Elems
  <1>2. \A e : Holding(e)' = Where(Elems', nr', e)
    BY DEF Holding, Where, Elems
  <1> QED BY <1>1, <1>2 DEF Copies, Count

LEMMA SameCopies ==
    ASSUME \A e \in Elements : Count(Elems', nr', e) = Count(Elems, nr, e) PROVE Copies' = Copies
  BY CopiesAreCounts

\* A step that leaves every slot's element in its place.
LEMMA SameElements ==
    ASSUME IInv, Inserted, nr' = nr, custom' = custom,
           \A i \in 1 .. nr : q'[i] = q[i] /\ (custom \/ p'[i] = p[i])
    PROVE  Inserted' /\ Copies' = Copies
  <1>1. \A i \in 1 .. nr : Element(q[i], p[i])' = Element(q[i], p[i])
    BY DEF Element
  <1>2. Elems' = Elems
    BY <1>1 DEF Elems
  <1>3. Inserted'
    BY <1>1 DEF Inserted
  <1>4. Copies' = Copies
    BY <1>2, SameCopies
  <1> QED BY <1>3, <1>4

LEMMA SwapAbstract ==
    ASSUME IInv, Inserted, nr' = nr, custom' = custom, NEW i \in 1 .. nr, NEW j \in 1 .. nr, Swap(i, j)
    PROVE  Inserted' /\ Copies' = Copies
  <1>1. /\ nr \in Nat /\ i \in Slots /\ j \in Slots /\ 1 .. nr \subseteq Slots
        /\ q \in [Slots -> Int] /\ p \in [Slots -> Int]
    BY DEF IInv, Types, TypeOK, Slots
  <1>2. /\ q'[i] = q[j] /\ q'[j] = q[i] /\ p'[i] = p[j] /\ p'[j] = p[i]
        /\ \A l \in 1 .. nr : l # i /\ l # j => q'[l] = q[l] /\ p'[l] = p[l]
    BY <1>1 DEF Swap, Swapped
  <1>3. /\ Elems'[i] = Elems[j] /\ Elems'[j] = Elems[i]
        /\ \A l \in 1 .. nr : l # i /\ l # j => Elems'[l] = Elems[l]
    BY <1>2 DEF Elems, Element
  <1>4. \A e \in Elements : Count(Elems', nr', e) = Count(Elems, nr, e)
    BY <1>1, <1>3, CountSwap
  <1>5. Inserted'
    BY <1>1, <1>3 DEF Inserted, Elems
  <1> QED BY <1>4, <1>5, SameCopies

LEMMA PutAbstract ==
    ASSUME IInv, Inserted, custom' = custom, NEW v \in Nodes, NEW x \in Priors,
           capacity' \in Nat, nr < capacity',
           NEW nodes \in [1 .. capacity' -> Int], NEW priors \in [1 .. capacity' -> Int],
           \A i \in 1 .. nr : nodes[i] = q[i] /\ (custom \/ priors[i] = p[i]),
           Put(nodes, priors, v, x)
    PROVE  /\ Element(v, x) \in Elements /\ Inserted'
           /\ Copies' = [Copies EXCEPT ![Element(v, x)] = @ + 1] /\ nr' = nr + 1
  <1>1. nr \in Nat /\ nr' = nr + 1 /\ nr + 1 \in 1 .. capacity' /\ \A i \in 1 .. nr : i # nr + 1
    BY DEF IInv, Types, TypeOK, Put
  <1>2. Element(v, x) \in Elements
    BY DEF Element, Elements
  <1>3. /\ q'[nr + 1] = v /\ p'[nr + 1] = x
        /\ \A i \in 1 .. nr : q'[i] = q[i] /\ (custom \/ p'[i] = p[i])
    BY <1>1 DEF Put
  <1>4. Elems'[nr + 1] = Element(v, x) /\ \A i \in 1 .. nr : Elems'[i] = Elems[i]
    <2>1. nr + 1 \in 1 .. nr' /\ 1 .. nr \subseteq 1 .. nr' /\ 1 .. nr' = (1 .. nr) \cup {nr + 1}
      BY <1>1
    <2>2. Elems'[nr + 1] = Element(q'[nr + 1], p'[nr + 1])
      BY <2>1 DEF Elems, Element
    <2>3. Elems'[nr + 1] = Element(v, x)
      BY <1>3, <2>2
    <2>4. \A i \in 1 .. nr : Elems'[i] = Element(q'[i], p'[i]) /\ Elems[i] = Element(q[i], p[i])
      BY <2>1 DEF Elems, Element
    <2>5. \A i \in 1 .. nr : Element(q'[i], p'[i]) = Element(q[i], p[i])
      BY <1>3 DEF Element
    <2> QED BY <2>3, <2>4, <2>5
  <1>5. PICK w \in Elements : w = Element(v, x)
    BY <1>2
  <1>6. \A e \in Elements : Count(Elems', nr', e) =
                              IF e = w THEN Count(Elems, nr, e) + 1 ELSE Count(Elems, nr, e)
    <2>1. PICK a, b, n, m : a = Elems /\ b = Elems' /\ n = nr /\ m = nr'
      OBVIOUS
    <2>2. n \in Nat /\ m = n + 1 /\ b[m] = w /\ \A i \in 1 .. n : b[i] = a[i]
      BY <1>1, <1>4, <1>5, <2>1
    <2>3. \A e : Count(b, m, e) = IF b[m] = e THEN Count(a, n, e) + 1 ELSE Count(a, n, e)
      BY <2>2, CountPut
    <2> QED BY <2>1, <2>2, <2>3
  <1>7. Copies' = [Copies EXCEPT ![w] = @ + 1]
    BY <1>6, CopiesAreCounts
  <1>8. Inserted'
    <2> SUFFICES ASSUME NEW i \in 1 .. nr' PROVE Element(q[i], p[i])' \in Elements
      BY DEF Inserted
    <2>1. Elems'[i] = Element(q[i], p[i])'
      BY DEF Elems
    <2>2. CASE i = nr + 1
      BY <1>2, <1>4, <2>1, <2>2
    <2>3. CASE i # nr + 1
      <3>1. i \in 1 .. nr
        BY <1>1, <2>3
      <3>2. Elems[i] \in Elements
        BY <3>1 DEF Elems, Inserted
      <3> QED BY <1>4, <2>1, <3>1, <3>2
    <2> QED BY <2>2, <2>3
  <1> QED BY <1>1, <1>2, <1>5, <1>7, <1>8

LEMMA TakeAbstract ==
    ASSUME IInv, Inserted, custom' = custom, NEW j \in 1 .. nr, Take(j)
    PROVE  /\ Element(q[j], p[j]) \in Elements /\ Copies[Element(q[j], p[j])] > 0 /\ Inserted'
           /\ Copies' = [Copies EXCEPT ![Element(q[j], p[j])] = @ - 1] /\ nr' = nr - 1
  <1>1. /\ nr \in Nat /\ nr' = nr - 1 /\ j \in Slots /\ nr \in 1 .. nr /\ 1 .. nr \subseteq Slots
        /\ q \in [Slots -> Int] /\ p \in [Slots -> Int]
    BY DEF IInv, Types, TypeOK, Slots, Take
  <1>2. \A i \in 1 .. (nr - 1) : /\ q'[i] = IF i = j THEN q[nr] ELSE q[i]
                                 /\ p'[i] = IF i = j THEN p[nr] ELSE p[i]
    BY <1>1 DEF Take
  <1>3. \A i \in 1 .. (nr - 1) : Elems'[i] = IF i = j THEN Elems[nr] ELSE Elems[i]
    BY <1>1, <1>2 DEF Elems, Element
  <1>4. PICK w \in Elements : w = Element(q[j], p[j]) /\ w = Elems[j]
    BY DEF Inserted, Elems
  <1>5. \A e \in Elements : Count(Elems', nr', e) =
                              IF e = w THEN Count(Elems, nr, e) - 1 ELSE Count(Elems, nr, e)
    <2>1. PICK a, b, n, m : a = Elems /\ b = Elems' /\ n = nr /\ m = nr'
      OBVIOUS
    <2>2. TakenAt(a, n, b, m, j) /\ a[j] = w
      BY <1>1, <1>3, <1>4, <2>1 DEF TakenAt
    <2>3. \A e : Count(b, m, e) = IF a[j] = e THEN Count(a, n, e) - 1 ELSE Count(a, n, e)
      BY <2>2, CountTake
    <2> QED BY <2>1, <2>2, <2>3
  <1>6. Copies' = [Copies EXCEPT ![w] = @ - 1]
    BY <1>5, CopiesAreCounts
  <1>7. Copies[w] > 0
    <2>1. Copies[w] = Count(Elems, nr, w) /\ IsFiniteSet(Where(Elems, nr, w)) /\ j \in Where(Elems, nr, w)
      BY <1>1, <1>4, CopiesAreCounts, CountsAreNumbers DEF Where
    <2>2. Count(Elems, nr, w) # 0 /\ Count(Elems, nr, w) \in Nat
      BY <1>1, <2>1, FS_EmptySet, CountsAreNumbers DEF Count
    <2> QED BY <2>1, <2>2
  <1>8. Inserted'
    <2> SUFFICES ASSUME NEW i \in 1 .. nr' PROVE Element(q[i], p[i])' \in Elements
      BY DEF Inserted
    <2>1. Elems'[i] = Element(q[i], p[i])' /\ i \in 1 .. (nr - 1)
      BY <1>1 DEF Elems
    <2>2. \A l \in 1 .. nr : Elems[l] \in Elements
      BY DEF Elems, Inserted
    <2>3. i \in 1 .. nr
      BY <1>1, <2>1
    <2> QED BY <1>1, <1>3, <2>1, <2>2, <2>3
  <1> QED BY <1>1, <1>4, <1>6, <1>7, <1>8

\* What stays as it is while an operation runs on.
LEMMA AbstractKept ==
    ASSUME Copies' = Copies, UNCHANGED <<nr, custom, grows, op, ret, out, bent>>,
           capacity' = capacity \/ grows
    PROVE  UNCHANGED Abstract!vars
  <1>1. Element(out[1], out[2])' = Element(out[1], out[2])
    BY DEF Element
  <1>2. (IF grows THEN 0 ELSE capacity)' = IF grows THEN 0 ELSE capacity
    OBVIOUS
  <1> QED BY <1>1, <1>2 DEF Abstract!vars, Copies

\* A queue with a capacity keeps it.
LEMMA LimitKept ==
    ASSUME UNCHANGED fixed, capacity' = capacity \/ grows
    PROVE  /\ (~grows)' = ~grows
           /\ (IF grows THEN 0 ELSE capacity)' = IF grows THEN 0 ELSE capacity
  BY DEF fixed

LEMMA InsertAbstract ==
    ASSUME IInv, Inserted, UNCHANGED fixed, NEW v \in Nodes, NEW x \in Priors, awoke_minpq_insert(v, x)
    PROVE  Inserted' /\ Abstract!Next
  <1>1. custom' = custom /\ op' = "insert" /\ UNCHANGED bent /\ Element(v, x) \in Elements
    BY DEF fixed, awoke_minpq_insert, Element, Elements
  <1>2. UNCHANGED out
    BY DEF awoke_minpq_insert, Put
  <1>3. Element(out[1], out[2])' = Element(out[1], out[2])
    BY <1>1, <1>2 DEF Element
  <1>4. ASSUME ~Abstract!Full, ret' = "et_ok", capacity' = capacity \/ grows, Inserted',
               Copies' = [Copies EXCEPT ![Element(v, x)] = @ + 1], nr' = nr + 1
        PROVE  Inserted' /\ Abstract!Next
    <2>1. Abstract!Add(Element(v, x))
      BY <1>4 DEF Abstract!Add, Copies
    <2>2. Abstract!Insert(Element(v, x))
      BY <1>1, <1>3, <1>4, <2>1 DEF Abstract!Insert
    <2> QED BY <1>1, <1>4, <2>2, LimitKept DEF Abstract!Next
  <1>5. CASE ~Full /\ Put(q, p, v, x) /\ UNCHANGED capacity
    <2>1. capacity' \in Nat /\ nr < capacity' /\ q \in [1 .. capacity' -> Int] /\ p \in [1 .. capacity' -> Int]
      BY <1>5 DEF IInv, Types, TypeOK, Full, Slots
    <2>2. ~Abstract!Full /\ ret' = "et_ok"
      BY <1>5 DEF Abstract!Full, Full, Put
    <2>3. /\ Inserted' /\ Copies' = [Copies EXCEPT ![Element(v, x)] = @ + 1] /\ nr' = nr + 1
      BY <1>1, <1>5, <2>1, PutAbstract
    <2> QED BY <1>4, <1>5, <2>2, <2>3
  <1>6. CASE Full /\ ~grows /\ ret' = "et_full" /\ UNCHANGED <<q, p, nr, capacity, pc, k, out>>
    <2>1. Inserted' /\ Copies' = Copies
      BY <1>1, <1>6, SameElements
    <2>2. Abstract!Full
      BY <1>6 DEF Abstract!Full, Full
    <2>3. Abstract!Insert(Element(v, x))
      BY <1>1, <1>3, <1>6, <2>1, <2>2 DEF Abstract!Insert, Abstract!contents, Copies
    <2> QED BY <1>1, <1>6, <2>1, <2>3, LimitKept DEF Abstract!Next
  <1>7. CASE /\ Full /\ grows /\ capacity' = NextCapacity
             /\ Put(Resized(NextCapacity), Resized(NextCapacity), v, x)
    <2>1. nr \in Nat /\ nr = capacity /\ capacity' \in Nat /\ nr < capacity' /\ custom
      BY <1>7 DEF IInv, Types, TypeOK, Full, NextCapacity
    <2>2. Resized(NextCapacity) \in [1 .. capacity' -> Int]
      BY <1>7, <2>1 DEF Resized, IInv, Types, TypeOK, Slots
    <2>3. \A i \in 1 .. nr : Resized(NextCapacity)[i] = q[i]
      BY <1>7, <2>1 DEF Resized
    <2>4. ~Abstract!Full /\ ret' = "et_ok"
      BY <1>7 DEF Abstract!Full, Put
    <2>5. /\ Inserted' /\ Copies' = [Copies EXCEPT ![Element(v, x)] = @ + 1] /\ nr' = nr + 1
      BY <1>1, <1>7, <2>1, <2>2, <2>3, PutAbstract
    <2> QED BY <1>4, <1>7, <2>4, <2>5
  <1> QED BY <1>5, <1>6, <1>7 DEF awoke_minpq_insert

\* The first node is a least element, until a removal has bent the heap.
LEMMA RootIsLeast ==
    ASSUME IInv, Inserted, pc = "idle", nr # 0
    PROVE  Element(q[1], p[1]) \in Elements /\ Abstract!Least(Element(q[1], p[1]))
  <1>1. /\ capacity \in Nat /\ nr \in 0 .. capacity /\ 1 \in 1 .. nr /\ Keys \in [1 .. capacity -> Int]
    BY DEF IInv, Types, TypeOK, Slots, Keys
  <1>2. PICK w \in Elements : w = Element(q[1], p[1]) /\ w = Elems[1]
    BY <1>1 DEF Inserted, Elems
  <1>3. ASSUME NEW e \in Elements
        PROVE  (Copies[e] > 0) <=> \E i \in 1 .. nr : e = Element(q[i], p[i])
    <2>1. Copies[e] = Count(Elems, nr, e) /\ IsFiniteSet(Where(Elems, nr, e)) /\ Count(Elems, nr, e) \in Nat
      BY <1>1, CopiesAreCounts, CountsAreNumbers
    <2>2. Count(Elems, nr, e) = 0 <=> Where(Elems, nr, e) = {}
      BY <2>1, FS_EmptySet DEF Count
    <2>3. Where(Elems, nr, e) # {} <=> \E i \in 1 .. nr : e = Element(q[i], p[i])
      BY DEF Where, Elems
    <2> QED BY <2>1, <2>2, <2>3
  <1>4. ASSUME ~bent, NEW e \in Elements, Copies[e] > 0 PROVE w[2] <= e[2]
    <2>1. PICK i \in 1 .. nr : e = Element(q[i], p[i])
      BY <1>3, <1>4
    <2>2. OrderedBut(Keys, nr, 1)
      BY <1>4 DEF IInv, Order
    <2>3. Keys[1] <= Keys[i]
      BY <1>1, <2>2, OrderedRoot
    <2>4. w[2] = Keys[1] /\ e[2] = Keys[i]
      BY <1>2, <2>1 DEF Element, Keys
    <2> QED BY <2>3, <2>4
  <1>5. Copies[w] > 0
    BY <1>1, <1>2, <1>3
  <1>6. Abstract!Least(w)
    BY <1>4, <1>5 DEF Abstract!Least, Abstract!Holds, Abstract!Key, Copies
  <1> QED BY <1>2, <1>6

LEMMA GetAbstract ==
    ASSUME IInv, Inserted, UNCHANGED fixed, awoke_minpq_get PROVE Inserted' /\ Abstract!Next
  <1>1. /\ UNCHANGED <<q, p, nr, capacity, pc, k, bent>> /\ pc = "idle" /\ op' = "get"
        /\ custom' = custom
    BY DEF awoke_minpq_get, fixed
  <1>2. Inserted' /\ Copies' = Copies
    BY <1>1, SameElements
  <1>3. Abstract!Min
    <2>1. CASE Empty /\ ret' = "et_empty" /\ UNCHANGED out
      <3>1. Element(out[1], out[2])' = Element(out[1], out[2])
        BY <1>1, <2>1 DEF Element
      <3> QED BY <1>1, <1>2, <2>1, <3>1 DEF Abstract!Min, Abstract!Empty, Abstract!contents, Empty, Copies
    <2>2. CASE ~Empty /\ ret' = "et_ok" /\ out' = <<q[1], p[1]>>
      <3>1. Element(out[1], out[2])' = Element(q[1], p[1])
        BY <1>1, <2>2 DEF Element
      <3>2. Element(q[1], p[1]) \in Elements /\ Abstract!Least(Element(q[1], p[1]))
        BY <1>1, <2>2, RootIsLeast DEF Empty
      <3>3. ~Abstract!Empty
        BY <2>2 DEF Empty, Abstract!Empty
      <3> QED BY <1>1, <1>2, <2>2, <3>1, <3>2, <3>3 DEF Abstract!Min, Abstract!contents, Copies
    <2> QED BY <2>1, <2>2 DEF awoke_minpq_get
  <1> QED BY <1>1, <1>2, <1>3, LimitKept DEF Abstract!Next

\* What a taken node was is what the caller gets.
LEMMA TakenIsRemoved ==
    ASSUME IInv, Inserted, UNCHANGED fixed, NEW j \in 1 .. nr, Take(j)
    PROVE  /\ Element(q[j], p[j]) \in Elements /\ Abstract!Holds(Element(q[j], p[j]))
           /\ Abstract!Remove(Element(q[j], p[j])) /\ Inserted'
           /\ Element(out[1], out[2])' = Element(q[j], p[j])
  <1>1. custom' = custom /\ out' = <<q[j], p[j]>>
    BY DEF fixed, Take
  <1>2. Element(out[1], out[2])' = Element(q[j], p[j])
    BY <1>1 DEF Element
  <1> QED BY <1>1, <1>2, TakeAbstract DEF Abstract!Remove, Abstract!Holds, Copies

LEMMA DelAbstract ==
    ASSUME IInv, Inserted, UNCHANGED fixed, NEW j \in 0 .. nr, awoke_minpq_del(j)
    PROVE  Inserted' /\ Abstract!Next
  <1>0. op' = "del" /\ custom' = custom /\ nr \in Nat
    BY DEF awoke_minpq_del, fixed, IInv, Types, TypeOK
  <1>1. CASE /\ ret' = IF Empty THEN "et_empty" ELSE "et_param"
             /\ UNCHANGED <<q, p, nr, capacity, pc, k, out, bent>>
    <2>1. Inserted' /\ Copies' = Copies
      BY <1>0, <1>1, SameElements
    <2>2. Element(out[1], out[2])' = Element(out[1], out[2])
      BY <1>0, <1>1 DEF Element
    <2>3. Abstract!DelRefused
      BY <1>0, <1>1, <2>1, <2>2 DEF Abstract!DelRefused, Abstract!Empty, Abstract!contents, Empty, Copies
    <2> QED BY <1>1, <2>1, <2>3, LimitKept DEF Abstract!Next
  <1>2. CASE j >= 1 /\ Take(j)
    <2>0. j \in 1 .. nr
      BY <1>0, <1>2
    <2>1. ret' = "et_ok" /\ capacity' = capacity /\ (bent => bent')
      BY <1>2 DEF Take
    <2>2. Inserted' /\ Element(q[j], p[j]) \in Elements /\ Abstract!Del(Element(q[j], p[j]))
      BY <1>0, <1>2, <2>0, <2>1, TakenIsRemoved DEF Abstract!Del
    <2> QED BY <2>1, <2>2, LimitKept DEF Abstract!Next
  <1> QED BY <1>1, <1>2 DEF awoke_minpq_del

LEMMA DelminAbstract ==
    ASSUME IInv, Inserted, UNCHANGED fixed, awoke_minpq_delmin PROVE Inserted' /\ Abstract!Next
  <1>1. pc = "idle" /\ op' = "delmin" /\ custom' = custom
    BY DEF awoke_minpq_delmin, fixed
  <1>2. CASE Empty /\ ret' = "et_empty" /\ UNCHANGED <<q, p, nr, capacity, pc, k, out, bent>>
    <2>1. Inserted' /\ Copies' = Copies
      BY <1>1, <1>2, SameElements
    <2>2. Element(out[1], out[2])' = Element(out[1], out[2])
      BY <1>1, <1>2 DEF Element
    <2>3. Abstract!DelMin
      BY <1>1, <1>2, <2>1, <2>2 DEF Abstract!DelMin, Abstract!Empty, Abstract!contents, Empty, Copies
    <2> QED BY <1>2, <2>1, <2>3, LimitKept DEF Abstract!Next
  <1>3. CASE ~Empty /\ Take(1)
    <2>1. 1 \in 1 .. nr /\ nr # 0
      BY <1>3 DEF Empty, IInv, Types, TypeOK
    <2>2. ret' = "et_ok" /\ capacity' = capacity
      BY <1>3 DEF Take
    <2>3. bent' = bent
      <3>1. bent' = (bent \/ (1 > 1 /\ Greater(1 \div 2, nr))) /\ bent \in BOOLEAN
        BY <1>3 DEF Take, IInv, Types, TypeOK
      <3>2. ~(1 > 1)
        OBVIOUS
      <3> QED BY <3>1, <3>2
    <2>4. Element(q[1], p[1]) \in Elements /\ Abstract!Least(Element(q[1], p[1]))
      BY <1>1, <2>1, RootIsLeast
    <2>5. ~Abstract!Empty
      BY <1>3 DEF Empty, Abstract!Empty
    <2>6. /\ Inserted' /\ Abstract!Remove(Element(q[1], p[1]))
          /\ Element(out[1], out[2])' = Element(q[1], p[1])
      BY <1>3, <2>1, TakenIsRemoved
    <2>7. Abstract!DelMin
      BY <1>1, <2>2, <2>3, <2>4, <2>5, <2>6 DEF Abstract!DelMin
    <2> QED BY <2>2, <2>6, <2>7, LimitKept DEF Abstract!Next
  <1> QED BY <1>2, <1>3 DEF awoke_minpq_delmin

LEMMA SwimAbstract ==
    ASSUME IInv, Inserted, UNCHANGED fixed, minpq_swim PROVE Inserted' /\ UNCHANGED Abstract!vars
  <1>1. UNCHANGED <<nr, capacity, op, ret, out, bent, custom, grows>>
    BY DEF minpq_swim, fixed
  <1>2. Inserted' /\ Copies' = Copies
    <2>1. CASE k > 1 /\ Swap(k, k \div 2)
      <3>1. k \in 1 .. nr /\ k \div 2 \in 1 .. nr
        BY <2>1 DEF minpq_swim, IInv, Types, TypeOK
      <3> QED BY <1>1, <2>1, <3>1, SwapAbstract
    <2>2. CASE UNCHANGED <<q, p>>
      BY <1>1, <2>2, SameElements
    <2> QED BY <2>1, <2>2 DEF minpq_swim
  <1> QED BY <1>1, <1>2, AbstractKept

LEMMA SinkAbstract ==
    ASSUME IInv, Inserted, UNCHANGED fixed, minpq_sink PROVE Inserted' /\ UNCHANGED Abstract!vars
  <1>1. UNCHANGED <<nr, op, ret, out, bent, custom, grows>>
    BY DEF minpq_sink, fixed
  <1>2. /\ nr \in Nat /\ nr < capacity /\ capacity \in Nat /\ k \in 1 .. (nr + 1) /\ (grows => custom)
        /\ q \in [1 .. capacity -> Int] /\ p \in [1 .. capacity -> Int]
    BY DEF minpq_sink, IInv, Types, TypeOK, Slots
  <1>3. CASE Sinks /\ Swap(k, Child) /\ UNCHANGED capacity
    <2>1. k \in 1 .. nr /\ Child \in 1 .. nr
      BY <1>2, <1>3 DEF Sinks, Child
    <2>2. Inserted' /\ Copies' = Copies
      BY <1>1, <1>3, <2>1, SwapAbstract
    <2> QED BY <1>1, <1>3, <2>2, AbstractKept
  <1>4. CASE /\ p' = [p EXCEPT ![nr + 1] = 0] /\ q' = [q EXCEPT ![nr + 1] = 0] /\ UNCHANGED capacity
    <2>1. \A i \in 1 .. nr : q'[i] = q[i] /\ p'[i] = p[i]
      BY <1>2, <1>4
    <2>2. Inserted' /\ Copies' = Copies
      BY <1>1, <2>1, SameElements
    <2> QED BY <1>1, <1>4, <2>2, AbstractKept
  <1>5. CASE /\ Shrinks /\ capacity' = capacity \div 2
             /\ q' = [Resized(capacity \div 2) EXCEPT ![nr + 1] = 0]
    <2>1. nr <= capacity \div 2 /\ custom /\ grows
      BY <1>2, <1>5 DEF Shrinks
    <2>2. \A i \in 1 .. nr : q'[i] = q[i]
      BY <1>2, <1>5, <2>1 DEF Resized
    <2>3. Inserted' /\ Copies' = Copies
      BY <1>1, <2>1, <2>2, SameElements
    <2> QED BY <1>1, <2>1, <2>3, AbstractKept
  <1> QED BY <1>3, <1>4, <1>5 DEF minpq_sink

\* Inserting, looking at the first node, taking it and removing another one
\* implement a priority queue, for every set of nodes and priorities, with a
\* capacity or growing and shrinking: no call loses or doubles an element, a
\* bounded queue refuses exactly when it is full, and what is taken is a least
\* element until awoke_minpq_del has bent the heap.
THEOREM MinpqImplementsQueue == Spec => RefinesPriorityQueue
  <1>1. Init => Inserted /\ Abstract!Init
    <2> SUFFICES ASSUME NEW c \in Capacities, NEW f \in BOOLEAN, InitWith(c, f)
                 PROVE  Inserted /\ Abstract!Init
      BY DEF Init
    <2>1. nr = 0 /\ op = "get" /\ ret = "et_ok" /\ bent = FALSE /\ out = <<0, 0>>
      BY DEF InitWith
    <2>2. Inserted
      BY <2>1 DEF Inserted
    <2>3. \A e : Holding(e) = {}
      BY <2>1 DEF Holding
    <2>4. Copies = [e \in Elements |-> 0]
      BY <2>3, FS_EmptySet DEF Copies
    <2>5. Element(out[1], out[2]) = <<0, 0>>
      BY <2>1 DEF Element
    <2> QED BY <2>1, <2>2, <2>4, <2>5 DEF Abstract!Init, Copies
  <1>2. IInv /\ Inserted /\ [Next]_vars => Inserted' /\ [Abstract!Next]_(Abstract!vars)
    <2> SUFFICES ASSUME IInv, Inserted, [Next]_vars
                 PROVE  Inserted' /\ (Abstract!Next \/ UNCHANGED Abstract!vars)
      OBVIOUS
    <2>1. CASE UNCHANGED vars
      <3>1. Inserted' /\ Copies' = Copies
        BY <2>1, SameElements DEF vars
      <3> QED BY <2>1, <3>1, AbstractKept DEF vars
    <2> QED BY <2>1, InsertAbstract, DelminAbstract, DelAbstract, GetAbstract, SwimAbstract, SinkAbstract DEF Next
  <1> QED BY <1>1, <1>2, Invariance, PTL DEF Spec, RefinesPriorityQueue, Abstract!Spec

=============================================================================
