----------------------------- MODULE AwokeMinpq -----------------------------
(***************************************************************************)
(* awoke_minpq of lib/libutil/src/awoke_queue.c: a binary heap of nodes,   *)
(* 1-based, with a second array for the priorities.  Every user orders its *)
(* heap one of two ways: by the priority given to insert, or by a          *)
(* comparator over the nodes ("custom").  cmder keeps its received and     *)
(* transmitted packets and its scheduled works in such heaps, micro-talk   *)
(* its works and the chunks of a file.                                     *)
(*                                                                         *)
(* A node is an integer, which is also what its comparator looks at.  One  *)
(* iteration of the swim and sink loops is one action.                     *)
(***************************************************************************)
EXTENDS Integers, FiniteSets

CONSTANTS
    Nodes,      \* what callers insert
    Priors,     \* the priorities they insert it with, 0 among them
    Capacities, \* capacity at creation; 0 asks for a queue that grows
    MaxNr       \* bound: nodes in a queue that grows

ASSUME MinpqAssumption ==
    /\ Nodes \subseteq Int /\ Nodes # {}
    /\ Priors \subseteq Int /\ 0 \in Priors
    /\ Capacities \subseteq Nat
    /\ MaxNr \in Nat

VARIABLES
    q, p,       \* node and priority of every slot
    nr,         \* node_nr
    capacity,
    custom,     \* the CDC flag: ordered by the comparator; fixed at creation
    grows,      \* the RES flag; fixed at creation
    pc,         \* "idle", or the loop that is running
    k,          \* its loop variable
    op, ret,    \* the last call and its error code
    out,        \* node and priority it copied to its caller
    bent        \* history: a removal has left a node below a greater one

vars == <<q, p, nr, capacity, custom, grows, pc, k, op, ret, out, bent>>
fixed == <<custom, grows>>

Slots == 1 .. capacity

TypeOK ==
    /\ capacity \in Nat
    /\ q \in [Slots -> Int] /\ p \in [Slots -> Int]
    /\ nr \in 0 .. capacity
    /\ custom \in BOOLEAN /\ grows \in BOOLEAN
    /\ pc \in {"idle", "swim", "sink"}
    /\ k \in Nat
    /\ ret \in {"et_ok", "et_full", "et_empty", "et_param"}
    /\ out \in Int \X Int
    /\ op \in {"insert", "delmin", "del", "get"}
    /\ bent \in BOOLEAN

\* awoke_minpq_create, awoke_minpq_init: capacity 0 turns resizing on.
InitWith(c, f) ==
    /\ capacity = c
    /\ q = [i \in Slots |-> 0] /\ p = [i \in Slots |-> 0]
    /\ nr = 0
    /\ custom = f
    /\ grows = (c = 0)
    /\ pc = "idle" /\ k = 0
    /\ ret = "et_ok"
    /\ out = <<0, 0>>
    /\ op = "get" /\ bent = FALSE

\* awoke_minpq_resize fills the new priorities with the bytes of the nodes, so
\* a queue that grows is ordered by a comparator here.
Init == \E c \in Capacities, f \in BOOLEAN : (c = 0 => f) /\ InitWith(c, f)

Empty == nr = 0
Full == nr = capacity

\* minpq_greater, of two slots
Greater(i, j) == IF custom THEN q[i] > q[j] ELSE p[i] > p[j]

Swapped(a, i, j) == [a EXCEPT ![i] = a[j], ![j] = a[i]]

\* minpq_swap exchanges the nodes and their priorities.
Swap(i, j) ==
    /\ q' = Swapped(q, i, j)
    /\ p' = Swapped(p, i, j)

\* awoke_minpq_resize: both new arrays are copied from the old nodes.
Resized(cap) == [i \in 1 .. cap |-> IF i <= nr THEN q[i] ELSE 0]

NextCapacity == IF capacity = 0 THEN 2 ELSE capacity * 2

-----------------------------------------------------------------------------

\* The new node goes behind the last one and swims from there.
Put(nodes, priors, v, x) ==
    /\ q' = [nodes EXCEPT ![nr + 1] = v]
    /\ p' = [priors EXCEPT ![nr + 1] = x]
    /\ nr' = nr + 1
    /\ k' = nr + 1
    /\ pc' = "swim"
    /\ ret' = "et_ok"
    /\ UNCHANGED out

\* Mutant of awoke_minpq_insert: room for one more is seen in a full queue.
InsertOverrun(v, x) ==
    /\ pc = "idle" /\ op' = "insert" /\ UNCHANGED bent
    /\ IF nr < capacity + 1 THEN Put(q, p, v, x) /\ UNCHANGED capacity
       ELSE ret' = "et_full" /\ UNCHANGED <<q, p, nr, capacity, pc, k, out>>

awoke_minpq_insert(v, x) ==
    /\ pc = "idle" /\ op' = "insert" /\ UNCHANGED bent
    /\ \/ ~Full /\ Put(q, p, v, x) /\ UNCHANGED capacity
       \/ /\ Full /\ ~grows
          /\ ret' = "et_full"
          /\ UNCHANGED <<q, p, nr, capacity, pc, k, out>>
       \/ /\ Full /\ grows /\ nr < MaxNr
          /\ capacity' = NextCapacity
          /\ Put(Resized(NextCapacity), Resized(NextCapacity), v, x)

\* Mutant of minpq_swim: an `if' instead of the loop.
SwimOnce ==
    /\ pc = "swim"
    /\ IF k > 1 /\ Greater(k \div 2, k) THEN Swap(k, k \div 2) ELSE UNCHANGED <<q, p>>
    /\ pc' = "idle"
    /\ UNCHANGED <<nr, capacity, k, op, ret, out, bent>>

\* One iteration of minpq_swim.
minpq_swim ==
    /\ pc = "swim"
    /\ \/ /\ k > 1 /\ Greater(k \div 2, k)
          /\ Swap(k, k \div 2)
          /\ k' = k \div 2
          /\ UNCHANGED pc
       \/ /\ ~(k > 1 /\ Greater(k \div 2, k))
          /\ pc' = "idle" /\ k' = 0
          /\ UNCHANGED <<q, p>>
    /\ UNCHANGED <<nr, capacity, op, ret, out, bent>>

\* Takes the node of a slot out; the last node takes its place and sinks.  It
\* does not swim, where it is less than the parent of its new place.
Take(index) ==
    /\ out' = <<q[index], p[index]>>
    /\ q' = [q EXCEPT ![index] = q[nr]]
    /\ p' = [p EXCEPT ![index] = p[nr]]
    /\ nr' = nr - 1
    /\ k' = index
    /\ pc' = "sink"
    /\ ret' = "et_ok"
    /\ bent' = (bent \/ (index > 1 /\ Greater(index \div 2, nr)))
    /\ UNCHANGED capacity

awoke_minpq_delmin ==
    /\ pc = "idle" /\ op' = "delmin"
    /\ \/ Empty /\ ret' = "et_empty" /\ UNCHANGED <<q, p, nr, capacity, pc, k, out, bent>>
       \/ ~Empty /\ Take(1)

\* awoke_minpq_del.  That there is a node at the index is left to the caller:
\* mtk_work_delete searches for it.
awoke_minpq_del(index) ==
    /\ pc = "idle" /\ op' = "del"
    /\ \/ Empty /\ ret' = "et_empty" /\ UNCHANGED <<q, p, nr, capacity, pc, k, out, bent>>
       \/ ~Empty /\ index < 1 /\ ret' = "et_param" /\ UNCHANGED <<q, p, nr, capacity, pc, k, out, bent>>
       \/ ~Empty /\ index >= 1 /\ Take(index)

\* awoke_minpq_get of the first slot, as the work queues peek.
awoke_minpq_get ==
    /\ pc = "idle" /\ op' = "get"
    /\ \/ Empty /\ ret' = "et_empty" /\ UNCHANGED out
       \/ ~Empty /\ ret' = "et_ok" /\ out' = <<q[1], p[1]>>
    /\ UNCHANGED <<q, p, nr, capacity, pc, k, bent>>

\* The lesser child of slot k.
Child == IF 2 * k < nr /\ Greater(2 * k, 2 * k + 1) THEN 2 * k + 1 ELSE 2 * k

Sinks == 2 * k <= nr /\ Greater(k, Child)

Shrinks == nr > 0 /\ nr = (capacity - 1) \div 4 /\ grows

\* Mutant of minpq_sink: the right child is never looked at.
SinkLeft ==
    /\ pc = "sink"
    /\ IF 2 * k <= nr /\ Greater(k, 2 * k)
       THEN Swap(k, 2 * k) /\ k' = 2 * k /\ UNCHANGED <<pc, capacity>>
       ELSE /\ p' = [p EXCEPT ![nr + 1] = 0]
            /\ q' = [q EXCEPT ![nr + 1] = 0]
            /\ pc' = "idle"
            /\ UNCHANGED <<k, capacity>>
    /\ UNCHANGED <<nr, op, ret, out, bent>>

\* One iteration of minpq_sink; behind the loop the freed slot is zeroed and a
\* sparse queue that grows is halved.
minpq_sink ==
    /\ pc = "sink"
    /\ \/ /\ Sinks
          /\ Swap(k, Child)
          /\ k' = Child
          /\ UNCHANGED <<pc, capacity>>
       \/ /\ ~Sinks /\ ~Shrinks
          /\ p' = [p EXCEPT ![nr + 1] = 0]
          /\ q' = [q EXCEPT ![nr + 1] = 0]
          /\ pc' = "idle" /\ k' = 0
          /\ UNCHANGED capacity
       \/ /\ ~Sinks /\ Shrinks
          /\ capacity' = capacity \div 2
          /\ p' = Resized(capacity \div 2)
          /\ q' = [Resized(capacity \div 2) EXCEPT ![nr + 1] = 0]
          /\ pc' = "idle" /\ k' = 0
    /\ UNCHANGED <<nr, op, ret, out, bent>>

\* Users of a comparator pass the priority 0.
Next ==
    /\ UNCHANGED fixed
    /\ \/ \E v \in Nodes, x \in Priors : (custom => x = 0) /\ awoke_minpq_insert(v, x)
       \/ awoke_minpq_delmin
       \/ \E index \in 0 .. nr : awoke_minpq_del(index)
       \/ awoke_minpq_get
       \/ minpq_swim
       \/ minpq_sink

Spec == Init /\ [][Next]_vars

-----------------------------------------------------------------------------
(* Properties *)

\* A node with what orders it: its priority or, with a comparator, itself.
Element(v, x) == <<v, IF custom THEN v ELSE x>>

Elements == Nodes \X (Nodes \cup Priors)

\* The slots that hold an element.
Holding(e) == {i \in 1 .. nr : Element(q[i], p[i]) = e}

Abstract == INSTANCE PriorityQueue
            WITH copies <- [e \in Elements |-> Cardinality(Holding(e))], size <- nr,
                 out <- Element(out[1], out[2]), spoiled <- bent,
                 bounded <- ~grows, limit <- IF grows THEN 0 ELSE capacity

\* insert, delmin and del implement a priority queue: what delmin takes is a
\* least element of what was inserted and not yet taken, whatever the order of
\* the calls and however often a growing queue was resized in between, until a
\* removal inside the heap has bent it; and even then nothing is lost.
RefinesPriorityQueue == Abstract!Spec

\* Between calls no parent is greater than a child: the comparator's heap
\* order survives swim, sink, the moves of a resize, and every removal that
\* does not put a node below a greater one.
HeapOrdered == pc = "idle" /\ ~bent => \A i \in 2 .. nr : ~Greater(i \div 2, i)

\* "create a MinPQ(Minimum Priority Queue) for scheduled works"
\* (application/cmder/cmder.c:966): the first node is a least one.
RootIsMinimum == pc = "idle" /\ ~bent => \A i \in 1 .. nr : ~Greater(1, i)

=============================================================================
