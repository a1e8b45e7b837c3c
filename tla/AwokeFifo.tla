----------------------------- MODULE AwokeFifo -----------------------------
(***************************************************************************)
(* awoke_fifo and the array FIFO (awoke_afifo) of                          *)
(* lib/libutil/src/awoke_queue.c: a ring of `capacity' nodes with a head   *)
(* index, a tail index and a count.  head, tail and node_nr are unsigned   *)
(* 32-bit integers; the tail of an empty new ring is (unsigned)-1, so that *)
(* the first enqueue wraps it to 0.                                        *)
(***************************************************************************)
EXTENDS Naturals, Sequences

CONSTANTS
    Values,     \* what callers enqueue
    Zero,       \* a zeroed node
    capacity,   \* f->capacity
    UIntMax     \* 2^32 - 1, the value of (unsigned)-1

ASSUME FifoAssumption ==
    /\ Zero \notin Values
    /\ capacity \in Nat \ {0}
    /\ UIntMax \in Nat
    /\ capacity <= UIntMax

VARIABLES
    ring,       \* f->q
    head,       \* f->head
    tail,       \* f->tail
    node_nr,    \* f->node_nr
    flags,      \* f->flags: "RBK" rollback; fixed at creation
    ret,        \* error code of the last call
    out         \* node the last call copied to its caller

vars == <<ring, head, tail, node_nr, flags, ret, out>>

Indices == 0 .. (capacity - 1)
Nodes == Values \cup {Zero}

TypeOK ==
    /\ ring \in [Indices -> Nodes]
    /\ head \in Indices
    /\ tail \in Indices \cup {UIntMax}
    /\ node_nr \in 0 .. capacity
    /\ flags \in {{}, {"RBK"}}
    /\ ret \in {"et_ok", "et_full", "et_empty"}
    /\ out \in Nodes

\* awoke_fifo_create, awoke_fifo_init and awoke_afifo_create: refuse when full,
\* or roll back.  (The third flag resizes a full ring through awoke_fifo_resize,
\* an empty stub: such a ring overwrites nodes that nobody has read.)
Init ==
    /\ ring = [i \in Indices |-> Zero]
    /\ head = 0
    /\ tail = UIntMax
    /\ node_nr = 0
    /\ flags \in {{}, {"RBK"}}
    /\ ret = "et_ok"
    /\ out = Zero

awoke_fifo_empty == node_nr = 0
awoke_fifo_full == node_nr = capacity

\* (i + 1) % f->capacity, in unsigned arithmetic.
Succ(i) == IF i = UIntMax THEN 0 ELSE (i + 1) % capacity

Refuse(err) ==
    /\ ret' = err
    /\ UNCHANGED <<ring, head, tail, node_nr>>

-----------------------------------------------------------------------------

\* The last four lines of the enqueue functions.
Put(v) ==
    /\ tail' = Succ(tail)
    /\ ring' = [ring EXCEPT ![tail'] = v]
    /\ ret' = "et_ok"

\* A full ring with rollback dequeues the oldest node first.
awoke_fifo_enqueue(v) ==
    /\ UNCHANGED out
    /\ \/ ~awoke_fifo_full /\ Put(v) /\ node_nr' = node_nr + 1 /\ UNCHANGED head
       \/ awoke_fifo_full /\ "RBK" \in flags /\ Put(v)
          /\ head' = Succ(head) /\ node_nr' = node_nr
       \/ awoke_fifo_full /\ flags = {} /\ Refuse("et_full")

\* awoke_afifo_enqueue zeroes the node it drops and is otherwise the same.
awoke_afifo_enqueue(v) ==
    /\ UNCHANGED out
    /\ \/ ~awoke_fifo_full /\ Put(v) /\ node_nr' = node_nr + 1 /\ UNCHANGED head
       \/ /\ awoke_fifo_full /\ "RBK" \in flags
          /\ tail' = Succ(tail)
          /\ ring' = [ring EXCEPT ![head] = Zero, ![tail'] = v]
          /\ head' = Succ(head)
          /\ node_nr' = node_nr
          /\ ret' = "et_ok"
       \/ awoke_fifo_full /\ "RBK" \notin flags /\ Refuse("et_full")

\* Mutant of awoke_fifo_dequeue: the node is handed out but the head stays.
DequeueKeepsHead ==
    \/ awoke_fifo_empty /\ Refuse("et_empty") /\ UNCHANGED out
    \/ /\ ~awoke_fifo_empty
       /\ out' = ring[head]
       /\ node_nr' = node_nr - 1
       /\ ret' = "et_ok"
       /\ UNCHANGED <<ring, head, tail>>

\* Mutant of awoke_fifo_dequeue: the newest node is handed out.
DequeueNewest ==
    \/ awoke_fifo_empty /\ Refuse("et_empty") /\ UNCHANGED out
    \/ /\ ~awoke_fifo_empty
       /\ out' = ring[tail]
       /\ head' = Succ(head)
       /\ node_nr' = node_nr - 1
       /\ ret' = "et_ok"
       /\ UNCHANGED <<ring, tail>>

\* awoke_fifo_dequeue and awoke_afifo_dequeue.
awoke_fifo_dequeue ==
    \/ awoke_fifo_empty /\ Refuse("et_empty") /\ UNCHANGED out
    \/ /\ ~awoke_fifo_empty
       /\ out' = ring[head]
       /\ head' = Succ(head)
       /\ node_nr' = node_nr - 1
       /\ ret' = "et_ok"
       /\ UNCHANGED <<ring, tail>>

\* awoke_fifo_get: the index is not compared with node_nr either.
awoke_fifo_get(index) ==
    \/ awoke_fifo_empty /\ Refuse("et_empty") /\ UNCHANGED out
    \/ /\ ~awoke_fifo_empty
       /\ out' = ring[(head + index) % capacity]
       /\ ret' = "et_ok"
       /\ UNCHANGED <<ring, head, tail, node_nr>>

Next ==
    /\ UNCHANGED flags
    /\ \/ \E v \in Values : awoke_fifo_enqueue(v) \/ awoke_afifo_enqueue(v)
       \/ awoke_fifo_dequeue
       \/ \E index \in Indices : awoke_fifo_get(index)

Spec == Init /\ [][Next]_vars

-----------------------------------------------------------------------------
(* Properties *)

\* The elements, oldest first.
Contents == [i \in 1 .. node_nr |-> ring[(head + i - 1) % capacity]]

Abstract == INSTANCE BoundedQueue
            WITH q <- Contents, rollback <- ("RBK" \in flags), Capacity <- capacity

\* The ring is a bounded sequence: whatever the calls made, across every
\* wrap-around of head and tail, no element is lost, doubled or reordered but
\* for the oldest one that the rollback of a full ring drops.
RefinesBoundedQueue == Abstract!Spec

\* head, tail and the count agree: the tail is node_nr nodes after the head.
\* Both the enqueue functions and the dequeue functions rely on it and none of
\* them can see all three.
IndicesAgree == Succ(tail) = (head + node_nr) % capacity

=============================================================================
