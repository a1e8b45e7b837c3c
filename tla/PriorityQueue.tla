---------------------------- MODULE PriorityQueue ----------------------------
(***************************************************************************)
(* What the minimum priority queue of lib/libutil promises: a bag of       *)
(* elements from which a least one is looked at or taken, and from which a *)
(* certain one can be removed.  A removal may spoil the order.             *)
(***************************************************************************)
EXTENDS Integers

CONSTANT
    Elements        \* pairs of what is in the queue and the key that orders it

VARIABLES
    copies,         \* how often each element is in the queue
    size,           \* how many elements it holds
    bounded, limit, \* whether it has a capacity, and which
    op, ret, out,   \* the last operation and its result
    spoiled         \* the order is lost

vars == <<copies, size, bounded, limit, op, ret, out, spoiled>>
contents == <<copies, size>>

Key(e) == e[2]

Init ==
    /\ copies = [e \in Elements |-> 0] /\ size = 0
    /\ op = "get" /\ ret = "et_ok" /\ out = <<0, 0>> /\ spoiled = FALSE

Holds(e) == copies[e] > 0

Least(e) == Holds(e) /\ (spoiled \/ \A f \in Elements : Holds(f) => Key(e) <= Key(f))

Empty == size = 0
Full == bounded /\ size = limit

Add(e) == copies' = [copies EXCEPT ![e] = @ + 1] /\ size' = size + 1
Remove(e) == copies' = [copies EXCEPT ![e] = @ - 1] /\ size' = size - 1

Insert(e) ==
    /\ op' = "insert" /\ UNCHANGED <<out, spoiled>>
    /\ \/ ~Full /\ Add(e) /\ ret' = "et_ok"
       \/ Full /\ ret' = "et_full" /\ UNCHANGED contents

Min ==
    /\ op' = "get" /\ UNCHANGED <<contents, spoiled>>
    /\ \/ Empty /\ ret' = "et_empty" /\ UNCHANGED out
       \/ ~Empty /\ ret' = "et_ok" /\ \E e \in Elements : Least(e) /\ out' = e

DelMin ==
    /\ op' = "delmin" /\ UNCHANGED spoiled
    /\ \/ Empty /\ ret' = "et_empty" /\ UNCHANGED <<contents, out>>
       \/ ~Empty /\ ret' = "et_ok" /\ \E e \in Elements : Least(e) /\ out' = e /\ Remove(e)

Del(e) ==
    /\ op' = "del" /\ ret' = "et_ok"
    /\ Holds(e) /\ out' = e /\ Remove(e)
    /\ spoiled => spoiled'

\* There is nothing in the queue, or nothing was meant.
DelRefused ==
    /\ op' = "del" /\ UNCHANGED <<contents, out, spoiled>>
    /\ ret' = IF Empty THEN "et_empty" ELSE "et_param"

Next ==
    /\ UNCHANGED bounded /\ (bounded => UNCHANGED limit)
    /\ (\E e \in Elements : Insert(e) \/ Del(e)) \/ DelRefused \/ Min \/ DelMin

Spec == Init /\ [][Next]_vars

=============================================================================
