---------------------------- MODULE BoundedQueue ----------------------------
(***************************************************************************)
(* What the queues of lib/libutil promise: a bounded sequence.  Adding to  *)
(* a full queue either is refused or, with the rollback flag, drops the    *)
(* oldest element first.  Every operation also has a result: `ret' is the  *)
(* error code, `out' what was copied to the caller, which means nothing    *)
(* when a look or a dequeue was refused, or a look went behind the         *)
(* elements.                                                               *)
(***************************************************************************)
EXTENDS Naturals, Sequences

CONSTANTS Values, Zero, Capacity

VARIABLES
    q,          \* the elements, oldest first
    rollback,   \* whether a full queue makes room; fixed at creation
    ret, out    \* result of the last operation

vars == <<q, rollback, ret, out>>

Init == q = <<>> /\ rollback \in BOOLEAN /\ ret = "et_ok" /\ out = Zero

Full == Len(q) = Capacity

\* An operation that changes nothing: a refused one, a wrong index.
Refuse(err) ==
    /\ ret' = err
    /\ UNCHANGED q

Enqueue(v) ==
    /\ UNCHANGED out
    /\ \/ ~Full /\ q' = Append(q, v) /\ ret' = "et_ok"
       \/ Full /\ rollback /\ q' = Append(Tail(q), v) /\ ret' = "et_ok"
       \/ Full /\ ~rollback /\ Refuse("et_full")

Dequeue ==
    \/ q = <<>> /\ Refuse("et_empty")
    \/ q # <<>> /\ q' = Tail(q) /\ out' = Head(q) /\ ret' = "et_ok"

\* Look at the element at an index (0 is the oldest).  A wrong index is the
\* caller's to avoid: it is not refused.
Peek(index) ==
    \/ q = <<>> /\ Refuse("et_empty")
    \/ q # <<>> /\ (index < Len(q) => out' = q[index + 1]) /\ ret' = "et_ok" /\ UNCHANGED q

\* Without the element at an index.
Remove(index) ==
    /\ UNCHANGED out
    /\ \/ index >= Len(q) /\ \E err \in {"et_full", "et_empty"} : Refuse(err)
       \/ /\ index < Len(q)
          /\ q' = [i \in 1 .. (Len(q) - 1) |-> IF i <= index THEN q[i] ELSE q[i + 1]]
          /\ ret' = "et_ok"

\* With v right behind the element at an index; in a full queue the oldest
\* element makes room.
Inserted(s, index, v) ==
    [i \in 1 .. (Len(s) + 1) |->
        IF i <= index + 1 THEN s[i] ELSE IF i = index + 2 THEN v ELSE s[i - 1]]

InsertAfter(index, v) ==
    /\ UNCHANGED out
    /\ \/ Refuse("et_param")      \* a queue that was not created for inserting
       \/ index >= Len(q) /\ Refuse("et_full")
       \/ index < Len(q) /\ ~Full /\ q' = Inserted(q, index, v) /\ ret' = "et_ok"
       \/ index < Len(q) /\ Full /\ rollback /\ q' = Tail(Inserted(q, index, v)) /\ ret' = "et_ok"
       \/ index < Len(q) /\ Full /\ ~rollback /\ Refuse("et_full")

Clear == q' = <<>> /\ ret' = "et_ok" /\ UNCHANGED out

Next ==
    /\ UNCHANGED rollback
    /\ \/ \E v \in Values : Enqueue(v)
       \/ Dequeue
       \/ \E index \in 0 .. (Capacity - 1) : Peek(index) \/ Remove(index)
       \/ \E index \in 0 .. (Capacity - 1), v \in Values : InsertAfter(index, v)
       \/ Clear

Spec == Init /\ [][Next]_vars

=============================================================================
