----------------------------- MODULE AwokeQueue -----------------------------
(***************************************************************************)
(* awoke_queue of lib/libutil/src/awoke_queue.c: the elements stand at the *)
(* front of an array and `curr' is the index of the newest, -1 when empty. *)
(* Taking the oldest shifts everything down by one slot.                   *)
(*                                                                         *)
(* The array has NodeNr slots.  Slot NodeNr of the model is the memory     *)
(* right behind them: awoke_queue_delete of a full queue reads it, and     *)
(* nothing may ever write it.                                              *)
(***************************************************************************)
EXTENDS Integers, Sequences

CONSTANTS
    Values,     \* what callers enqueue
    Zero,       \* a zeroed node
    Beyond,     \* whatever is in memory behind the array
    NodeNr      \* node_nr: slots of the array

ASSUME QueueAssumption ==
    /\ Zero \notin Values
    /\ Beyond \notin Values \cup {Zero}
    /\ NodeNr \in Nat \ {0}

VARIABLES
    slot,   \* q->_queue
    curr,   \* q->curr
    flag,   \* q->flag: "RB" rollback, "IN" insert; fixed at creation
    ret,    \* error code of the last call
    out     \* node the last call copied to its caller

vars == <<slot, curr, flag, ret, out>>

Indices == 0 .. (NodeNr - 1)
Nodes == Values \cup {Zero, Beyond}

TypeOK ==
    /\ slot \in [0 .. NodeNr -> Nodes]
    /\ curr \in -1 .. (NodeNr - 1)
    /\ flag \in SUBSET {"RB", "IN"}
    /\ ret \in {"et_ok", "et_full", "et_empty", "et_param"}
    /\ out \in Nodes

\* awoke_queue_create
Init ==
    /\ slot = [i \in 0 .. NodeNr |-> IF i = NodeNr THEN Beyond ELSE Zero]
    /\ curr = -1
    /\ flag \in SUBSET {"RB", "IN"}
    /\ ret = "et_ok"
    /\ out = Zero

awoke_queue_empty == curr + 1 = 0
awoke_queue_full == curr + 1 = NodeNr

\* The copy loops: every slot of from .. to takes the next one's node ...
ShiftedDown(s, from, to) ==
    [i \in 0 .. NodeNr |-> IF from <= i /\ i <= to THEN s[i + 1] ELSE s[i]]

\* ... or every slot of from + 1 .. to + 1 the one before.
ShiftedUp(s, from, to) ==
    [i \in 0 .. NodeNr |-> IF from < i /\ i <= to + 1 THEN s[i - 1] ELSE s[i]]

\* What awoke_queue_deq leaves of a non-empty array.
WithoutFirst == [ShiftedDown(slot, 0, curr - 1) EXCEPT ![curr] = Zero]

\* Mutant of Without: the copy loop stops one element early.
WithoutShort(index) == ShiftedDown(slot, index, curr - 2)

\* What awoke_queue_delete leaves: the loop runs to i = curr inclusive, so
\* that the last copy reads slot curr + 1.
Without(index) == ShiftedDown(slot, index, curr)

Refuse(err) ==
    /\ ret' = err
    /\ UNCHANGED <<slot, curr>>

-----------------------------------------------------------------------------

awoke_queue_enq(v) ==
    /\ UNCHANGED out
    /\ \/ ~awoke_queue_full
          /\ curr' = (curr + 1) % NodeNr
          /\ slot' = [slot EXCEPT ![curr'] = v]
          /\ ret' = "et_ok"
       \/ awoke_queue_full /\ "RB" \in flag
          /\ curr' = (curr - 1 + 1) % NodeNr
          /\ slot' = [WithoutFirst EXCEPT ![curr'] = v]
          /\ ret' = "et_ok"
       \/ awoke_queue_full /\ "RB" \notin flag /\ Refuse("et_full")

awoke_queue_deq ==
    \/ awoke_queue_empty /\ out' = Zero /\ Refuse("et_empty")
    \/ /\ ~awoke_queue_empty
       /\ out' = slot[0]
       /\ slot' = WithoutFirst
       /\ curr' = curr - 1
       /\ ret' = "et_ok"

\* awoke_queue_get, awoke_queue_first and awoke_queue_last.  The index is not
\* compared with curr: behind the newest element it finds what older ones left.
awoke_queue_get(index) ==
    \/ awoke_queue_empty /\ out' = Zero /\ Refuse("et_empty")
    \/ ~awoke_queue_empty /\ out' = slot[index] /\ ret' = "et_ok"
       /\ UNCHANGED <<slot, curr>>

awoke_queue_delete(index) ==
    /\ UNCHANGED out
    /\ \/ curr < index /\ Refuse("et_full")
       \/ /\ index <= curr
          /\ slot' = Without(index)
          /\ curr' = curr - 1
          /\ ret' = "et_ok"

\* Mutant of InsertSlots: the shift starts one slot too high.
InsertSlotsHigh(s, top, index, idx, v) ==
    [ShiftedUp(s, index, top + 1) EXCEPT ![idx] = v]

\* The shift and the write of awoke_queue_insert_after.
InsertSlots(s, top, index, idx, v) ==
    [ShiftedUp(s, index, top) EXCEPT ![idx] = v]

\* In a full queue with rollback everything has moved down by one slot, so the
\* new node goes to index; otherwise to index + 1.
awoke_queue_insert_after(index, v) ==
    /\ UNCHANGED out
    /\ \/ "IN" \notin flag /\ Refuse("et_param")
       \/ "IN" \in flag /\ curr < index /\ Refuse("et_full")
       \/ "IN" \in flag /\ index <= curr /\ awoke_queue_full /\ "RB" \notin flag /\ Refuse("et_full")
       \/ /\ "IN" \in flag /\ index <= curr /\ awoke_queue_full /\ "RB" \in flag
          /\ slot' = InsertSlots(WithoutFirst, curr - 1, index, index, v)
          /\ curr' = (curr - 1 + 1) % NodeNr
          /\ ret' = "et_ok"
       \/ /\ "IN" \in flag /\ index <= curr /\ ~awoke_queue_full
          /\ slot' = InsertSlots(slot, curr, index, index + 1, v)
          /\ curr' = (curr + 1) % NodeNr
          /\ ret' = "et_ok"

\* awoke_queue_clean: dequeues until the queue is empty.
awoke_queue_clean ==
    /\ curr' = -1
    /\ slot' = [i \in 0 .. NodeNr |-> IF i <= curr THEN Zero ELSE slot[i]]
    /\ ret' = "et_ok"
    /\ UNCHANGED out

Next ==
    /\ UNCHANGED flag
    /\ \/ \E v \in Values : awoke_queue_enq(v)
       \/ awoke_queue_deq
       \/ \E index \in Indices : awoke_queue_get(index) \/ awoke_queue_delete(index)
       \/ \E index \in Indices, v \in Values : awoke_queue_insert_after(index, v)
       \/ awoke_queue_clean

Spec == Init /\ [][Next]_vars

-----------------------------------------------------------------------------
(* Properties *)

\* The elements, oldest first.
Contents == [i \in 1 .. (curr + 1) |-> slot[i - 1]]

Abstract == INSTANCE BoundedQueue
            WITH q <- Contents, rollback <- ("RB" \in flag), Capacity <- NodeNr

\* The array is a bounded sequence: no interleaving of enqueue, dequeue, delete
\* and insert, at any fill level, loses, doubles or reorders an element, and
\* every dequeued node is the oldest one.
RefinesBoundedQueue == Abstract!Spec

\* No copy loop writes past the end of the array, although
\* awoke_queue_delete of a full queue reads there, and what it read never
\* becomes an element.
NoOverrun ==
    /\ slot[NodeNr] = Beyond
    /\ \A i \in 0 .. curr : slot[i] \in Values

=============================================================================
