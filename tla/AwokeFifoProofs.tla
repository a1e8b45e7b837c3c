-------------------------- MODULE AwokeFifoProofs --------------------------
(***************************************************************************)
(* The ring implements the bounded queue, for every capacity.              *)
(***************************************************************************)
EXTENDS AwokeFifo, SequenceTheorems, TLAPS

\* Succ without %, and inside the ring.
LEMMA SuccInRing ==
  ASSUME NEW i \in Indices \cup {UIntMax}
  PROVE  /\ Succ(i) \in Indices
         /\ i # UIntMax => Succ(i) = IF i + 1 < capacity THEN i + 1 ELSE 0
         /\ i = UIntMax => Succ(i) = 0
<1>1. CASE i = UIntMax
  BY <1>1, FifoAssumption DEF Succ, Indices
<1>2. CASE i # UIntMax /\ i + 1 < capacity
  BY <1>2, FifoAssumption DEF Succ, Indices
<1>3. CASE i # UIntMax /\ ~(i + 1 < capacity)
  BY <1>3, FifoAssumption DEF Succ, Indices
<1> QED
  BY <1>1, <1>2, <1>3

\* The slot of the k-th oldest element without %.
Slot(h, k) == IF h + k < capacity THEN h + k ELSE h + k - capacity

\* Index arithmetic of Contents and awoke_fifo_get: one turn of the ring at most.
LEMMA SlotIsMod ==
  ASSUME NEW h \in Indices, NEW k \in 0 .. capacity
  PROVE  (h + k) % capacity = Slot(h, k) /\ Slot(h, k) \in Indices
<1>1. CASE h + k < capacity
  BY <1>1, FifoAssumption DEF Slot, Indices
<1>2. CASE ~(h + k < capacity)
  BY <1>2, FifoAssumption DEF Slot, Indices
<1> QED
  BY <1>1, <1>2

-----------------------------------------------------------------------------
(* The inductive invariant *)

FlagsInv == flags \in {{}, {"RBK"}}

IndInv == TypeOK /\ FlagsInv /\ IndicesAgree

\* The new ring of awoke_fifo_create satisfies the invariant.
LEMMA InitInv == Init => IndInv
<1> SUFFICES ASSUME Init PROVE IndInv
  OBVIOUS
<1>1. TypeOK /\ FlagsInv
  BY FifoAssumption DEF Init, TypeOK, FlagsInv, Indices, Nodes
<1>2. (0 + 0) % capacity = 0
  BY FifoAssumption
<1>3. IndicesAgree
  BY <1>2, FifoAssumption DEF Init, IndicesAgree, Succ
<1> QED
  BY <1>1, <1>3 DEF IndInv

\* What IndicesAgree says without %.
LEMMA TailSlot ==
  ASSUME IndInv
  PROVE  Succ(tail) = Slot(head, node_nr) /\ Succ(tail) \in Indices
  BY SlotIsMod, FifoAssumption DEF IndInv, TypeOK, IndicesAgree

\* The index arithmetic of a full or partly filled ring, case by case.
LEMMA SlotStep ==
  ASSUME NEW h \in Indices, NEW k \in 0 .. (capacity - 1)
  PROVE  /\ Succ(Slot(h, k)) = Slot(h, k + 1)
         /\ Succ(h) \in Indices
         /\ Slot(Succ(h), k) = Slot(h, k + 1)
         /\ Slot(h, 0) = h
         /\ Slot(h, capacity) = h
<1>1. Slot(h, k) \in Indices /\ h \in Indices
  BY SlotIsMod, FifoAssumption
<1>2. /\ Succ(h) = IF h + 1 < capacity THEN h + 1 ELSE 0
      /\ Succ(Slot(h, k)) = IF Slot(h, k) + 1 < capacity THEN Slot(h, k) + 1 ELSE 0
  BY <1>1, SuccInRing, FifoAssumption DEF Indices
<1> QED
  BY <1>1, <1>2, FifoAssumption DEF Slot, Indices

\* Different elements stand in different slots.
LEMMA SlotDistinct ==
  ASSUME NEW h \in Indices, NEW k \in 0 .. (capacity - 1), NEW m \in 0 .. (capacity - 1),
         k # m
  PROVE  Slot(h, k) # Slot(h, m)
  BY FifoAssumption DEF Slot, Indices

\* What the branches of the enqueue and dequeue functions do to the indices:
\* node_nr more, the oldest out of a full ring, or one fewer.
AddStep(v) ==
    /\ node_nr < capacity
    /\ tail' = Succ(tail) /\ ring' = [ring EXCEPT ![tail'] = v]
    /\ head' = head /\ node_nr' = node_nr + 1

DropStep(v) ==
    /\ node_nr = capacity
    /\ tail' = Succ(tail)
    /\ \/ ring' = [ring EXCEPT ![tail'] = v]
       \/ ring' = [ring EXCEPT ![head] = Zero, ![tail'] = v]
    /\ head' = Succ(head) /\ node_nr' = node_nr

TakeStep ==
    /\ node_nr > 0
    /\ tail' = tail /\ ring' = ring
    /\ head' = Succ(head) /\ node_nr' = node_nr - 1

KeepStep == UNCHANGED <<ring, head, tail, node_nr>>

\* Every step of the ring is one of the four.
LEMMA StepKinds ==
  ASSUME IndInv, Next
  PROVE  \/ \E v \in Values : AddStep(v) \/ DropStep(v)
         \/ TakeStep
         \/ KeepStep
<1>1. ASSUME NEW v \in Values, awoke_fifo_enqueue(v) \/ awoke_afifo_enqueue(v)
      PROVE  AddStep(v) \/ DropStep(v) \/ KeepStep
  BY <1>1, FifoAssumption
     DEF awoke_fifo_enqueue, awoke_afifo_enqueue, Put, Refuse, awoke_fifo_full, AddStep,
         DropStep, KeepStep, IndInv, TypeOK
<1>2. CASE awoke_fifo_dequeue
  BY <1>2 DEF awoke_fifo_dequeue, Refuse, awoke_fifo_empty, TakeStep, KeepStep, IndInv, TypeOK
<1>3. ASSUME NEW index \in Indices, awoke_fifo_get(index) PROVE KeepStep
  BY <1>3 DEF awoke_fifo_get, Refuse, KeepStep
<1> QED
  BY <1>1, <1>2, <1>3 DEF Next

\* The indices after each kind of step.
LEMMA IndicesStep ==
  ASSUME IndInv, [Next]_vars
  PROVE  /\ head' \in Indices
         /\ tail' \in Indices \cup {UIntMax}
         /\ node_nr' \in 0 .. capacity
         /\ Succ(tail') = Slot(head', node_nr')
<1>0. /\ Succ(tail) = Slot(head, node_nr) /\ Succ(tail) \in Indices
      /\ head \in Indices /\ node_nr \in 0 .. capacity
      /\ tail \in Indices \cup {UIntMax}
  BY TailSlot DEF IndInv, TypeOK
<1> USE FifoAssumption
<1>1. ASSUME NEW v \in Values, AddStep(v)
      PROVE  /\ head' \in Indices
             /\ tail' \in Indices \cup {UIntMax}
             /\ node_nr' \in 0 .. capacity
             /\ Succ(tail') = Slot(head', node_nr')
  <2>1. node_nr \in 0 .. (capacity - 1) /\ node_nr' \in 0 .. capacity
    BY <1>0, <1>1 DEF AddStep
  <2>2. Succ(Slot(head, node_nr)) = Slot(head, node_nr + 1)
    BY <1>0, <2>1, SlotStep
  <2> QED
    BY <1>0, <1>1, <2>1, <2>2 DEF AddStep
<1>2. ASSUME NEW v \in Values, DropStep(v)
      PROVE  /\ head' \in Indices
             /\ tail' \in Indices \cup {UIntMax}
             /\ node_nr' \in 0 .. capacity
             /\ Succ(tail') = Slot(head', node_nr')
  <2>1. 0 \in 0 .. (capacity - 1)
    OBVIOUS
  <2>2. Slot(head, capacity) = head /\ Succ(head) \in Indices
    BY <1>0, <2>1, SlotStep
  <2>3. Slot(Succ(head), capacity) = Succ(head)
    BY <2>1, <2>2, SlotStep
  <2> QED
    BY <1>0, <1>2, <2>2, <2>3 DEF DropStep
<1>3. CASE TakeStep
  <2>1. node_nr - 1 \in 0 .. (capacity - 1) /\ node_nr' \in 0 .. capacity
    BY <1>0, <1>3 DEF TakeStep
  <2>2. Slot(Succ(head), node_nr - 1) = Slot(head, (node_nr - 1) + 1) /\ Succ(head) \in Indices
    BY <1>0, <2>1, SlotStep
  <2>3. (node_nr - 1) + 1 = node_nr
    BY <1>0
  <2> QED
    BY <1>0, <1>3, <2>1, <2>2, <2>3 DEF TakeStep
<1>4. CASE KeepStep
  BY <1>0, <1>4 DEF KeepStep
<1>5. CASE UNCHANGED vars
  BY <1>0, <1>5 DEF vars
<1> QED
  BY <1>1, <1>2, <1>3, <1>4, <1>5, StepKinds

\* Every operation keeps the types and the agreement of the indices.
LEMMA StepInv == IndInv /\ [Next]_vars => IndInv'
<1> SUFFICES ASSUME IndInv, [Next]_vars PROVE IndInv'
  OBVIOUS
<1>1. /\ head' \in Indices
      /\ tail' \in Indices \cup {UIntMax}
      /\ node_nr' \in 0 .. capacity
      /\ Succ(tail') = Slot(head', node_nr')
  BY IndicesStep
<1>2. Succ(tail) \in Indices /\ head \in Indices
  BY TailSlot DEF IndInv, TypeOK
<1>3. ring' \in [Indices -> Nodes]
  <2>1. ASSUME NEW v \in Values, AddStep(v) \/ DropStep(v)
        PROVE  ring' \in [Indices -> Nodes]
    BY <1>2, <2>1 DEF AddStep, DropStep, IndInv, TypeOK, Nodes
  <2>2. CASE TakeStep \/ KeepStep \/ UNCHANGED vars
    BY <2>2 DEF TakeStep, KeepStep, vars, IndInv, TypeOK
  <2> QED
    BY <2>1, <2>2, StepKinds
<1>4. /\ flags' = flags
      /\ ret' \in {"et_ok", "et_full", "et_empty"}
      /\ out' \in Nodes
  <2>1. ASSUME NEW v \in Values, awoke_fifo_enqueue(v) \/ awoke_afifo_enqueue(v)
        PROVE  ret' \in {"et_ok", "et_full", "et_empty"} /\ out' = out
    BY <2>1 DEF awoke_fifo_enqueue, awoke_afifo_enqueue, Put, Refuse
  <2>2. ASSUME awoke_fifo_dequeue
        PROVE  ret' \in {"et_ok", "et_full", "et_empty"} /\ out' \in Nodes
    <3>1. ring[head] \in Nodes /\ out \in Nodes
      BY <1>2 DEF IndInv, TypeOK
    <3> QED
      BY <2>2, <3>1 DEF awoke_fifo_dequeue, Refuse
  <2>3. ASSUME NEW index \in Indices, awoke_fifo_get(index)
        PROVE  ret' \in {"et_ok", "et_full", "et_empty"} /\ out' \in Nodes
    <3>1. index \in 0 .. capacity
      BY FifoAssumption DEF Indices
    <3>2. (head + index) % capacity \in Indices
      BY <1>2, <3>1, SlotIsMod
    <3>3. ring[(head + index) % capacity] \in Nodes /\ out \in Nodes
      BY <3>2 DEF IndInv, TypeOK
    <3> QED
      BY <2>3, <3>3 DEF awoke_fifo_get, Refuse
  <2>4. CASE UNCHANGED vars
    BY <2>4 DEF vars, IndInv, TypeOK
  <2> QED
    BY <2>1, <2>2, <2>3, <2>4 DEF Next, IndInv, TypeOK, vars
<1>5. (head' + node_nr') % capacity = Slot(head', node_nr')
  BY <1>1, SlotIsMod
<1> QED
  BY <1>1, <1>3, <1>4, <1>5 DEF IndInv, TypeOK, FlagsInv, IndicesAgree, Succ

\* The invariant holds of every reachable ring.
THEOREM Invariance == Spec => []IndInv
  BY InitInv, StepInv, PTL DEF Spec

\* For every capacity: head, tail and count stay in the range of the ring.
THEOREM TypeCorrect == Spec => []TypeOK
<1>1. IndInv => TypeOK
  BY DEF IndInv
<1> QED
  BY <1>1, Invariance, PTL

\* For every capacity: the tail stays node_nr nodes after the head, across
\* every wrap-around and every rollback.
THEOREM IndicesAlwaysAgree == Spec => []IndicesAgree
<1>1. IndInv => IndicesAgree
  BY DEF IndInv
<1> QED
  BY <1>1, Invariance, PTL

-----------------------------------------------------------------------------
(* Refinement *)

\* Append, element by element.
LEMMA AppendIs ==
  ASSUME NEW S, NEW s \in Seq(S), NEW e \in S, NEW n \in Nat, Len(s) = n
  PROVE  Append(s, e) = [i \in 1 .. (n + 1) |-> IF i <= n THEN s[i] ELSE e]
<1>1. /\ Append(s, e) \in Seq(S)
      /\ Len(Append(s, e)) = n + 1
      /\ \A i \in 1 .. n : Append(s, e)[i] = s[i]
      /\ Append(s, e)[n + 1] = e
  OBVIOUS
<1>2. Append(s, e) = [i \in 1 .. (n + 1) |-> Append(s, e)[i]]
  <2>1. Append(s, e) \in [1 .. Len(Append(s, e)) -> S]
    BY <1>1, LenProperties
  <2> QED
    BY <1>1, <2>1
<1>3. ASSUME NEW i \in 1 .. (n + 1)
      PROVE  Append(s, e)[i] = IF i <= n THEN s[i] ELSE e
  BY <1>1
<1> QED
  BY <1>2, <1>3

\* Contents without %.
LEMMA ContentsSlots ==
  ASSUME IndInv
  PROVE  /\ Contents = [i \in 1 .. node_nr |-> ring[Slot(head, i - 1)]]
         /\ Contents \in Seq(Nodes)
         /\ Len(Contents) = node_nr
<1> USE FifoAssumption DEF IndInv, TypeOK
<1>1. ASSUME NEW i \in 1 .. node_nr
      PROVE  /\ (head + i - 1) % capacity = Slot(head, i - 1)
             /\ Slot(head, i - 1) \in Indices
  <2>1. i - 1 \in 0 .. capacity /\ head + i - 1 = head + (i - 1)
    BY DEF Indices
  <2> QED
    BY <2>1, SlotIsMod
<1>2. Contents = [i \in 1 .. node_nr |-> ring[Slot(head, i - 1)]]
  BY <1>1 DEF Contents
<1>3. \A i \in 1 .. node_nr : ring[Slot(head, i - 1)] \in Nodes
  BY <1>1
<1> QED
  BY <1>2, <1>3

\* The same of the next state.
LEMMA ContentsSlotsNext ==
  ASSUME IndInv'
  PROVE  /\ Contents' = [i \in 1 .. node_nr' |-> ring'[Slot(head', i - 1)]]
         /\ Contents' \in Seq(Nodes)
         /\ Len(Contents') = node_nr'
<1> USE FifoAssumption DEF IndInv, TypeOK
<1>1. ASSUME NEW i \in 1 .. node_nr'
      PROVE  /\ (head' + i - 1) % capacity = Slot(head', i - 1)
             /\ Slot(head', i - 1) \in Indices
  <2>1. i - 1 \in 0 .. capacity /\ head' + i - 1 = head' + (i - 1) /\ head' \in Indices
    BY DEF Indices
  <2> QED
    BY <2>1, SlotIsMod
<1>2. Contents' = [i \in 1 .. node_nr' |-> ring'[Slot(head', i - 1)]]
  BY <1>1 DEF Contents
<1>3. \A i \in 1 .. node_nr' : ring'[Slot(head', i - 1)] \in Nodes
  BY <1>1
<1> QED
  BY <1>2, <1>3

\* Enqueueing on a ring with room appends.
LEMMA AddAppends ==
  ASSUME IndInv, IndInv', NEW v \in Values, AddStep(v)
  PROVE  Contents' = Append(Contents, v)
<1> USE FifoAssumption
<1>1. /\ head \in Indices /\ node_nr \in 0 .. (capacity - 1)
      /\ ring \in [Indices -> Nodes]
      /\ tail' = Slot(head, node_nr) /\ tail' \in Indices
      /\ head' = head /\ node_nr' = node_nr + 1 /\ ring' = [ring EXCEPT ![tail'] = v]
  BY TailSlot DEF AddStep, IndInv, TypeOK
<1>2. ASSUME NEW i \in 1 .. node_nr
      PROVE  ring'[Slot(head, i - 1)] = ring[Slot(head, i - 1)]
  <2>1. i - 1 \in 0 .. (capacity - 1) /\ i - 1 \in 0 .. capacity /\ i - 1 # node_nr
    BY <1>1
  <2>2. Slot(head, i - 1) \in Indices /\ Slot(head, i - 1) # tail'
    BY <1>1, <2>1, SlotIsMod, SlotDistinct
  <2> QED
    BY <1>1, <2>2
<1>3. ring'[Slot(head, (node_nr + 1) - 1)] = v
  BY <1>1
<1>4. Contents' = [i \in 1 .. (node_nr + 1) |-> ring'[Slot(head, i - 1)]]
  BY <1>1, ContentsSlotsNext
<1>5. /\ Contents = [i \in 1 .. node_nr |-> ring[Slot(head, i - 1)]]
      /\ Contents \in Seq(Nodes) /\ Len(Contents) = node_nr
  BY ContentsSlots
<1>6. Append(Contents, v) =
        [i \in 1 .. (node_nr + 1) |-> IF i <= node_nr THEN Contents[i] ELSE v]
  BY <1>1, <1>5
<1>7. ASSUME NEW i \in 1 .. (node_nr + 1)
      PROVE  ring'[Slot(head, i - 1)] = IF i <= node_nr THEN Contents[i] ELSE v
  BY <1>1, <1>2, <1>3, <1>5
<1> QED
  BY <1>4, <1>6, <1>7

\* Dequeueing hands out the head and leaves the tail of the sequence.
LEMMA TakeTails ==
  ASSUME IndInv, IndInv', TakeStep
  PROVE  /\ Contents # <<>>
         /\ Contents' = Tail(Contents)
         /\ ring[head] = Head(Contents)
<1> USE FifoAssumption
<1>1. /\ head \in Indices /\ node_nr \in 1 .. capacity
      /\ head' = Succ(head) /\ node_nr' = node_nr - 1 /\ ring' = ring
  BY DEF TakeStep, IndInv, TypeOK
<1>2. /\ Contents = [i \in 1 .. node_nr |-> ring[Slot(head, i - 1)]]
      /\ Contents \in Seq(Nodes) /\ Len(Contents) = node_nr
  BY ContentsSlots
<1>3. Contents' = [i \in 1 .. (node_nr - 1) |-> ring[Slot(Succ(head), i - 1)]]
  BY <1>1, ContentsSlotsNext
<1>4. Tail(Contents) = [i \in 1 .. (node_nr - 1) |-> Contents[i + 1]]
  BY <1>1, <1>2
<1>5. ASSUME NEW i \in 1 .. (node_nr - 1)
      PROVE  ring[Slot(Succ(head), i - 1)] = Contents[i + 1]
  <2>1. i - 1 \in 0 .. (capacity - 1) /\ i + 1 \in 1 .. node_nr /\ (i - 1) + 1 = (i + 1) - 1
    BY <1>1
  <2>2. Slot(Succ(head), i - 1) = Slot(head, (i - 1) + 1)
    BY <1>1, <2>1, SlotStep
  <2> QED
    BY <1>2, <2>1, <2>2
<1>6. ring[head] = Contents[1]
  <2>1. 0 \in 0 .. (capacity - 1)
    OBVIOUS
  <2>2. Slot(head, 0) = head
    BY <1>1, <2>1, SlotStep
  <2>3. 1 - 1 = 0 /\ 1 \in 1 .. node_nr
    BY <1>1
  <2> QED
    BY <1>2, <2>2, <2>3
<1>7. Contents # <<>> /\ Head(Contents) = Contents[1]
  BY <1>1, <1>2
<1>8. Contents' = Tail(Contents)
  BY <1>3, <1>4, <1>5
<1> QED
  BY <1>6, <1>7, <1>8

\* Enqueueing on a full ring with rollback drops the oldest and appends.
LEMMA DropAppends ==
  ASSUME IndInv, IndInv', NEW v \in Values, DropStep(v)
  PROVE  Contents' = Append(Tail(Contents), v)
<1> USE FifoAssumption
<1>0. 0 \in 0 .. (capacity - 1)
  OBVIOUS
<1>1. /\ head \in Indices /\ node_nr = capacity /\ node_nr' = capacity
      /\ ring \in [Indices -> Nodes] /\ head' = Succ(head)
      /\ tail' = Slot(head, capacity)
  BY TailSlot DEF DropStep, IndInv, TypeOK
<1>2. tail' = head
  BY <1>0, <1>1, SlotStep
<1>3. ring' = [ring EXCEPT ![head] = v]
  <2>1. CASE ring' = [ring EXCEPT ![tail'] = v]
    BY <1>2, <2>1
  <2>2. CASE ring' = [ring EXCEPT ![head] = Zero, ![tail'] = v]
    BY <1>1, <1>2, <2>2
  <2> QED
    BY <2>1, <2>2 DEF DropStep
<1>4. /\ Contents = [i \in 1 .. capacity |-> ring[Slot(head, i - 1)]]
      /\ Contents \in Seq(Nodes) /\ Len(Contents) = capacity
  BY <1>1, ContentsSlots
<1>5. Contents' = [i \in 1 .. capacity |-> ring'[Slot(Succ(head), i - 1)]]
  BY <1>1, ContentsSlotsNext
<1>6. ASSUME NEW i \in 1 .. capacity
      PROVE  ring'[Slot(Succ(head), i - 1)] = IF i < capacity THEN Contents[i + 1] ELSE v
  <2>1. i - 1 \in 0 .. (capacity - 1) /\ (i - 1) + 1 = i
    OBVIOUS
  <2>2. Slot(Succ(head), i - 1) = Slot(head, i)
    BY <1>1, <2>1, SlotStep
  <2>3. CASE i = capacity
    BY <1>0, <1>1, <1>3, <2>2, <2>3, SlotStep
  <2>4. CASE i < capacity
    <3>1. i \in 0 .. (capacity - 1) /\ i \in 0 .. capacity /\ i # 0 /\ i + 1 \in 1 .. capacity
          /\ (i + 1) - 1 = i
      BY <2>4
    <3>2. Slot(head, 0) = head
      BY <1>0, <1>1, SlotStep
    <3>3. Slot(head, i) \in Indices /\ Slot(head, i) # head
      BY <1>0, <1>1, <3>1, <3>2, SlotIsMod, SlotDistinct
    <3> QED
      BY <1>1, <1>3, <1>4, <2>2, <2>4, <3>1, <3>3
  <2> QED
    BY <2>3, <2>4
<1>7. /\ Tail(Contents) = [i \in 1 .. (capacity - 1) |-> Contents[i + 1]]
      /\ Tail(Contents) \in Seq(Nodes) /\ Len(Tail(Contents)) = capacity - 1
  BY <1>4
<1>8. Append(Tail(Contents), v) =
        [i \in 1 .. capacity |-> IF i < capacity THEN Contents[i + 1] ELSE v]
  <2> DEFINE T == Tail(Contents)
  <2>1. T \in Seq(Nodes) /\ Len(T) = capacity - 1 /\ Len(T) + 1 = capacity
    BY <1>7
  <2>2. \A i \in 1 .. (capacity - 1) : T[i] = Contents[i + 1]
    BY <1>7
  <2> HIDE DEF T
  <2>3. Append(T, v) =
          [i \in 1 .. ((capacity - 1) + 1) |-> IF i <= capacity - 1 THEN T[i] ELSE v]
    BY <2>1, AppendIs, v \in Nodes, capacity - 1 \in Nat DEF Nodes
  <2>4. ASSUME NEW i \in 1 .. capacity
        PROVE  (IF i <= capacity - 1 THEN T[i] ELSE v)
                = IF i < capacity THEN Contents[i + 1] ELSE v
    BY <2>1, <2>2
  <2>5. Append(T, v) = [i \in 1 .. capacity |-> IF i < capacity THEN Contents[i + 1] ELSE v]
    BY <2>3, <2>4, (capacity - 1) + 1 = capacity
  <2> QED
    BY <2>5 DEF T
<1> QED
  BY <1>5, <1>6, <1>8

\* Every step of the ring is a step of the bounded queue, or none.
LEMMA StepRefines ==
  ASSUME IndInv, IndInv', [Next]_vars
  PROVE  [Abstract!Next]_(Abstract!vars)
<1> USE FifoAssumption
<1>1. Contents \in Seq(Nodes) /\ Len(Contents) = node_nr
  BY ContentsSlots
<1>2. ASSUME KeepStep PROVE Contents' = Contents
  BY <1>2 DEF KeepStep, Contents
<1>3. ASSUME NEW v \in Values, awoke_fifo_enqueue(v) \/ awoke_afifo_enqueue(v)
      PROVE  Abstract!Enqueue(v)
  <2>0. out' = out
    BY <1>3 DEF awoke_fifo_enqueue, awoke_afifo_enqueue
  <2>1. CASE node_nr # capacity
    <3>1. AddStep(v) /\ ret' = "et_ok"
      BY <1>3, <2>1
         DEF awoke_fifo_enqueue, awoke_afifo_enqueue, Put, awoke_fifo_full, AddStep,
             IndInv, TypeOK
    <3> QED
      BY <1>1, <2>0, <2>1, <3>1, AddAppends DEF Abstract!Enqueue, Abstract!Full
  <2>2. CASE node_nr = capacity /\ "RBK" \in flags
    <3>1. DropStep(v) /\ ret' = "et_ok"
      BY <1>3, <2>2
         DEF awoke_fifo_enqueue, awoke_afifo_enqueue, Put, awoke_fifo_full, DropStep
    <3> QED
      BY <1>1, <2>0, <2>2, <3>1, DropAppends DEF Abstract!Enqueue, Abstract!Full
  <2>3. CASE node_nr = capacity /\ "RBK" \notin flags
    <3>1. KeepStep /\ ret' = "et_full"
      BY <1>3, <2>3
         DEF awoke_fifo_enqueue, awoke_afifo_enqueue, awoke_fifo_full, Refuse, KeepStep
    <3> QED
      BY <1>1, <1>2, <2>0, <2>3, <3>1 DEF Abstract!Enqueue, Abstract!Full, Abstract!Refuse
  <2> QED
    BY <2>1, <2>2, <2>3
<1>4. ASSUME awoke_fifo_dequeue PROVE Abstract!Dequeue
  <2>1. CASE node_nr = 0
    <3>1. KeepStep /\ ret' = "et_empty" /\ Contents = <<>>
      BY <1>1, <1>4, <2>1 DEF awoke_fifo_dequeue, awoke_fifo_empty, Refuse, KeepStep
    <3> QED
      BY <1>2, <3>1 DEF Abstract!Dequeue, Abstract!Refuse
  <2>2. CASE node_nr # 0
    <3>1. TakeStep /\ ret' = "et_ok" /\ out' = ring[head]
      BY <1>4, <2>2 DEF awoke_fifo_dequeue, awoke_fifo_empty, TakeStep, IndInv, TypeOK
    <3> QED
      BY <3>1, TakeTails DEF Abstract!Dequeue
  <2> QED
    BY <2>1, <2>2
<1>5. ASSUME NEW index \in Indices, awoke_fifo_get(index)
      PROVE  Abstract!Peek(index)
  <2>1. KeepStep
    BY <1>5 DEF awoke_fifo_get, Refuse, KeepStep
  <2>2. CASE node_nr = 0 /\ ret' = "et_empty"
    <3>1. Contents = <<>>
      BY <1>1, <2>2
    <3> QED
      BY <1>2, <2>1, <2>2, <3>1 DEF Abstract!Peek, Abstract!Refuse
  <2>3. CASE node_nr # 0 /\ ret' = "et_ok" /\ out' = ring[(head + index) % capacity]
    <3>1. node_nr \in Nat /\ node_nr > 0
      BY <2>3 DEF IndInv, TypeOK
    <3>2. ASSUME index < Len(Contents) PROVE Contents[index + 1] = ring[(head + index) % capacity]
      <4>1. index + 1 \in 1 .. node_nr /\ head + (index + 1) - 1 = head + index
        BY <1>1, <3>1, <3>2 DEF IndInv, TypeOK, Indices
      <4> QED
        BY <4>1 DEF Contents
    <3>3. Contents # <<>>
      BY <1>1, <3>1
    <3> QED
      BY <1>1, <1>2, <2>1, <2>3, <3>2, <3>3 DEF Abstract!Peek
  <2> QED
    BY <1>5, <2>2, <2>3 DEF awoke_fifo_get, awoke_fifo_empty, Refuse
<1>6. CASE UNCHANGED vars
  BY <1>6 DEF vars, Abstract!vars, Contents
<1> QED
  BY <1>3, <1>4, <1>5, <1>6 DEF Next, Abstract!Next, Indices

\* The ring implements the bounded queue, whatever its capacity: FIFO order,
\* no loss and no duplication but for the rollback's oldest element.
THEOREM FifoImplementsQueue == Spec => RefinesBoundedQueue
<1>1. Init => Abstract!Init
  <2> SUFFICES ASSUME Init PROVE Abstract!Init
    OBVIOUS
  <2>1. Contents = <<>>
    BY InitInv, ContentsSlots DEF Init
  <2> QED
    BY <2>1 DEF Init, Abstract!Init
<1>2. IndInv /\ IndInv' /\ [Next]_vars => [Abstract!Next]_(Abstract!vars)
  BY StepRefines
<1> QED
  BY <1>1, <1>2, Invariance, PTL DEF Spec, RefinesBoundedQueue, Abstract!Spec

=============================================================================
