-------------------------- MODULE AwokeQueueProofs --------------------------
(***************************************************************************)
(* The array queue for every number of nodes and every set of values: no   *)
(* copy loop leaves the array, and the array implements the bounded queue. *)
(***************************************************************************)
EXTENDS AwokeQueue, SequenceTheorems, TLAPS

USE QueueAssumption

IInv == TypeOK /\ NoOverrun

\* Every operation on the array is one of these, with a new array s and a new
\* number n of elements: nothing, ...
Kept == slot' = slot /\ curr' = curr

\* ... a node behind the last, ...
Added(v) ==
    /\ curr + 1 < NodeNr /\ curr' = curr + 1
    /\ slot' = [i \in 0 .. NodeNr |-> IF i = curr + 1 THEN v ELSE slot[i]]

\* ... the first one out, ...
Taken ==
    /\ curr >= 0 /\ curr' = curr - 1
    /\ slot' = [i \in 0 .. NodeNr |-> IF i < curr THEN slot[i + 1] ELSE IF i = curr THEN Zero ELSE slot[i]]

\* ... the first one out and a node behind the last, ...
Rolled(v) ==
    /\ curr + 1 = NodeNr /\ curr' = curr
    /\ slot' = [i \in 0 .. NodeNr |-> IF i < curr THEN slot[i + 1] ELSE IF i = curr THEN v ELSE slot[i]]

\* ... one out, ...
Deleted(index) ==
    /\ index <= curr /\ curr' = curr - 1
    /\ slot' = [i \in 0 .. NodeNr |-> IF index <= i /\ i <= curr THEN slot[i + 1] ELSE slot[i]]

\* ... one in, with room for it or without.
Inserted(index, v) ==
    /\ index <= curr /\ curr + 1 < NodeNr /\ curr' = curr + 1
    /\ slot' = [i \in 0 .. NodeNr |->
                  IF i = index + 1 THEN v ELSE IF index < i /\ i <= curr + 1 THEN slot[i - 1] ELSE slot[i]]

InsertedFull(index, v) ==
    /\ index <= curr /\ curr + 1 = NodeNr /\ curr' = curr
    /\ slot' = [i \in 0 .. NodeNr |->
                  IF i < index THEN slot[i + 1] ELSE IF i = index THEN v ELSE slot[i]]

Emptied ==
    /\ curr' = -1
    /\ slot' = [i \in 0 .. NodeNr |-> IF i <= curr THEN Zero ELSE slot[i]]

-----------------------------------------------------------------------------
(* The operations are steps of these kinds *)

LEMMA NoWrap == ASSUME NEW k \in Nat, k < NodeNr PROVE k % NodeNr = k
  OBVIOUS

\* The array once its first node has been taken.
FirstGone == [i \in 0 .. NodeNr |-> IF i < curr THEN slot[i + 1] ELSE IF i = curr THEN Zero ELSE slot[i]]

LEMMA WithoutFirstIs == ASSUME TypeOK, curr >= 0 PROVE WithoutFirst = FirstGone
  <1>0. curr \in Nat /\ curr \in 0 .. NodeNr
    BY DEF TypeOK
  <1> DEFINE s == [i \in 0 .. NodeNr |-> IF 0 <= i /\ i <= curr - 1 THEN slot[i + 1] ELSE slot[i]]
  <1>1. WithoutFirst = [s EXCEPT ![curr] = Zero]
    BY DEF WithoutFirst, ShiftedDown
  <1>2. [s EXCEPT ![curr] = Zero] = [i \in 0 .. NodeNr |-> IF i = curr THEN Zero ELSE s[i]]
    BY <1>0, Zenon
  <1>3. ASSUME NEW i \in 0 .. NodeNr
        PROVE  (IF i = curr THEN Zero ELSE s[i])
                 = IF i < curr THEN slot[i + 1] ELSE IF i = curr THEN Zero ELSE slot[i]
    BY <1>0
  <1> HIDE DEF s
  <1> QED BY <1>1, <1>2, <1>3 DEF FirstGone

LEMMA EnqKinds ==
    ASSUME TypeOK, NEW v \in Values, awoke_queue_enq(v)
    PROVE  /\ UNCHANGED out
           /\ \/ Added(v) /\ ret' = "et_ok"
              \/ Rolled(v) /\ "RB" \in flag /\ ret' = "et_ok"
              \/ Kept /\ curr + 1 = NodeNr /\ "RB" \notin flag /\ ret' = "et_full"
  <1>0. curr \in Int /\ -1 <= curr /\ curr < NodeNr /\ slot \in [0 .. NodeNr -> Nodes]
    BY DEF TypeOK
  <1>1. CASE /\ curr + 1 # NodeNr /\ curr' = (curr + 1) % NodeNr
             /\ slot' = [slot EXCEPT ![curr'] = v] /\ ret' = "et_ok"
    <2>1. curr' = curr + 1 /\ curr + 1 < NodeNr
      BY <1>0, <1>1, NoWrap
    <2> QED BY <1>0, <1>1, <2>1 DEF Added, awoke_queue_enq
  <1>2. CASE /\ curr + 1 = NodeNr /\ "RB" \in flag /\ curr' = (curr - 1 + 1) % NodeNr
             /\ slot' = [WithoutFirst EXCEPT ![curr'] = v] /\ ret' = "et_ok"
    <2>1. curr' = curr /\ curr \in 0 .. NodeNr
      BY <1>0, <1>2, NoWrap
    <2>2. slot' = [i \in 0 .. NodeNr |-> IF i < curr THEN slot[i + 1] ELSE IF i = curr THEN v ELSE slot[i]]
      BY <1>0, <1>2, <2>1 DEF WithoutFirst, ShiftedDown
    <2> QED BY <1>2, <2>1, <2>2 DEF Rolled, awoke_queue_enq
  <1>3. CASE curr + 1 = NodeNr /\ "RB" \notin flag /\ Refuse("et_full")
    BY <1>3 DEF Refuse, Kept, awoke_queue_enq
  <1> QED BY <1>1, <1>2, <1>3 DEF awoke_queue_enq, awoke_queue_full

LEMMA DeqKinds ==
    ASSUME TypeOK, awoke_queue_deq
    PROVE  \/ Kept /\ curr = -1 /\ out' = Zero /\ ret' = "et_empty"
           \/ Taken /\ out' = slot[0] /\ ret' = "et_ok"
  <1>0. curr \in Int /\ -1 <= curr /\ curr < NodeNr /\ slot \in [0 .. NodeNr -> Nodes]
    BY DEF TypeOK
  <1>1. CASE curr + 1 = 0 /\ out' = Zero /\ Refuse("et_empty")
    BY <1>0, <1>1 DEF Refuse, Kept
  <1>2. CASE /\ curr + 1 # 0 /\ out' = slot[0] /\ slot' = WithoutFirst /\ curr' = curr - 1 /\ ret' = "et_ok"
    <2>1. curr \in 0 .. NodeNr
      BY <1>0, <1>2
    <2>2. slot' = FirstGone
      BY <1>2, <2>1, WithoutFirstIs
    <2> QED BY <1>2, <2>1, <2>2 DEF Taken, FirstGone
  <1> QED BY <1>1, <1>2 DEF awoke_queue_deq, awoke_queue_empty

LEMMA GetKinds ==
    ASSUME TypeOK, NEW index \in Indices, awoke_queue_get(index)
    PROVE  \/ Kept /\ curr = -1 /\ out' = Zero /\ ret' = "et_empty"
           \/ Kept /\ curr # -1 /\ out' = slot[index] /\ ret' = "et_ok"
  BY DEF TypeOK, awoke_queue_get, awoke_queue_empty, Refuse, Kept

LEMMA DeleteKinds ==
    ASSUME TypeOK, NEW index \in Indices, awoke_queue_delete(index)
    PROVE  /\ UNCHANGED out
           /\ \/ Kept /\ curr < index /\ ret' = "et_full"
              \/ Deleted(index) /\ ret' = "et_ok"
  BY DEF TypeOK, awoke_queue_delete, Refuse, Kept, Deleted, Without, ShiftedDown

LEMMA InsertKinds ==
    ASSUME TypeOK, NEW index \in Indices, NEW v \in Values, awoke_queue_insert_after(index, v)
    PROVE  /\ UNCHANGED out
           /\ \/ Kept /\ ret' = "et_param"
              \/ Kept /\ curr < index /\ ret' = "et_full"
              \/ Kept /\ index <= curr /\ curr + 1 = NodeNr /\ "RB" \notin flag /\ ret' = "et_full"
              \/ InsertedFull(index, v) /\ "RB" \in flag /\ ret' = "et_ok"
              \/ Inserted(index, v) /\ ret' = "et_ok"
  <1>0. curr \in Int /\ -1 <= curr /\ curr < NodeNr /\ slot \in [0 .. NodeNr -> Nodes] /\ index \in Nat
    BY DEF TypeOK, Indices
  <1>1. CASE /\ index <= curr /\ curr + 1 = NodeNr /\ "RB" \in flag /\ ret' = "et_ok"
             /\ slot' = InsertSlots(WithoutFirst, curr - 1, index, index, v)
             /\ curr' = (curr - 1 + 1) % NodeNr
    <2>1. curr' = curr /\ curr \in 0 .. NodeNr
      BY <1>0, <1>1, NoWrap
    <2> DEFINE w == FirstGone
    <2>2. WithoutFirst = w
      BY <2>1, WithoutFirstIs
    <2>3. ASSUME NEW i \in 0 .. NodeNr, index < i, i <= curr PROVE w[i - 1] = slot[i]
      <3>1. i - 1 \in 0 .. NodeNr /\ i - 1 < curr /\ (i - 1) + 1 = i
        BY <1>0, <2>3
      <3> QED BY <3>1 DEF FirstGone
    <2>4. \A i \in 0 .. NodeNr : w[i] = IF i < curr THEN slot[i + 1] ELSE IF i = curr THEN Zero ELSE slot[i]
      BY DEF FirstGone
    <2> DEFINE u == [i \in 0 .. NodeNr |-> IF index < i /\ i <= curr - 1 + 1 THEN w[i - 1] ELSE w[i]]
    <2> HIDE DEF w
    <2>5. InsertSlots(WithoutFirst, curr - 1, index, index, v)
            = [i \in 0 .. NodeNr |-> IF i = index THEN v ELSE IF index < i /\ i <= curr THEN w[i - 1] ELSE w[i]]
      <3>1. InsertSlots(WithoutFirst, curr - 1, index, index, v) = [u EXCEPT ![index] = v]
        BY <2>2 DEF InsertSlots, ShiftedUp
      <3>2. [u EXCEPT ![index] = v] = [i \in 0 .. NodeNr |-> IF i = index THEN v ELSE u[i]]
        <4>1. index \in 0 .. NodeNr
          BY <1>0, <1>1
        <4> QED BY <4>1, Zenon
      <3>3. ASSUME NEW i \in 0 .. NodeNr
            PROVE  (IF i = index THEN v ELSE u[i])
                     = IF i = index THEN v ELSE IF index < i /\ i <= curr THEN w[i - 1] ELSE w[i]
        BY <1>0
      <3> HIDE DEF u
      <3> QED BY <3>1, <3>2, <3>3
    <2>6. \A i \in 0 .. NodeNr :
             (IF i = index THEN v ELSE IF index < i /\ i <= curr THEN w[i - 1] ELSE w[i])
               = IF i < index THEN slot[i + 1] ELSE IF i = index THEN v ELSE slot[i]
      <3>1. ASSUME NEW i \in 0 .. NodeNr, i < index PROVE w[i] = slot[i + 1]
        <4>1. i < curr
          BY <1>0, <1>1, <3>1
        <4> QED BY <2>4, <4>1
      <3>2. ASSUME NEW i \in 0 .. NodeNr, curr < i PROVE w[i] = slot[i]
        <4>1. ~(i < curr) /\ i # curr
          BY <1>0, <3>2
        <4> QED BY <2>4, <4>1
      <3> QED BY <1>0, <1>1, <2>3, <3>1, <3>2
    <2>7. slot' = [i \in 0 .. NodeNr |-> IF i < index THEN slot[i + 1] ELSE IF i = index THEN v ELSE slot[i]]
      BY <1>1, <2>5, <2>6
    <2> QED BY <1>1, <2>1, <2>7 DEF InsertedFull, awoke_queue_insert_after
  <1>2. CASE /\ index <= curr /\ curr + 1 # NodeNr /\ ret' = "et_ok"
             /\ slot' = InsertSlots(slot, curr, index, index + 1, v) /\ curr' = (curr + 1) % NodeNr
    <2>1. curr' = curr + 1 /\ curr + 1 < NodeNr
      BY <1>0, <1>2, NoWrap
    <2>2. slot' = [i \in 0 .. NodeNr |->
                  IF i = index + 1 THEN v ELSE IF index < i /\ i <= curr + 1 THEN slot[i - 1] ELSE slot[i]]
      BY <1>0, <1>2, <2>1 DEF InsertSlots, ShiftedUp
    <2> QED BY <1>2, <2>1, <2>2 DEF Inserted, awoke_queue_insert_after
  <1>3. CASE Refuse("et_param")
    BY <1>3 DEF Refuse, Kept, awoke_queue_insert_after
  <1>4. CASE curr < index /\ Refuse("et_full")
    BY <1>4 DEF Refuse, Kept, awoke_queue_insert_after
  <1>5. CASE index <= curr /\ curr + 1 = NodeNr /\ "RB" \notin flag /\ Refuse("et_full")
    BY <1>5 DEF Refuse, Kept, awoke_queue_insert_after
  <1> QED BY <1>1, <1>2, <1>3, <1>4, <1>5 DEF awoke_queue_insert_after, awoke_queue_full

-----------------------------------------------------------------------------
(* The invariant *)

Kind ==
    \/ Kept \/ Taken \/ Emptied
    \/ \E v \in Values : Added(v) \/ Rolled(v)
    \/ \E index \in Indices : Deleted(index)
    \/ \E index \in Indices, v \in Values : Inserted(index, v) \/ InsertedFull(index, v)

\* The array and its index after a step of any kind.
LEMMA KindsKeep ==
    ASSUME IInv, Kind
    PROVE  slot' \in [0 .. NodeNr -> Nodes] /\ curr' \in -1 .. (NodeNr - 1) /\ NoOverrun'
  <1>0. curr \in Int /\ -1 <= curr /\ curr < NodeNr /\ slot \in [0 .. NodeNr -> Nodes]
        /\ slot[NodeNr] = Beyond /\ (\A i \in 0 .. curr : slot[i] \in Values)
        /\ Values \subseteq Nodes /\ Zero \in Nodes /\ Indices \subseteq Nat
    BY DEF IInv, TypeOK, NoOverrun, Indices, Nodes
  <1>1. CASE Kept
    BY <1>0, <1>1 DEF Kept, NoOverrun
  <1>2. ASSUME NEW v \in Values, Added(v)
        PROVE  slot' \in [0 .. NodeNr -> Nodes] /\ curr' \in -1 .. (NodeNr - 1) /\ NoOverrun'
    BY <1>0, <1>2 DEF Added, NoOverrun
  <1>3. CASE Taken
    BY <1>0, <1>3 DEF Taken, NoOverrun
  <1>4. ASSUME NEW v \in Values, Rolled(v)
        PROVE  slot' \in [0 .. NodeNr -> Nodes] /\ curr' \in -1 .. (NodeNr - 1) /\ NoOverrun'
    BY <1>0, <1>4 DEF Rolled, NoOverrun
  <1>5. ASSUME NEW index \in Indices, Deleted(index)
        PROVE  slot' \in [0 .. NodeNr -> Nodes] /\ curr' \in -1 .. (NodeNr - 1) /\ NoOverrun'
    BY <1>0, <1>5 DEF Deleted, NoOverrun
  <1>6. ASSUME NEW index \in Indices, NEW v \in Values, Inserted(index, v)
        PROVE  slot' \in [0 .. NodeNr -> Nodes] /\ curr' \in -1 .. (NodeNr - 1) /\ NoOverrun'
    BY <1>0, <1>6 DEF Inserted, NoOverrun
  <1>7. ASSUME NEW index \in Indices, NEW v \in Values, InsertedFull(index, v)
        PROVE  slot' \in [0 .. NodeNr -> Nodes] /\ curr' \in -1 .. (NodeNr - 1) /\ NoOverrun'
    BY <1>0, <1>7 DEF InsertedFull, NoOverrun
  <1>8. CASE Emptied
    BY <1>0, <1>8 DEF Emptied, NoOverrun
  <1> QED BY <1>1, <1>2, <1>3, <1>4, <1>5, <1>6, <1>7, <1>8 DEF Kind

LEMMA Initially == Init => IInv
  BY DEF Init, IInv, TypeOK, NoOverrun, Nodes

LEMMA Inductive == IInv /\ [Next]_vars => IInv'
  <1> SUFFICES ASSUME IInv, [Next]_vars PROVE IInv'
    OBVIOUS
  <1>0. TypeOK /\ 0 \in 0 .. NodeNr /\ Indices \subseteq 0 .. NodeNr
    BY DEF IInv, Indices
  <1>1. Kind /\ out' \in Nodes /\ UNCHANGED flag /\ ret' \in {"et_ok", "et_full", "et_empty", "et_param"}
    <2>1. CASE UNCHANGED vars
      BY <1>0, <2>1 DEF vars, Kind, Kept, TypeOK
    <2>2. ASSUME NEW v \in Values, awoke_queue_enq(v), UNCHANGED flag
          PROVE  Kind /\ out' \in Nodes /\ ret' \in {"et_ok", "et_full"}
      <3>1. out' \in Nodes
        BY <1>0, <2>2, EnqKinds DEF TypeOK
      <3> QED BY <1>0, <2>2, <3>1, EnqKinds DEF Kind
    <2>3. CASE awoke_queue_deq /\ UNCHANGED flag
      <3>1. slot[0] \in Nodes /\ Zero \in Nodes
        BY <1>0 DEF TypeOK, Nodes
      <3> QED BY <1>0, <2>3, <3>1, DeqKinds DEF Kind
    <2>4. ASSUME NEW index \in Indices, awoke_queue_get(index), UNCHANGED flag
          PROVE  Kind /\ out' \in Nodes /\ ret' \in {"et_ok", "et_empty"}
      <3>1. slot[index] \in Nodes /\ Zero \in Nodes
        BY <1>0 DEF TypeOK, Nodes
      <3> QED BY <1>0, <2>4, <3>1, GetKinds DEF Kind
    <2>5. ASSUME NEW index \in Indices, awoke_queue_delete(index), UNCHANGED flag
          PROVE  Kind /\ out' \in Nodes /\ ret' \in {"et_ok", "et_full"}
      <3>1. out' \in Nodes
        BY <1>0, <2>5, DeleteKinds DEF TypeOK
      <3> QED BY <1>0, <2>5, <3>1, DeleteKinds DEF Kind
    <2>6. ASSUME NEW index \in Indices, NEW v \in Values, awoke_queue_insert_after(index, v), UNCHANGED flag
          PROVE  Kind /\ out' \in Nodes /\ ret' \in {"et_ok", "et_full", "et_param"}
      <3>1. out' \in Nodes
        BY <1>0, <2>6, InsertKinds DEF TypeOK
      <3> QED BY <1>0, <2>6, <3>1, InsertKinds DEF Kind
    <2>7. CASE awoke_queue_clean /\ UNCHANGED flag
      BY <1>0, <2>7 DEF awoke_queue_clean, Kind, Emptied, TypeOK
    <2> QED BY <2>1, <2>2, <2>3, <2>4, <2>5, <2>6, <2>7 DEF Next
  <1>2. slot' \in [0 .. NodeNr -> Nodes] /\ curr' \in -1 .. (NodeNr - 1) /\ NoOverrun'
    BY <1>1, KindsKeep
  <1> QED BY <1>0, <1>1, <1>2 DEF IInv, TypeOK

\* The invariant holds of every reachable array.
THEOREM Invariance == Spec => []IInv
  BY Initially, Inductive, PTL DEF Spec

\* For every number of nodes: the index of the newest stays in the array.
THEOREM TypeCorrect == Spec => []TypeOK
  <1>1. IInv => TypeOK
    BY DEF IInv
  <1> QED BY <1>1, Invariance, PTL

\* For every number of nodes: no copy loop of awoke_queue.c writes behind the array,
\* and no slot but those in use becomes an element.
THEOREM NeverOverruns == Spec => []NoOverrun
  <1>1. IInv => NoOverrun
    BY DEF IInv
  <1> QED BY <1>1, Invariance, PTL

-----------------------------------------------------------------------------
(* Refinement *)

\* A sequence is what its elements say.
LEMMA Listed ==
    ASSUME NEW S, NEW s \in Seq(S), NEW n, Len(s) = n PROVE s = [i \in 1 .. n |-> s[i]]
  <1>1. s \in [1 .. n -> S]
    BY LenProperties
  <1> QED BY <1>1

LEMMA AppendIs ==
    ASSUME NEW S, NEW s \in Seq(S), NEW e \in S, NEW n \in Nat, Len(s) = n
    PROVE  Append(s, e) = [i \in 1 .. n + 1 |-> IF i <= n THEN s[i] ELSE e]
  <1>1. Append(s, e) \in Seq(S) /\ Len(Append(s, e)) = n + 1
    OBVIOUS
  <1>2. Append(s, e) = [i \in 1 .. n + 1 |-> Append(s, e)[i]]
    BY <1>1, Listed
  <1>3. ASSUME NEW i \in 1 .. n + 1 PROVE Append(s, e)[i] = IF i <= n THEN s[i] ELSE e
    OBVIOUS
  <1> QED BY <1>2, <1>3

LEMMA TailIs ==
    ASSUME NEW S, NEW s \in Seq(S), NEW n \in Nat, Len(s) = n, n > 0
    PROVE  /\ Tail(s) = [i \in 1 .. n - 1 |-> s[i + 1]] /\ Head(s) = s[1] /\ s # <<>>
           /\ Tail(s) \in Seq(S) /\ Len(Tail(s)) = n - 1
  <1>1. s # <<>> /\ Head(s) = s[1]
    OBVIOUS
  <1>2. Tail(s) \in Seq(S) /\ Len(Tail(s)) = n - 1
    BY <1>1
  <1>3. Tail(s) = [i \in 1 .. n - 1 |-> Tail(s)[i]]
    BY <1>2, Listed
  <1>4. ASSUME NEW i \in 1 .. n - 1 PROVE Tail(s)[i] = s[i + 1]
    BY <1>1
  <1> QED BY <1>1, <1>2, <1>3, <1>4

LEMMA ContentsIs ==
    ASSUME IInv
    PROVE  /\ Contents = [i \in 1 .. curr + 1 |-> slot[i - 1]]
           /\ Contents \in Seq(Values) /\ Len(Contents) = curr + 1 /\ curr + 1 \in 0 .. NodeNr
           /\ \A i \in 1 .. curr + 1 : Contents[i] = slot[i - 1]
  <1>1. curr + 1 \in Nat /\ curr + 1 \in 0 .. NodeNr /\ curr \in Int
    BY DEF IInv, TypeOK
  <1>2. ASSUME NEW i \in 1 .. curr + 1 PROVE slot[i - 1] \in Values
    <2>1. i - 1 \in 0 .. curr
      BY <1>1
    <2> QED BY <2>1 DEF IInv, NoOverrun
  <1> QED BY <1>1, <1>2 DEF Contents


LEMMA AddedAppends ==
    ASSUME IInv, NEW v \in Values, Added(v) PROVE Contents' = Append(Contents, v)
  <1>0. /\ Contents \in Seq(Values) /\ Len(Contents) = curr + 1 /\ curr + 1 \in 0 .. NodeNr /\ curr \in Int
        /\ \A i \in 1 .. curr + 1 : Contents[i] = slot[i - 1]
    BY ContentsIs DEF IInv, TypeOK
  <1>1. Contents' = [i \in 1 .. (curr + 1) + 1 |-> slot'[i - 1]]
    BY DEF Contents, Added
  <1>2. Append(Contents, v) = [i \in 1 .. (curr + 1) + 1 |-> IF i <= curr + 1 THEN Contents[i] ELSE v]
    <2>1. curr + 1 \in Nat
      BY <1>0
    <2> HIDE DEF Contents
    <2> QED BY <1>0, <2>1, AppendIs
  <1>3. ASSUME NEW i \in 1 .. (curr + 1) + 1 PROVE slot'[i - 1] = IF i <= curr + 1 THEN Contents[i] ELSE v
    <2>1. i - 1 \in 0 .. NodeNr
      BY <1>0 DEF Added
    <2>2. slot'[i - 1] = IF i - 1 = curr + 1 THEN v ELSE slot[i - 1]
      BY <2>1 DEF Added
    <2> QED BY <1>0, <2>2
  <1> QED BY <1>1, <1>2, <1>3

LEMMA TakenTails ==
    ASSUME IInv, Taken
    PROVE  Contents # <<>> /\ Contents' = Tail(Contents) /\ slot[0] = Head(Contents)
  <1>0. /\ Contents \in Seq(Values) /\ Len(Contents) = curr + 1 /\ curr + 1 \in 0 .. NodeNr /\ curr \in Nat
        /\ \A i \in 1 .. curr + 1 : Contents[i] = slot[i - 1]
    BY ContentsIs DEF IInv, TypeOK, Taken
  <1>1. Contents' = [i \in 1 .. (curr + 1) - 1 |-> slot'[i - 1]]
    <2>1. curr' + 1 = (curr + 1) - 1
      BY <1>0 DEF Taken
    <2> QED BY <2>1 DEF Contents
  <1>2. /\ Tail(Contents) = [i \in 1 .. (curr + 1) - 1 |-> Contents[i + 1]]
        /\ Head(Contents) = Contents[1] /\ Contents # <<>>
    <2>1. curr + 1 \in Nat /\ curr + 1 > 0
      BY <1>0
    <2> HIDE DEF Contents
    <2> QED BY <1>0, <2>1, TailIs
  <1>3. ASSUME NEW i \in 1 .. (curr + 1) - 1 PROVE slot'[i - 1] = Contents[i + 1]
    <2>1. i - 1 \in 0 .. NodeNr /\ i - 1 < curr /\ i + 1 \in 1 .. curr + 1 /\ (i - 1) + 1 = (i + 1) - 1
      BY <1>0
    <2>2. slot'[i - 1] = slot[(i - 1) + 1]
      BY <2>1 DEF Taken
    <2> QED BY <1>0, <2>1, <2>2
  <1>4. Contents[1] = slot[0]
    <2>1. 1 \in 1 .. curr + 1 /\ 1 - 1 = 0
      BY <1>0
    <2> QED BY <1>0, <2>1
  <1> QED BY <1>1, <1>2, <1>3, <1>4

LEMMA RolledAppends ==
    ASSUME IInv, NEW v \in Values, Rolled(v) PROVE Contents' = Append(Tail(Contents), v)
  <1>0. /\ Contents \in Seq(Values) /\ Len(Contents) = curr + 1 /\ curr + 1 \in 0 .. NodeNr /\ curr \in Nat
        /\ \A i \in 1 .. curr + 1 : Contents[i] = slot[i - 1]
    BY ContentsIs DEF IInv, TypeOK, Rolled
  <1>1. Contents' = [i \in 1 .. curr + 1 |-> slot'[i - 1]]
    BY DEF Contents, Rolled
  <1> DEFINE r == Tail(Contents)
  <1>2. /\ r = [i \in 1 .. (curr + 1) - 1 |-> Contents[i + 1]] /\ r \in Seq(Values)
        /\ Len(r) = (curr + 1) - 1 /\ (curr + 1) - 1 = curr
    <2>1. curr + 1 \in Nat /\ curr + 1 > 0 /\ (curr + 1) - 1 = curr
      BY <1>0
    <2> HIDE DEF Contents
    <2> QED BY <1>0, <2>1, TailIs
  <1>3. ASSUME NEW i \in 1 .. curr PROVE r[i] = slot[i]
    <2>1. i + 1 \in 1 .. curr + 1 /\ (i + 1) - 1 = i
      BY <1>0
    <2> HIDE DEF r
    <2> QED BY <1>0, <1>2, <2>1
  <1> HIDE DEF r
  <1>4. Append(r, v) = [i \in 1 .. curr + 1 |-> IF i <= curr THEN r[i] ELSE v]
    BY <1>0, <1>2, AppendIs
  <1>5. ASSUME NEW i \in 1 .. curr + 1 PROVE slot'[i - 1] = IF i <= curr THEN r[i] ELSE v
    <2>1. i - 1 \in 0 .. NodeNr /\ (i - 1) + 1 = i
      BY <1>0
    <2>2. slot'[i - 1] = IF i - 1 < curr THEN slot[(i - 1) + 1] ELSE IF i - 1 = curr THEN v ELSE slot[i - 1]
      BY <2>1 DEF Rolled
    <2> QED BY <1>0, <1>3, <2>1, <2>2
  <1> QED BY <1>1, <1>4, <1>5 DEF r

LEMMA DeletedRemoves ==
    ASSUME IInv, NEW index \in Indices, Deleted(index)
    PROVE  Contents' = [i \in 1 .. Len(Contents) - 1 |-> IF i <= index THEN Contents[i] ELSE Contents[i + 1]]
  <1>0. /\ Len(Contents) = curr + 1 /\ curr + 1 \in 0 .. NodeNr /\ curr \in Nat /\ index \in Nat
        /\ \A i \in 1 .. curr + 1 : Contents[i] = slot[i - 1]
    BY ContentsIs DEF IInv, TypeOK, Deleted, Indices
  <1>1. Contents' = [i \in 1 .. Len(Contents) - 1 |-> slot'[i - 1]]
    <2>1. curr' + 1 = Len(Contents) - 1
      BY <1>0 DEF Deleted
    <2> QED BY <2>1 DEF Contents
  <1>2. ASSUME NEW i \in 1 .. Len(Contents) - 1
        PROVE  slot'[i - 1] = IF i <= index THEN Contents[i] ELSE Contents[i + 1]
    <2>1. /\ i - 1 \in 0 .. NodeNr /\ i - 1 <= curr /\ (i - 1) + 1 = (i + 1) - 1
          /\ i \in 1 .. curr + 1 /\ i + 1 \in 1 .. curr + 1
      BY <1>0
    <2>2. slot'[i - 1] = IF index <= i - 1 /\ i - 1 <= curr THEN slot[(i - 1) + 1] ELSE slot[i - 1]
      BY <2>1 DEF Deleted
    <2>3. index <= i - 1 <=> ~(i <= index)
      BY <1>0, <2>1
    <2> QED BY <1>0, <2>1, <2>2, <2>3
  <1> QED BY <1>1, <1>2

\* Abstract!Inserted of the elements, slot by slot.
LEMMA InsertedIs ==
    ASSUME IInv, NEW index \in Indices, NEW v \in Values, index <= curr
    PROVE  /\ Abstract!Inserted(Contents, index, v)
                = [i \in 1 .. (curr + 1) + 1 |->
                     IF i <= index + 1 THEN slot[i - 1] ELSE IF i = index + 2 THEN v ELSE slot[i - 2]]
           /\ Abstract!Inserted(Contents, index, v) \in Seq(Values)
           /\ Len(Abstract!Inserted(Contents, index, v)) = (curr + 1) + 1
  <1>0. /\ Contents \in Seq(Values) /\ Len(Contents) = curr + 1 /\ curr + 1 \in 0 .. NodeNr
        /\ curr \in Nat /\ index \in Nat
        /\ \A i \in 1 .. curr + 1 : Contents[i] = slot[i - 1]
    BY ContentsIs DEF IInv, TypeOK, Indices
  <1> DEFINE f == [i \in 1 .. (curr + 1) + 1 |->
                     IF i <= index + 1 THEN slot[i - 1] ELSE IF i = index + 2 THEN v ELSE slot[i - 2]]
  <1>1. ASSUME NEW i \in 1 .. (curr + 1) + 1
        PROVE  /\ (IF i <= index + 1 THEN Contents[i] ELSE IF i = index + 2 THEN v ELSE Contents[i - 1])
                    = (IF i <= index + 1 THEN slot[i - 1] ELSE IF i = index + 2 THEN v ELSE slot[i - 2])
               /\ (IF i <= index + 1 THEN slot[i - 1] ELSE IF i = index + 2 THEN v ELSE slot[i - 2]) \in Values
    <2>1. CASE i <= index + 1
      <3>1. i \in 1 .. curr + 1 /\ i - 1 \in 0 .. curr
        BY <1>0, <2>1
      <3> QED BY <1>0, <2>1, <3>1 DEF IInv, NoOverrun
    <2>2. CASE i = index + 2
      <3>1. ~(i <= index + 1)
        BY <1>0, <2>2
      <3> QED BY <2>2, <3>1
    <2>3. CASE ~(i <= index + 1) /\ i # index + 2
      <3>1. i - 1 \in 1 .. curr + 1 /\ i - 2 \in 0 .. curr /\ (i - 1) - 1 = i - 2
        BY <1>0, <2>3
      <3>2. Contents[i - 1] = slot[i - 2] /\ slot[i - 2] \in Values
        BY <1>0, <3>1 DEF IInv, NoOverrun
      <3> QED BY <2>3, <3>2
    <2> QED BY <2>1, <2>2, <2>3
  <1>2. Abstract!Inserted(Contents, index, v) = f
    BY <1>0, <1>1 DEF Abstract!Inserted
  <1>3. f \in Seq(Values) /\ Len(f) = (curr + 1) + 1
    <2>1. (curr + 1) + 1 \in Nat
      BY <1>0
    <2> QED BY <1>1, <2>1
  <1> HIDE DEF f
  <1> QED BY <1>2, <1>3 DEF f

LEMMA InsertedInserts ==
    ASSUME IInv, NEW index \in Indices, NEW v \in Values, Inserted(index, v)
    PROVE  Contents' = Abstract!Inserted(Contents, index, v)
  <1>0. curr + 1 \in 0 .. NodeNr /\ curr \in Nat /\ index \in Nat /\ index <= curr /\ curr + 1 < NodeNr
    BY DEF IInv, TypeOK, Inserted, Indices
  <1>1. Contents' = [i \in 1 .. (curr + 1) + 1 |-> slot'[i - 1]]
    BY DEF Contents, Inserted
  <1>2. ASSUME NEW i \in 1 .. (curr + 1) + 1
        PROVE  slot'[i - 1] = IF i <= index + 1 THEN slot[i - 1] ELSE IF i = index + 2 THEN v ELSE slot[i - 2]
    <2>1. i - 1 \in 0 .. NodeNr /\ i - 1 <= curr + 1 /\ (i - 1) - 1 = i - 2
      BY <1>0
    <2>2. slot'[i - 1] = IF i - 1 = index + 1 THEN v
                         ELSE IF index < i - 1 /\ i - 1 <= curr + 1 THEN slot[(i - 1) - 1] ELSE slot[i - 1]
      BY <2>1 DEF Inserted
    <2> QED BY <1>0, <2>1, <2>2
  <1> QED BY <1>0, <1>1, <1>2, InsertedIs

LEMMA InsertedFullInserts ==
    ASSUME IInv, NEW index \in Indices, NEW v \in Values, InsertedFull(index, v)
    PROVE  Contents' = Tail(Abstract!Inserted(Contents, index, v))
  <1>0. /\ curr + 1 \in 0 .. NodeNr /\ curr \in Nat /\ index \in Nat /\ index <= curr /\ curr + 1 = NodeNr
        /\ (curr + 1) + 1 \in Nat /\ (curr + 1) + 1 > 0 /\ ((curr + 1) + 1) - 1 = curr + 1
    BY DEF IInv, TypeOK, InsertedFull, Indices
  <1> DEFINE f == Abstract!Inserted(Contents, index, v)
  <1>1. /\ f = [i \in 1 .. (curr + 1) + 1 |->
                     IF i <= index + 1 THEN slot[i - 1] ELSE IF i = index + 2 THEN v ELSE slot[i - 2]]
        /\ f \in Seq(Values) /\ Len(f) = (curr + 1) + 1
    BY <1>0, InsertedIs
  <1> HIDE DEF f
  <1>2. Tail(f) = [i \in 1 .. ((curr + 1) + 1) - 1 |-> f[i + 1]]
    BY <1>0, <1>1, TailIs
  <1>3. Contents' = [i \in 1 .. curr + 1 |-> slot'[i - 1]]
    BY DEF Contents, InsertedFull
  <1>4. ASSUME NEW i \in 1 .. curr + 1 PROVE slot'[i - 1] = f[i + 1]
    <2>1. i - 1 \in 0 .. NodeNr /\ i + 1 \in 1 .. (curr + 1) + 1 /\ (i - 1) + 1 = (i + 1) - 1 /\ (i + 1) - 2 = i - 1
      BY <1>0
    <2>2. slot'[i - 1] = IF i - 1 < index THEN slot[(i - 1) + 1] ELSE IF i - 1 = index THEN v ELSE slot[i - 1]
      BY <2>1 DEF InsertedFull
    <2>3. f[i + 1] = IF i + 1 <= index + 1 THEN slot[(i + 1) - 1]
                     ELSE IF i + 1 = index + 2 THEN v ELSE slot[(i + 1) - 2]
      BY <1>1, <2>1
    <2>4. (i - 1 < index <=> i + 1 <= index + 1) /\ (i - 1 = index <=> i + 1 = index + 2)
      BY <1>0
    <2> QED BY <2>1, <2>2, <2>3, <2>4
  <1> QED BY <1>0, <1>2, <1>3, <1>4 DEF f

\* Every operation on the array is the operation of the same name on the sequence.
LEMMA StepRefines == IInv /\ [Next]_vars => [Abstract!Next]_(Abstract!vars)
  <1> SUFFICES ASSUME IInv, [Next]_vars PROVE [Abstract!Next]_(Abstract!vars)
    OBVIOUS
  <1>0. /\ TypeOK /\ Contents \in Seq(Values) /\ Len(Contents) = curr + 1 /\ curr + 1 \in 0 .. NodeNr
        /\ curr \in Int /\ \A i \in 1 .. curr + 1 : Contents[i] = slot[i - 1]
    BY ContentsIs DEF IInv, TypeOK
  <1>a. ASSUME Kept PROVE UNCHANGED Contents
    BY <1>a DEF Kept, Contents
  <1>b. (Abstract!Full <=> curr + 1 = NodeNr) /\ (curr = -1 => Contents = <<>>)
    BY <1>0 DEF Abstract!Full
  <1>1. CASE UNCHANGED vars
    BY <1>1 DEF vars, Abstract!vars, Contents
  <1>2. ASSUME NEW v \in Values, awoke_queue_enq(v) PROVE Abstract!Enqueue(v)
    <2>1. CASE Added(v) /\ ret' = "et_ok"
      <3>1. ~Abstract!Full
        BY <1>0, <1>b, <2>1 DEF Added
      <3> QED BY <1>0, <1>2, <2>1, <3>1, AddedAppends, EnqKinds DEF Abstract!Enqueue
    <2>2. CASE Rolled(v) /\ "RB" \in flag /\ ret' = "et_ok"
      <3>1. Abstract!Full
        BY <1>b, <2>2 DEF Rolled
      <3> QED BY <1>0, <1>2, <2>2, <3>1, RolledAppends, EnqKinds DEF Abstract!Enqueue
    <2>3. CASE Kept /\ curr + 1 = NodeNr /\ "RB" \notin flag /\ ret' = "et_full"
      BY <1>0, <1>2, <1>a, <1>b, <2>3, EnqKinds DEF Abstract!Enqueue, Abstract!Refuse
    <2> QED BY <1>0, <1>2, <2>1, <2>2, <2>3, EnqKinds
  <1>3. ASSUME awoke_queue_deq PROVE Abstract!Dequeue
    <2>1. CASE Kept /\ curr = -1 /\ ret' = "et_empty"
      BY <1>a, <1>b, <2>1 DEF Abstract!Dequeue, Abstract!Refuse
    <2>2. CASE Taken /\ out' = slot[0] /\ ret' = "et_ok"
      BY <2>2, TakenTails DEF Abstract!Dequeue
    <2> QED BY <1>0, <1>3, <2>1, <2>2, DeqKinds
  <1>4. ASSUME NEW index \in Indices, awoke_queue_get(index) PROVE Abstract!Peek(index)
    <2>1. CASE Kept /\ curr = -1 /\ ret' = "et_empty"
      BY <1>a, <1>b, <2>1 DEF Abstract!Peek, Abstract!Refuse
    <2>2. CASE Kept /\ curr # -1 /\ out' = slot[index] /\ ret' = "et_ok"
      <3>1. Contents # <<>>
        BY <1>0, <2>2
      <3>2. ASSUME index < Len(Contents) PROVE Contents[index + 1] = slot[index]
        <4>1. index + 1 \in 1 .. curr + 1 /\ (index + 1) - 1 = index
          BY <1>0, <3>2 DEF Indices
        <4> QED BY <1>0, <4>1
      <3> QED BY <1>a, <2>2, <3>1, <3>2 DEF Abstract!Peek
    <2> QED BY <1>0, <1>4, <2>1, <2>2, GetKinds
  <1>5. ASSUME NEW index \in Indices, awoke_queue_delete(index) PROVE Abstract!Remove(index)
    <2>1. CASE Kept /\ curr < index /\ ret' = "et_full"
      <3>1. index >= Len(Contents)
        BY <1>0, <2>1 DEF Indices
      <3> QED BY <1>0, <1>5, <1>a, <2>1, <3>1, DeleteKinds DEF Abstract!Remove, Abstract!Refuse
    <2>2. CASE Deleted(index) /\ ret' = "et_ok"
      <3>1. index < Len(Contents)
        BY <1>0, <2>2 DEF Indices, Deleted
      <3> QED BY <1>0, <1>5, <2>2, <3>1, DeletedRemoves, DeleteKinds DEF Abstract!Remove
    <2> QED BY <1>0, <1>5, <2>1, <2>2, DeleteKinds
  <1>6. ASSUME NEW index \in Indices, NEW v \in Values, awoke_queue_insert_after(index, v)
        PROVE  Abstract!InsertAfter(index, v)
    <2>0. UNCHANGED out /\ (index <= curr <=> index < Len(Contents)) /\ (curr < index <=> index >= Len(Contents))
      BY <1>0, <1>6, InsertKinds DEF Indices
    <2>1. CASE Kept /\ ret' = "et_param"
      BY <1>a, <2>0, <2>1 DEF Abstract!InsertAfter, Abstract!Refuse
    <2>2. CASE Kept /\ curr < index /\ ret' = "et_full"
      BY <1>a, <2>0, <2>2 DEF Abstract!InsertAfter, Abstract!Refuse
    <2>3. CASE Kept /\ index <= curr /\ curr + 1 = NodeNr /\ "RB" \notin flag /\ ret' = "et_full"
      BY <1>a, <1>b, <2>0, <2>3 DEF Abstract!InsertAfter, Abstract!Refuse
    <2>4. CASE InsertedFull(index, v) /\ "RB" \in flag /\ ret' = "et_ok"
      <3>1. Abstract!Full /\ index < Len(Contents)
        BY <1>b, <2>0, <2>4 DEF InsertedFull
      <3> QED BY <2>0, <2>4, <3>1, InsertedFullInserts DEF Abstract!InsertAfter
    <2>5. CASE Inserted(index, v) /\ ret' = "et_ok"
      <3>1. ~Abstract!Full /\ index < Len(Contents)
        BY <1>0, <1>b, <2>0, <2>5 DEF Inserted
      <3> QED BY <2>0, <2>5, <3>1, InsertedInserts DEF Abstract!InsertAfter
    <2> QED BY <1>0, <1>6, <2>1, <2>2, <2>3, <2>4, <2>5, InsertKinds
  <1>7. CASE awoke_queue_clean
    <2>1. Contents' = <<>>
      <3>1. curr' + 1 = 0
        BY <1>7 DEF awoke_queue_clean
      <3>2. Contents' = [i \in 1 .. 0 |-> slot'[i - 1]]
        BY <3>1 DEF Contents
      <3> QED BY <3>2
    <2>2. UNCHANGED flag
      BY <1>7 DEF Next, vars
    <2> QED BY <1>7, <2>1, <2>2 DEF Abstract!Next, Abstract!Clear, awoke_queue_clean
  <1>8. CASE UNCHANGED flag /\ \E v \in Values : awoke_queue_enq(v)
    BY <1>2, <1>8 DEF Abstract!Next
  <1>9. CASE UNCHANGED flag /\ awoke_queue_deq
    BY <1>3, <1>9 DEF Abstract!Next
  <1>10. CASE UNCHANGED flag /\ \E index \in Indices : awoke_queue_get(index) \/ awoke_queue_delete(index)
    BY <1>4, <1>5, <1>10 DEF Abstract!Next, Indices
  <1>11. CASE UNCHANGED flag /\ \E index \in Indices, v \in Values : awoke_queue_insert_after(index, v)
    BY <1>6, <1>11 DEF Abstract!Next, Indices
  <1> QED BY <1>1, <1>7, <1>8, <1>9, <1>10, <1>11 DEF Next

\* For every number of nodes and set of values the array implements the bounded
\* queue: no operation of awoke_queue.c loses, doubles or reorders a node.
THEOREM QueueImplementsBoundedQueue == Spec => RefinesBoundedQueue
  <1>1. Init => Abstract!Init
    <2>1. ASSUME Init PROVE Contents = <<>>
      <3>1. curr + 1 = 0
        BY <2>1 DEF Init
      <3>2. Contents = [i \in 1 .. 0 |-> slot[i - 1]]
        BY <3>1 DEF Contents
      <3> QED BY <3>2
    <2> QED BY <2>1 DEF Init, Abstract!Init
  <1> QED BY <1>1, Invariance, StepRefines, PTL DEF Spec, RefinesBoundedQueue, Abstract!Spec

=============================================================================
