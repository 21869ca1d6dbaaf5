-------------------------- MODULE FIFOQueueProofs --------------------------
(***************************************************************************)
(* FIFOQueue, for every capacity: its indices are consistent, and it is a  *)
(* bounded FIFO queue.                                                     *)
(***************************************************************************)
EXTENDS FIFOQueue, SequenceTheorems, TLAPS

(* An index less than two turns after slot 0 is brought back by one turn.  *)
LEMMA Wrap ==
    \A n \in 0 .. 2 * Capacity - 1 :
       n % Capacity = IF n < Capacity THEN n ELSE n - Capacity
  <1> TAKE n \in 0 .. 2 * Capacity - 1
  <1>1. n \in Nat /\ Capacity \in Nat \ {0}
    BY QueueAssumption
  <1>2. CASE n < Capacity
    BY <1>1, <1>2
  <1>3. CASE n >= Capacity
    BY <1>1, <1>3
  <1> QED
    BY <1>1, <1>2, <1>3

(* The slot at distance k from slot h.                                     *)
LEMMA At ==
    ASSUME NEW h \in Slots, NEW k \in 0 .. Capacity
    PROVE  /\ (h + k) % Capacity \in Slots
           /\ (h + k) % Capacity = IF h + k < Capacity THEN h + k
                                                       ELSE h + k - Capacity
  <1>1. Capacity \in Nat \ {0} /\ h \in 0 .. Capacity - 1
    BY QueueAssumption DEF Slots
  <1>2. h + k \in 0 .. 2 * Capacity - 1
    BY <1>1
  <1>3. (h + k) % Capacity = IF h + k < Capacity THEN h + k
                                                 ELSE h + k - Capacity
    BY <1>1, <1>2, Wrap
  <1> QED
    BY <1>1, <1>2, <1>3 DEF Slots

(* The next slot, as Enqueue and Dequeue compute it.                       *)
LEMMA NextSlot ==
    ASSUME NEW h \in Slots
    PROVE  /\ (h + 1) % Capacity \in Slots
           /\ (h + 1) % Capacity = IF h + 1 < Capacity THEN h + 1 ELSE 0
  <1>1. Capacity \in Nat \ {0} /\ h \in 0 .. Capacity - 1 /\ 1 \in 0 .. Capacity
    BY QueueAssumption DEF Slots
  <1>2. /\ (h + 1) % Capacity \in Slots
        /\ (h + 1) % Capacity = IF h + 1 < Capacity THEN h + 1
                                                    ELSE h + 1 - Capacity
    BY <1>1, At
  <1> QED
    BY <1>1, <1>2

(* One step keeps the positions.                                           *)
LEMMA PositionsStep == Positions /\ [Next]_vars => Positions'
  <1> SUFFICES ASSUME Positions, [Next]_vars PROVE Positions'
    OBVIOUS
  <1>0. Capacity \in Nat \ {0} /\ Slots = 0 .. Capacity - 1
    BY QueueAssumption DEF Slots
  <1>1. ASSUME NEW v \in Requests, Enqueue(v), ~IsFull PROVE Positions'
    <2>1. size + 1 \in 0 .. Capacity /\ size \in 0 .. Capacity - 1
      BY <1>0, <1>1 DEF Positions, IsFull
    <2>2. /\ data' = [data EXCEPT ![tail] = v]
          /\ tail' = (tail + 1) % Capacity
          /\ size' = size + 1
          /\ head' = head
      BY <1>1 DEF Enqueue
    <2>3. /\ head \in Slots /\ tail \in Slots
          /\ data \in [Slots -> Requests \cup {Nil}]
          /\ tail = (head + size) % Capacity
          /\ \A i \in 0 .. size - 1 : data[(head + i) % Capacity] \in Requests
      BY DEF Positions
    <2>4. data' \in [Slots -> Requests \cup {Nil}]
      BY <2>2, <2>3
    <2>5. tail' \in Slots
      BY <2>2, <2>3, NextSlot
    <2>6. tail' = (head' + size') % Capacity
      <3>1. (tail + 1) % Capacity = IF tail + 1 < Capacity THEN tail + 1 ELSE 0
        BY <2>3, NextSlot
      <3>2. size \in 0 .. Capacity
        BY <2>1, <1>0
      <3>3. tail = IF head + size < Capacity THEN head + size
                                             ELSE head + size - Capacity
        BY <2>3, <3>2, At, Zenon
      <3>4. (head + (size + 1)) % Capacity
               = IF head + (size + 1) < Capacity THEN head + (size + 1)
                                                 ELSE head + (size + 1) - Capacity
        BY <2>1, <2>3, At, Zenon
      <3> QED
        BY <1>0, <2>1, <2>2, <2>3, <3>1, <3>3, <3>4
    <2>7. ASSUME NEW i \in 0 .. size' - 1
          PROVE  data'[(head' + i) % Capacity] \in Requests
      <3>1. i \in 0 .. size /\ i \in 0 .. Capacity
        BY <1>0, <2>1, <2>2, <2>7
      <3>2. (head + i) % Capacity \in Slots
        BY <2>3, <3>1, At
      <3>3. CASE i = size
        BY <2>2, <2>3, <3>2, <3>3
      <3>4. CASE i # size
        <4>1. i \in 0 .. size - 1
          BY <2>1, <3>1, <3>4
        <4>2. (head + i) % Capacity # tail
          <5>1. i \in 0 .. Capacity /\ size \in 0 .. Capacity
            BY <1>0, <2>1, <4>1
          <5>2. (head + i) % Capacity = IF head + i < Capacity
                                        THEN head + i ELSE head + i - Capacity
            BY <2>3, <5>1, At, Zenon
          <5>3. tail = IF head + size < Capacity THEN head + size
                                                 ELSE head + size - Capacity
            BY <2>3, <5>1, At, Zenon
          <5> QED
            BY <1>0, <2>1, <2>3, <4>1, <5>2, <5>3
        <4> QED
          BY <2>2, <2>3, <3>2, <4>1, <4>2
      <3> QED
        BY <3>3, <3>4
    <2> QED
      BY <2>1, <2>2, <2>3, <2>4, <2>5, <2>6, <2>7 DEF Positions
  <1>2. ASSUME Dequeue, ~IsEmpty PROVE Positions'
    <2>1. size \in 1 .. Capacity /\ size - 1 \in 0 .. Capacity
      BY <1>0, <1>2 DEF Positions, IsEmpty
    <2>2. /\ data' = data /\ tail' = tail
          /\ head' = (head + 1) % Capacity
          /\ size' = size - 1
      BY <1>2 DEF Dequeue
    <2>3. head \in Slots /\ head' \in Slots
      BY <2>2, NextSlot DEF Positions
    <2>4. ASSUME NEW i \in 0 .. size - 1
          PROVE  (head' + i) % Capacity = (head + (i + 1)) % Capacity
      <3>1. i \in 0 .. Capacity /\ i + 1 \in 0 .. Capacity
        BY <1>0, <2>1
      <3> QED
        <4>1. (head' + i) % Capacity = IF head' + i < Capacity
                                       THEN head' + i ELSE head' + i - Capacity
          BY <2>3, <3>1, At, Zenon
        <4>2. (head + (i + 1)) % Capacity
                 = IF head + (i + 1) < Capacity THEN head + (i + 1)
                                                ELSE head + (i + 1) - Capacity
          BY <2>3, <3>1, At, Zenon
        <4>3. head' = IF head + 1 < Capacity THEN head + 1 ELSE 0
          BY <2>2, <2>3, NextSlot
        <4> QED
          BY <1>0, <2>3, <3>1, <4>1, <4>2, <4>3
    <2>5. tail' = (head' + size') % Capacity
      <3>1. size - 1 \in 0 .. size - 1 /\ (size - 1) + 1 = size
        BY <2>1
      <3> QED
        BY <2>2, <2>4, <3>1 DEF Positions
    <2>6. ASSUME NEW i \in 0 .. size' - 1
          PROVE  data'[(head' + i) % Capacity] \in Requests
      <3>1. i \in 0 .. size - 1 /\ i + 1 \in 0 .. size - 1
        BY <2>1, <2>2
      <3> QED
        BY <2>2, <2>4, <3>1 DEF Positions
    <2> QED
      BY <1>0, <2>1, <2>2, <2>3, <2>5, <2>6 DEF Positions
  <1>3. CASE UNCHANGED <<data, head, tail, size>>
    BY <1>3 DEF Positions
  <1> QED
    BY <1>1, <1>2, <1>3 DEF Next, Enqueue, Dequeue, Front, vars

(* The indices are consistent in every reachable state: tail is size slots *)
(* after head, and the slots between them hold requests.                   *)
THEOREM PositionsHold == Spec => []Positions
  <1>1. NewFIFOQueue => Positions
    <2>1. Capacity \in Nat \ {0} /\ 0 \in Slots /\ 0 \in 0 .. Capacity
      BY QueueAssumption DEF Slots
    <2>2. (0 + 0) % Capacity = 0
      BY <2>1, At
    <2> QED
      BY <2>1, <2>2 DEF NewFIFOQueue, Positions
  <1> QED
    BY <1>1, PositionsStep, PTL DEF Spec

-----------------------------------------------------------------------------
(* Refinement.                                                             *)

(* contents is a sequence of requests, as long as size says.               *)
LEMMA ContentsIsSeq ==
    ASSUME Positions
    PROVE  /\ contents \in Seq(Requests) /\ Len(contents) = size
           /\ size \in Nat
           /\ \A i \in 1 .. size : contents[i] = data[(head + i - 1) % Capacity]
  <1>1. size \in Nat
    BY QueueAssumption DEF Positions
  <1>2. ASSUME NEW i \in 1 .. size
        PROVE  data[(head + i - 1) % Capacity] \in Requests
    <2>1. i - 1 \in 0 .. size - 1 /\ head \in Int
      BY <1>1, QueueAssumption DEF Positions, Slots
    <2>2. head + i - 1 = head + (i - 1)
      BY <2>1
    <2> QED
      BY <2>1, <2>2 DEF Positions
  <1>3. contents \in [1 .. size -> Requests]
    BY <1>2 DEF contents
  <1>4. contents \in Seq(Requests) /\ Len(contents) = size
    BY <1>1, <1>3
  <1> QED
    BY <1>1, <1>4 DEF contents

(* An accepted request goes to the end.                                    *)
LEMMA EnqueueAppends ==
    ASSUME Positions, Positions', NEW v \in Requests, Enqueue(v), ~IsFull
    PROVE  contents' = Append(contents, v)
  <1>0. /\ Capacity \in Nat \ {0} /\ Slots = 0 .. Capacity - 1
        /\ head \in Slots /\ tail \in Slots /\ size \in 0 .. Capacity - 1
    BY QueueAssumption DEF Slots, Positions, IsFull
  <1>1. /\ data' = [data EXCEPT ![tail] = v] /\ data \in [Slots -> Requests \cup {Nil}]
        /\ head' = head /\ size' = size + 1
        /\ tail = (head + size) % Capacity
    BY DEF Enqueue, Positions
  <1>2. /\ contents \in Seq(Requests) /\ Len(contents) = size
        /\ \A i \in 1 .. size : contents[i] = data[(head + i - 1) % Capacity]
    BY ContentsIsSeq
  <1>3. /\ contents' \in Seq(Requests) /\ Len(contents') = size + 1
        /\ \A i \in 1 .. size + 1 :
              contents'[i] = data'[(head + i - 1) % Capacity]
    <2>1. contents' = [i \in 1 .. size + 1 |-> data'[(head + i - 1) % Capacity]]
      BY <1>1 DEF contents
    <2>2. contents' \in [1 .. size + 1 -> Requests]
      <3>1. ASSUME NEW i \in 1 .. size + 1
            PROVE  data'[(head + i - 1) % Capacity] \in Requests
        <4>1. i - 1 \in 0 .. size' - 1 /\ head + i - 1 = head' + (i - 1)
          BY <1>0, <1>1
        <4> QED
          BY <4>1 DEF Positions
      <3> QED
        BY <2>1, <3>1
    <2>3. size + 1 \in Nat
      BY <1>0
    <2>4. contents' \in Seq(Requests) /\ Len(contents') = size + 1
      BY <2>2, <2>3
    <2> QED
      BY <2>1, <2>4
  <1>4. ASSUME NEW i \in 1 .. size + 1
        PROVE  contents'[i] = Append(contents, v)[i]
    <2>1. (head + i - 1) % Capacity \in Slots
      <3>1. i - 1 \in 0 .. Capacity /\ head + i - 1 = head + (i - 1)
        BY <1>0
      <3> QED
        BY <1>0, <3>1, At
    <2>2. CASE i = size + 1
      <3>1. head + i - 1 = head + size
        BY <1>0, <2>2
      <3> QED
        BY <1>0, <1>1, <1>2, <1>3, <2>1, <2>2, <3>1
    <2>3. CASE i \in 1 .. size
      <3>1. (head + i - 1) % Capacity # tail
        <4>1. /\ i - 1 \in 0 .. Capacity /\ size \in 0 .. Capacity
              /\ head + i - 1 = head + (i - 1) /\ head \in 0 .. Capacity - 1
              /\ i - 1 # size
          BY <1>0, <2>3
        <4>2. (head + (i - 1)) % Capacity
                 = IF head + (i - 1) < Capacity THEN head + (i - 1)
                                                ELSE head + (i - 1) - Capacity
          BY <1>0, <4>1, At
        <4>3. tail = IF head + size < Capacity THEN head + size
                                               ELSE head + size - Capacity
          BY <1>0, <1>1, <4>1, At
        <4> QED
          BY <1>0, <2>3, <4>1, <4>2, <4>3
      <3>2. Append(contents, v)[i] = contents[i]
        BY <1>2, <2>3
      <3> QED
        BY <1>1, <1>2, <1>3, <2>1, <2>3, <3>1, <3>2
    <2>4. i = size + 1 \/ i \in 1 .. size
      BY <1>0
    <2> QED
      BY <2>2, <2>3, <2>4
  <1> QED
    <2>1. Append(contents, v) \in Seq(Requests) /\ Len(Append(contents, v)) = size + 1
      BY <1>2
    <2> QED
      BY <1>0, <1>3, <1>4, <2>1

(* A request that is taken is the first one.                               *)
LEMMA DequeueTakesHead ==
    ASSUME Positions, Positions', Dequeue, ~IsEmpty
    PROVE  /\ contents # <<>> /\ result' = Head(contents)
           /\ contents' = Tail(contents)
  <1>0. /\ Capacity \in Nat \ {0} /\ Slots = 0 .. Capacity - 1
        /\ head \in Slots /\ size \in 1 .. Capacity
    BY QueueAssumption DEF Slots, Positions, IsEmpty
  <1>1. /\ data' = data /\ size' = size - 1 /\ head' = (head + 1) % Capacity
        /\ result' = data[head]
    BY DEF Dequeue
  <1>2. /\ contents \in Seq(Requests) /\ Len(contents) = size
        /\ \A i \in 1 .. size : contents[i] = data[(head + i - 1) % Capacity]
    BY ContentsIsSeq
  <1>3. contents # <<>> /\ Head(contents) = data[(head + 1 - 1) % Capacity]
    BY <1>0, <1>2
  <1>4. (head + 1 - 1) % Capacity = head
    <2>1. 0 \in 0 .. Capacity /\ head + 1 - 1 = head + 0 /\ head + 0 = head
      BY <1>0
    <2>2. (head + 0) % Capacity = IF head + 0 < Capacity THEN head + 0
                                                         ELSE head + 0 - Capacity
      BY <1>0, <2>1, At
    <2> QED
      BY <1>0, <2>1, <2>2
  <1>5. contents' = [i \in 1 .. size - 1 |-> contents[i + 1]]
    <2>1. contents' = [i \in 1 .. size - 1 |-> data[(head' + i - 1) % Capacity]]
      BY <1>1 DEF contents
    <2>2. ASSUME NEW i \in 1 .. size - 1
          PROVE  data[(head' + i - 1) % Capacity] = contents[i + 1]
      <3>1. /\ i - 1 \in 0 .. Capacity /\ i \in 0 .. Capacity
            /\ i + 1 \in 1 .. size /\ head + (i + 1) - 1 = head + i
            /\ head \in 0 .. Capacity - 1
        BY <1>0
      <3>2. head' \in Slots /\ head' = IF head + 1 < Capacity THEN head + 1 ELSE 0
        BY <1>0, <1>1, NextSlot
      <3>3. head' + i - 1 = head' + (i - 1)
        BY <1>0, <3>2
      <3>4. (head' + (i - 1)) % Capacity
               = IF head' + (i - 1) < Capacity THEN head' + (i - 1)
                                               ELSE head' + (i - 1) - Capacity
        BY <1>0, <3>1, <3>2, At
      <3>5. (head + i) % Capacity = IF head + i < Capacity
                                    THEN head + i ELSE head + i - Capacity
        BY <1>0, <3>1, At
      <3>6. (head' + (i - 1)) % Capacity = (head + i) % Capacity
        BY <1>0, <3>1, <3>2, <3>4, <3>5
      <3> QED
        BY <1>2, <3>1, <3>3, <3>6
    <2> QED
      BY <2>1, <2>2
  <1>6. Tail(contents) = [i \in 1 .. size - 1 |-> contents[i + 1]]
    <2>1. /\ Tail(contents) \in Seq(Requests)
          /\ Len(Tail(contents)) = size - 1
          /\ \A i \in 1 .. size - 1 : Tail(contents)[i] = contents[i + 1]
      BY <1>2, <1>3, HeadTailProperties
    <2> DEFINE t == [i \in 1 .. size - 1 |-> contents[i + 1]]
    <2>2. size - 1 \in Nat /\ t \in [1 .. size - 1 -> Requests]
      BY <1>0, <1>2
    <2>3. t \in Seq(Requests) /\ Len(t) = size - 1
      BY <2>2
    <2>4. \A i \in 1 .. Len(Tail(contents)) : Tail(contents)[i] = t[i]
      BY <2>1
    <2> HIDE DEF t
    <2>5. Tail(contents) = t
      BY <2>1, <2>3, <2>4, SeqEqual
    <2> QED
      BY <2>5 DEF t
  <1> QED
    BY <1>1, <1>3, <1>4, <1>5, <1>6

(* Every step of the circular buffer is one of the bounded queue.          *)
LEMMA FIFOStep == Positions /\ Positions' /\ [Next]_vars => [FIFO!Next]_FIFO!vars
  <1> SUFFICES ASSUME Positions, Positions', [Next]_vars
               PROVE  [FIFO!Next]_FIFO!vars
    OBVIOUS
  <1>0. Len(contents) = size /\ size \in 0 .. Capacity /\ Capacity \in Nat \ {0}
    BY ContentsIsSeq, QueueAssumption DEF Positions
  <1>1. ASSUME NEW v \in Requests, Enqueue(v) PROVE FIFO!Enqueue(v)
    <2>1. CASE IsFull
      <3>1. UNCHANGED contents
        BY <1>1, <2>1 DEF Enqueue, contents
      <3>2. ~(Len(contents) < Capacity)
        BY <1>0, <2>1 DEF IsFull
      <3> QED
        BY <1>1, <2>1, <3>1, <3>2 DEF Enqueue, FIFO!Enqueue
    <2>2. CASE ~IsFull
      <3>1. Len(contents) < Capacity
        BY <1>0, <2>2 DEF IsFull
      <3>2. contents' = Append(contents, v)
        BY <1>1, <2>2, EnqueueAppends
      <3> QED
        BY <1>1, <2>2, <3>1, <3>2 DEF Enqueue, FIFO!Enqueue
    <2> QED
      BY <2>1, <2>2
  <1>2. ASSUME Front PROVE FIFO!Front
    <2>1. UNCHANGED contents
      BY <1>2 DEF Front, contents
    <2>2. result' = IF contents = <<>> THEN Nil ELSE Head(contents)
      <3>1. CASE IsEmpty
        <4>1. contents = <<>>
          BY <3>1, ContentsIsSeq DEF IsEmpty
        <4> QED
          BY <1>2, <3>1, <4>1 DEF Front
      <3>2. CASE ~IsEmpty
        <4>1. /\ head \in 0 .. Capacity - 1 /\ size \in 1 .. Capacity
              /\ Capacity \in Nat \ {0} /\ 0 \in 0 .. Capacity
          BY <1>0, <3>2 DEF Positions, Slots, IsEmpty
        <4>2. /\ contents \in Seq(Requests) /\ Len(contents) = size
              /\ contents[1] = data[(head + 1 - 1) % Capacity]
          BY <4>1, ContentsIsSeq
        <4>3. (head + 0) % Capacity = IF head + 0 < Capacity
                                      THEN head + 0 ELSE head + 0 - Capacity
          BY <4>1, At DEF Slots
        <4>4. (head + 1 - 1) % Capacity = head
          <5>1. head + 1 - 1 = head + 0 /\ head + 0 = head
            BY <4>1
          <5> QED
            BY <4>1, <4>3, <5>1
        <4>5. contents # <<>> /\ Head(contents) = contents[1]
          BY <4>1, <4>2
        <4> QED
          BY <1>2, <3>2, <4>2, <4>4, <4>5 DEF Front
      <3> QED
        BY <3>1, <3>2
    <2> QED
      BY <2>1, <2>2 DEF FIFO!Front
  <1>3. ASSUME Dequeue PROVE FIFO!Dequeue
    <2>1. CASE IsEmpty
      <3>1. contents = <<>>
        BY <2>1, ContentsIsSeq DEF IsEmpty
      <3>2. UNCHANGED contents
        BY <1>3, <2>1 DEF Dequeue, contents
      <3> QED
        BY <1>3, <2>1, <3>1, <3>2 DEF Dequeue, FIFO!Dequeue
    <2>2. CASE ~IsEmpty
      <3>1. /\ contents # <<>> /\ result' = Head(contents)
            /\ contents' = Tail(contents)
        BY <1>3, <2>2, DequeueTakesHead
      <3> QED
        BY <3>1 DEF FIFO!Dequeue
    <2> QED
      BY <2>1, <2>2
  <1>4. CASE UNCHANGED vars
    BY <1>4 DEF vars, contents, FIFO!vars
  <1> QED
    BY <1>1, <1>2, <1>3, <1>4 DEF Next, FIFO!Next

(* The circular buffer implements the bounded FIFO queue, whatever its     *)
(* capacity: no request is lost, duplicated or overtaken in it.            *)
THEOREM BufferImplementsFIFO == Spec => QueueIsFIFO
  <1>1. NewFIFOQueue => FIFO!Init
    <2> SUFFICES ASSUME NewFIFOQueue PROVE FIFO!Init
      OBVIOUS
    <2>1. contents = [i \in 1 .. 0 |-> data[(head + i - 1) % Capacity]]
      BY DEF NewFIFOQueue, contents
    <2>2. contents = <<>>
      BY <2>1
    <2> QED
      BY <2>2 DEF NewFIFOQueue, FIFO!Init
  <1> QED
    BY <1>1, PositionsHold, FIFOStep, PTL DEF Spec, FIFO!Spec, QueueIsFIFO
=============================================================================
