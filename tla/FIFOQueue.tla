----------------------------- MODULE FIFOQueue -----------------------------
(***************************************************************************)
(* FIFOQueue (scheduling/queue.go): a circular buffer.  Its callers hold   *)
(* the queue's lock, so each method is one action.  A slot keeps its       *)
(* request after it was taken from the queue.                              *)
(***************************************************************************)
EXTENDS Integers, Sequences

CONSTANTS
    Requests,
    Capacity,     \* scheduler.queue.capacity, which is positive here
    Nil

ASSUME QueueAssumption ==
    /\ Capacity \in Nat \ {0}
    /\ Nil \notin Requests

VARIABLES
    data,         \* the slots, numbered from 0
    head, tail, size,
    result        \* what the last call returned

vars == <<data, head, tail, size, result>>

Slots == 0 .. Capacity - 1

NewFIFOQueue ==
    /\ data = [i \in Slots |-> Nil]
    /\ head = 0 /\ tail = 0 /\ size = 0
    /\ result = Nil

IsEmpty == size = 0

IsFull == size = Capacity

\* Fault for QueueIsFIFO: a full queue overwrites its oldest request.
EnqueueOverwrites(v) ==
    /\ data' = [data EXCEPT ![tail] = v]
    /\ tail' = (tail + 1) % Capacity
    /\ size' = IF IsFull THEN size ELSE size + 1
    /\ result' = TRUE
    /\ UNCHANGED head

Enqueue(v) ==
    \/ /\ IsFull
       /\ result' = FALSE
       /\ UNCHANGED <<data, head, tail, size>>
    \/ /\ ~IsFull
       /\ data' = [data EXCEPT ![tail] = v]
       /\ tail' = (tail + 1) % Capacity
       /\ size' = size + 1
       /\ result' = TRUE
       /\ UNCHANGED head

Front ==
    /\ result' = IF IsEmpty THEN Nil ELSE data[head]
    /\ UNCHANGED <<data, head, tail, size>>

\* Fault for Positions: an empty queue moves its head all the same.
DequeueUnchecked ==
    /\ head' = (head + 1) % Capacity
    /\ size' = IF IsEmpty THEN 0 ELSE size - 1
    /\ result' = IF IsEmpty THEN Nil ELSE data[head]
    /\ UNCHANGED <<data, tail>>

Dequeue ==
    \/ /\ IsEmpty
       /\ result' = Nil
       /\ UNCHANGED <<data, head, tail, size>>
    \/ /\ ~IsEmpty
       /\ head' = (head + 1) % Capacity
       /\ size' = size - 1
       /\ result' = data[head]
       /\ UNCHANGED <<data, tail>>

Next == (\E v \in Requests : Enqueue(v)) \/ Front \/ Dequeue

Spec == NewFIFOQueue /\ [][Next]_vars

-----------------------------------------------------------------------------
(* The indices stay in range, tail is size slots after head whatever the   *)
(* number of times both have wrapped around, and every slot between them   *)
(* holds a request.                                                        *)
Positions ==
    /\ data \in [Slots -> Requests \cup {Nil}]
    /\ head \in Slots /\ tail \in Slots
    /\ size \in 0 .. Capacity
    /\ tail = (head + size) % Capacity
    /\ \A i \in 0 .. size - 1 : data[(head + i) % Capacity] \in Requests

contents == [i \in 1 .. size |-> data[(head + i - 1) % Capacity]]

FIFO == INSTANCE BoundedFIFO

(* The circular buffer is a bounded FIFO queue: it refuses exactly when    *)
(* Capacity requests wait, and gives them back oldest first.               *)
QueueIsFIFO == FIFO!Spec
=============================================================================
