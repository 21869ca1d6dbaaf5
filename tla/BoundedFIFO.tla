---------------------------- MODULE BoundedFIFO ----------------------------
(***************************************************************************)
(* What the policies expect of the interface queue (scheduling/queue.go):  *)
(* the requests accepted and not yet taken, in the order of arrival.       *)
(***************************************************************************)
EXTENDS Integers, Sequences

CONSTANTS Requests, Capacity, Nil

VARIABLES
    contents,     \* the requests that wait, oldest first
    result        \* what the last call returned

vars == <<contents, result>>

Init == contents = <<>> /\ result = Nil

Enqueue(r) ==
    IF Len(contents) < Capacity
    THEN contents' = Append(contents, r) /\ result' = TRUE
    ELSE UNCHANGED contents /\ result' = FALSE

Front ==
    /\ result' = IF contents = <<>> THEN Nil ELSE Head(contents)
    /\ UNCHANGED contents

Dequeue ==
    /\ result' = IF contents = <<>> THEN Nil ELSE Head(contents)
    /\ contents' = IF contents = <<>> THEN <<>> ELSE Tail(contents)

Next == (\E r \in Requests : Enqueue(r)) \/ Front \/ Dequeue

Spec == Init /\ [][Next]_vars
=============================================================================
