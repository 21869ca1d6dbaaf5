---------------------------- MODULE MCScheduler ----------------------------
(* Small instances of Scheduler for TLC. *)
EXTENDS Scheduler, TLC

CONSTANTS c1, c2, c3, r1, r2, r3, f, g

\* One descriptor per function; g needs the memory of two instances of f.
MCDescs == {"f1", "g1"}
MCNameOf == [d \in MCDescs |-> IF d = "g1" THEN g ELSE f]
MCMemOf == [d \in MCDescs |-> IF d = "f1" THEN 1 ELSE 2]
MCCpuOf == [d \in MCDescs |-> 1]

Sync == [async |-> FALSE, offload |-> FALSE]
Async == [async |-> TRUE, offload |-> FALSE]
SyncOff == [async |-> FALSE, offload |-> TRUE]
AsyncOff == [async |-> TRUE, offload |-> TRUE]
OnlySync == {Sync}
SyncAndAsync == {Sync, Async}
\* Enough for every step of the handlers.
Mixed == {Sync, SyncOff, AsyncOff}

Symmetry == Permutations(Containers) \cup Permutations(Clients)
=============================================================================
