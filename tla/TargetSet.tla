----------------------------- MODULE TargetSet -----------------------------
(***************************************************************************)
(* What a load balancer promises to the clients of a region, with no       *)
(* updates, no lists and no counts: from one reading of the registrations  *)
(* to the next, targets are exchanged one at a time, first all that come   *)
(* and then those that go.                                                 *)
(***************************************************************************)
CONSTANT Nodes

VARIABLES
    serving,  \* whether there is a proxy
    used,     \* the nodes that requests are sent to
    listed    \* the nodes of the last reading

vars == <<serving, used, listed>>

Init == ~serving /\ used = {} /\ listed = {}

Start(L) ==
    /\ ~serving
    /\ serving' = TRUE
    /\ used' = L /\ listed' = L

Stop ==
    /\ serving
    /\ serving' = FALSE
    /\ used' = {} /\ listed' = {}

\* Nobody is used or not used because of a reading alone.
Read(L) ==
    /\ serving
    /\ listed' = L
    /\ UNCHANGED <<serving, used>>

Add(n) ==
    /\ serving
    /\ n \in listed
    /\ used' = used \cup {n}
    /\ UNCHANGED <<serving, listed>>

\* All that were read are used by now.
Remove(n) ==
    /\ serving
    /\ listed \subseteq used
    /\ n \in used \ listed
    /\ used' = used \ {n}
    /\ UNCHANGED <<serving, listed>>

Next ==
    \/ \E L \in SUBSET Nodes : Start(L) \/ Read(L)
    \/ \E n \in Nodes : Add(n) \/ Remove(n)
    \/ Stop

Spec == Init /\ [][Next]_vars
=============================================================================
