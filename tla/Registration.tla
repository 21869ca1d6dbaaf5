---------------------------- MODULE Registration ----------------------------
(***************************************************************************)
(* The registrations of nodes in etcd (internal/registration/registry.go)  *)
(* and the processes that keep them (cmd/serverledge/main.go).             *)
(*                                                                         *)
(* A node registers at each start, under a key it has just made up, with a *)
(* lease that its process keeps alive.  The value of a key is the URL of   *)
(* the node, so that two keys of one node have the same value.  A key goes *)
(* when the node deregisters or when its lease expires; a node that ends   *)
(* without deregistering leaves its key behind for a while.                *)
(***************************************************************************)
EXTENDS Naturals, FiniteSets

CONSTANTS
    Nodes,        \* the nodes, named by their URLs
    EdgeNodes,    \* those that register in the edge area; the others are in
                  \* the cloud area of the region
    Keys,         \* the keys that starts may generate: they bound the starts
    NodeOf,       \* the node that each key is of
    NoKey,        \* the empty string
    Deployments,  \* the sets of nodes that may exist
    Faults        \* "etcd": etcd fails; "lease": a lease is not kept alive;
                  \* "loss": a datagram is lost; "update": the client of
                  \* network coordinates returns an error

ASSUME RegistrationAssumption ==
    /\ EdgeNodes \subseteq Nodes
    /\ Deployments \subseteq SUBSET Nodes
    /\ NodeOf \in [Keys -> Nodes]
    /\ NoKey \notin Keys
    /\ IsFiniteSet(Keys) /\ IsFiniteSet(Nodes)

VARIABLES
    members,      \* the nodes that exist
    running,      \* Registry.Key of each node's process, NoKey without one
    registered,   \* the keys in etcd
    used          \* the keys generated so far

regVars == <<members, running, registered, used>>

Up(n) == running[n] # NoKey

RegInit ==
    /\ members \in Deployments
    /\ running = [n \in Nodes |-> NoKey]
    /\ registered = {}
    /\ used = {}

(* What a Get with a prefix returns: the registrations of an area.         *)
GetAll == {k \in registered : NodeOf[k] \in EdgeNodes}
GetCloudNodes == registered \ GetAll

\* A node starts and registers.  If etcd fails between Put and KeepAlive, the
\* process ends and the key is left behind.
RegisterToEtcd(k) ==
    /\ NodeOf[k] \in members /\ ~Up(NodeOf[k])
    /\ k \notin used
    /\ used' = used \cup {k}
    /\ registered' = registered \cup {k}
    /\ \/ running' = [running EXCEPT ![NodeOf[k]] = k]
       \/ "etcd" \in Faults /\ UNCHANGED running
    /\ UNCHANGED members

\* The termination handler: the node deregisters, and its process ends.
Deregister(n) ==
    /\ Up(n)
    /\ registered' = registered \ {running[n]}
    /\ running' = [running EXCEPT ![n] = NoKey]
    /\ UNCHANGED <<members, used>>

\* A process ends in another way, or its Deregister fails.
Crash(n) ==
    /\ Up(n)
    /\ running' = [running EXCEPT ![n] = NoKey]
    /\ UNCHANGED <<members, registered, used>>

\* A lease ends: its process has ended, or the channel of KeepAlive was
\* closed.  In the latter case the process goes on without a registration.
LeaseExpires(k) ==
    /\ k \in registered
    /\ running[NodeOf[k]] = k => "lease" \in Faults
    /\ registered' = registered \ {k}
    /\ UNCHANGED <<members, running, used>>

RegNext ==
    \/ \E k \in Keys : RegisterToEtcd(k) \/ LeaseExpires(k)
    \/ \E n \in Nodes : Deregister(n) \/ Crash(n)
=============================================================================
