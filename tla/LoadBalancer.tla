---------------------------- MODULE LoadBalancer ----------------------------
(***************************************************************************)
(* The load balancer of a region (internal/lb/lb.go).  It reads the        *)
(* registrations of the cloud nodes when it starts and every 30 seconds    *)
(* from then on, and adds and removes targets of the proxy one at a time,  *)
(* while requests are served.                                              *)
(*                                                                         *)
(* A target is named by its URL.  The slices of targets are bags here:     *)
(* several registrations of one node make several targets of one name.     *)
(***************************************************************************)
EXTENDS Registration

CONSTANT Proxy  \* the host of the load balancer

ASSUME ProxyAssumption == Proxy \in Nodes \ EdgeNodes

VARIABLES
    balancer,     \* the targets that the proxy uses
    current,      \* currentTargets
    targets,      \* what getTargets returned last
    updater,      \* where updateTargets is
    pending,      \* the names that it has still to add, or to remove
    doubled       \* (history) the names that were read twice at the start

lbVars == <<balancer, current, targets, updater, pending, doubled>>

NoTargets == [n \in Nodes |-> 0]
Names(T) == {n \in Nodes : T[n] > 0}

LBInit ==
    /\ balancer = NoTargets /\ current = NoTargets /\ targets = NoTargets
    /\ updater = "off"
    /\ pending = {}
    /\ doubled = {}

\* getTargets, when etcd answers.
getTargets == [n \in Nodes |-> Cardinality({k \in GetCloudNodes : NodeOf[k] = n})]

\* StartReverseProxy.  Without an answer of etcd the process exits.
StartReverseProxy ==
    /\ Proxy \in members
    /\ updater = "off"
    /\ targets' = getTargets
    /\ current' = targets'
    /\ balancer' = targets'
    /\ doubled' = {n \in Nodes : targets'[n] > 1}
    /\ updater' = "sleep"
    /\ UNCHANGED <<regVars, pending>>

LBEnds ==
    /\ updater # "off"
    /\ balancer' = NoTargets /\ current' = NoTargets /\ targets' = NoTargets
    /\ updater' = "off"
    /\ pending' = {}
    /\ doubled' = {}
    /\ UNCHANGED regVars

\* Fault for GhostsWereDoubled: after an error the update waits for the next
\* one, but has forgotten what it used.
ReadTargetsForgets ==
    /\ updater = "sleep"
    /\ targets' = NoTargets
    /\ current' = NoTargets
    /\ UNCHANGED <<regVars, balancer, updater, pending, doubled>>

\* Fault for NeverWithoutTarget and TargetsFollow: what is not read is removed
\* first.
ReadTargetsRemovesFirst ==
    /\ updater = "sleep"
    /\ targets' = getTargets
    /\ pending' = Names(current) \ Names(targets')
    /\ updater' = "removing"
    /\ UNCHANGED <<regVars, balancer, current, doubled>>

\* Fault for RegisteredAreTargets: the roles of the two lists are swapped.
ReadTargetsSwapped ==
    /\ updater = "sleep"
    /\ targets' = getTargets
    /\ pending' = Names(current) \ Names(targets')
    /\ updater' = "adding"
    /\ UNCHANGED <<regVars, balancer, current, doubled>>

\* An update reads the registrations.  An error of etcd is logged, and counts
\* as a region without nodes.
ReadTargets ==
    /\ updater = "sleep"
    /\ \/ targets' = getTargets
       \/ "etcd" \in Faults /\ targets' = NoTargets
    /\ pending' = Names(targets') \ Names(current)
    /\ updater' = "adding"
    /\ UNCHANGED <<regVars, balancer, current, doubled>>

\* AddTarget refuses a name that it has.
AddTarget(n) ==
    /\ updater = "adding" /\ n \in pending
    /\ balancer' = [balancer EXCEPT ![n] = IF @ = 0 THEN 1 ELSE @]
    /\ pending' = pending \ {n}
    /\ UNCHANGED <<regVars, current, targets, updater, doubled>>

\* Fault for NoTargetIsMissing: nothing is marked as to be kept.
AddedKeepsNone ==
    /\ updater = "adding" /\ pending = {}
    /\ pending' = Names(current)
    /\ updater' = "removing"
    /\ UNCHANGED <<regVars, balancer, current, targets, doubled>>

\* What is current and was not read is to be removed.
Added ==
    /\ updater = "adding" /\ pending = {}
    /\ pending' = Names(current) \ Names(targets)
    /\ updater' = "removing"
    /\ UNCHANGED <<regVars, balancer, current, targets, doubled>>

\* Fault for FleetTypeOK: a name is counted down as often as it was current.
RemoveTargetUnchecked(n) ==
    /\ updater = "removing" /\ n \in pending
    /\ balancer' = [balancer EXCEPT ![n] = @ - current[n]]
    /\ pending' = pending \ {n}
    /\ UNCHANGED <<regVars, current, targets, updater, doubled>>

\* RemoveTarget takes the first target of that name away, once for each target
\* of that name that was current.
RemoveTarget(n) ==
    /\ updater = "removing" /\ n \in pending
    /\ balancer' = [balancer EXCEPT ![n] = IF @ > current[n]
                                           THEN @ - current[n] ELSE 0]
    /\ pending' = pending \ {n}
    /\ UNCHANGED <<regVars, current, targets, updater, doubled>>

Removed ==
    /\ updater = "removing" /\ pending = {}
    /\ current' = targets
    /\ updater' = "sleep"
    /\ UNCHANGED <<regVars, balancer, targets, pending, doubled>>

UpdateStep ==
    \/ ReadTargets \/ Added \/ Removed
    \/ \E n \in Nodes : AddTarget(n) \/ RemoveTarget(n)

LBNext == StartReverseProxy \/ LBEnds \/ UpdateStep

-----------------------------------------------------------------------------
(* Properties.                                                             *)

LBTypeOK ==
    /\ balancer \in [Nodes -> Nat]
    /\ current \in [Nodes -> Nat]
    /\ targets \in [Nodes -> Nat]
    /\ updater \in {"off", "sleep", "adding", "removing"}
    /\ pending \subseteq Nodes
    /\ doubled \subseteq Nodes

(* lb.go:79-92: what the last complete update read is what requests can be *)
(* sent to, whatever was registered several times.                         *)
NoTargetIsMissing ==
    updater # "removing" => Names(current) \subseteq Names(balancer)

(* lb.go:93-104: a target that the last update did not read is left only   *)
(* if the load balancer started while that node was registered twice.      *)
GhostsWereDoubled ==
    updater = "sleep" => Names(balancer) \ Names(current) \subseteq doubled

(* lb.go:79-102: additions come first, so that between two updates that    *)
(* both read some node requests always have somewhere to go.               *)
NeverWithoutTarget ==
    (Names(current) # {} /\ Names(targets) # {}) => Names(balancer) # {}

(* lb.go:78-104: whatever was registered several times and whenever etcd   *)
(* fails, the proxy's targets change one at a time, first those that come  *)
(* with a reading and then those that are not in it.                       *)
Proxied == INSTANCE TargetSet WITH
    serving <- updater # "off", used <- Names(balancer), listed <- Names(targets)

TargetsFollow == Proxied!Spec

(* lb.go:66-92: a node that stays registered becomes a target, again and   *)
(* again if etcd fails now and then.                                       *)
RegisteredAreTargets ==
    \A n \in Nodes :
       <>[](updater # "off" /\ n \in Names(getTargets))
       => []<>(n \in Names(balancer))
=============================================================================
