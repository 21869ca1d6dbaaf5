------------------------------- MODULE Fleet --------------------------------
(***************************************************************************)
(* Nodes that come and go, with the two programs that follow their         *)
(* registrations: the monitor of an edge node and the load balancer of the *)
(* cloud nodes.  Both read the same etcd, each its own area.               *)
(***************************************************************************)
EXTENDS EdgeMonitoring, LoadBalancer

fleetVars == <<netVars, monVars, lbVars>>

FleetInit == RegInit /\ MonInit /\ LBInit

FleetNext ==
    \/ /\ \/ NodeStep \/ MonitorStep \/ PickEdgeNode
          \/ \E n \in Mutable : StatusChanges(n)
       /\ UNCHANGED lbVars
    \/ LBNext /\ UNCHANGED <<mute, monVars>>

FleetSpec == FleetInit /\ [][FleetNext]_fleetVars

(* Nothing is presumed of starts, ends, leases, statuses and faults, but   *)
(* that etcd does not fail at every update.                                *)
FleetFairness ==
    /\ WF_fleetVars(MonitorStep /\ UNCHANGED lbVars)
    /\ SF_fleetVars(Wake /\ UNCHANGED lbVars)
    /\ WF_fleetVars(UpdateStep /\ UNCHANGED <<mute, monVars>>)
    /\ SF_fleetVars(ReadTargets /\ targets' = getTargets
                             /\ UNCHANGED <<mute, monVars>>)

FleetFairSpec == FleetSpec /\ FleetFairness

(* Types: what each phase of the monitor and of an update of the targets   *)
(* works with.                                                             *)
FleetTypeOK == MonTypeOK /\ LBTypeOK
=============================================================================
