---------------------------- MODULE FleetProofs -----------------------------
(***************************************************************************)
(* Fleet, for any nodes, keys, deployments and faults: what the monitor    *)
(* keeps of the servers, and what the load balancer keeps of its targets.  *)
(***************************************************************************)
EXTENDS Fleet, FiniteSetTheorems, TLAPS

-----------------------------------------------------------------------------
(* Registrations.                                                          *)

RegTyped ==
    /\ members \subseteq Nodes
    /\ running \in [Nodes -> Keys \cup {NoKey}]
    /\ \A n \in Nodes : Up(n) => NodeOf[running[n]] = n
    /\ registered \subseteq used /\ used \subseteq Keys

(* Types; a key that was used is not registered again.                     *)
LEMMA RegStep ==
    ASSUME RegTyped, RegNext
    PROVE  /\ RegTyped'
           /\ registered' \cap used \subseteq registered
           /\ used \subseteq used'
           /\ \A n \in Nodes : running'[n] # NoKey =>
                 running'[n] = running[n] \/ running'[n] \notin used
  <1> USE RegistrationAssumption DEF RegTyped
  <1>1. ASSUME NEW k \in Keys, RegisterToEtcd(k)
        PROVE  /\ RegTyped'
               /\ registered' \cap used \subseteq registered
               /\ used \subseteq used'
               /\ \A n \in Nodes : running'[n] # NoKey =>
                     running'[n] = running[n] \/ running'[n] \notin used
    BY <1>1 DEF RegisterToEtcd, Up
  <1>2. ASSUME NEW k \in Keys, LeaseExpires(k)
        PROVE  /\ RegTyped'
               /\ registered' \cap used \subseteq registered
               /\ used \subseteq used'
               /\ running' = running
    BY <1>2 DEF LeaseExpires, Up
  <1>3. ASSUME NEW n \in Nodes, Deregister(n) \/ Crash(n)
        PROVE  /\ RegTyped'
               /\ registered' \cap used \subseteq registered
               /\ used \subseteq used'
               /\ running' = [running EXCEPT ![n] = NoKey]
    BY <1>3 DEF Deregister, Crash, Up
  <1> QED
    BY <1>1, <1>2, <1>3 DEF RegNext

-----------------------------------------------------------------------------
(* The monitor.                                                            *)

(* The keys that the monitor may have: those of other starts of nodes of   *)
(* its area.                                                               *)
Foreign == {k \in used : NodeOf[k] \in EdgeNodes} \ {running[Self]}

(* Inductive: what was registered when a phase read the registrations, and *)
(* is registered still, is what the phase has read.                        *)
Monitored ==
    /\ RegTyped
    /\ monitor \in {"off", "idle", "due", "probing", "ranking", "near",
                    "blocked"}
    /\ monitor = "off" <=> ~Up(Self)
    /\ servers \subseteq Foreign
    /\ nearby \subseteq Foreign \cup {NoKey}
    /\ snapshot \subseteq Foreign
    /\ todo \subseteq Foreign \cup {NoKey}
    /\ triggers \in 0 .. MaxTriggers
    /\ mute \subseteq Mutable
    /\ monitor = "near" => triggers < MaxTriggers
    /\ monitor = "probing" => /\ todo \subseteq snapshot
                              /\ servers \cap registered \subseteq snapshot

(* A server that is dropped has gone, or gave no status, or Self has gone. *)
Kept ==
    \A k \in servers \ servers' :
       \/ k \notin registered
       \/ ~Answers(k) /\ monitor \in {"probing", "near"}
       \/ running'[Self] # running[Self]

LEMMA MonitoredTypes == Monitored => MonTypeOK
  BY RegistrationAssumption DEF Monitored, RegTyped, Foreign, MonTypeOK

LEMMA MonitoredInit == FleetInit => Monitored
  <1> SUFFICES ASSUME FleetInit PROVE Monitored
    OBVIOUS
  <1>1. 0 \in 0 .. MaxTriggers /\ Self \in Nodes
    BY MonitoringAssumption, RegistrationAssumption
  <1>2. RegTyped
    BY RegistrationAssumption DEF FleetInit, RegInit, RegTyped, Up
  <1>3. ~Up(Self)
    BY <1>1 DEF FleetInit, RegInit, Up
  <1> QED
    BY <1>1, <1>2, <1>3 DEF FleetInit, MonInit, Monitored

(* Processes start and end.                                                *)
LEMMA NodeStepMonitored ==
    ASSUME Monitored, NodeStep
    PROVE  Monitored' /\ Kept
  <1> USE DEF Monitored
  <1>0. Self \in Nodes /\ 0 \in 0 .. MaxTriggers /\ UNCHANGED mute
    BY MonitoringAssumption, RegistrationAssumption DEF NodeStep
  <1>1. /\ RegTyped'
        /\ registered' \cap used \subseteq registered
        /\ used \subseteq used'
        /\ running'[Self] # NoKey =>
              running'[Self] = running[Self] \/ running'[Self] \notin used
    BY <1>0, RegStep DEF NodeStep
  <1>2. CASE running'[Self] = running[Self]
    <2>1. UNCHANGED <<servers, nearby, monitor, snapshot, todo, triggers>>
      BY <1>2 DEF NodeStep, monVars
    <2>2. Foreign \subseteq Foreign'
      BY <1>1, <1>2 DEF Foreign
    <2>3. Up(Self)' <=> Up(Self)
      BY <1>2 DEF Up
    <2>4. servers \cap registered' \subseteq servers \cap registered
      BY <1>1 DEF Foreign
    <2> QED
      BY <1>0, <1>1, <2>1, <2>2, <2>3, <2>4 DEF Kept
  <1>3. CASE running'[Self] # running[Self] /\ running'[Self] = NoKey
    <2>1. MonitorEnds /\ ~Up(Self)'
      BY <1>3 DEF NodeStep, Up
    <2> QED
      BY <1>0, <1>1, <1>3, <2>1 DEF MonitorEnds, Kept
  <1>4. CASE running'[Self] # running[Self] /\ running'[Self] # NoKey
    <2>1. InitEdgeMonitoring /\ Up(Self)'
      BY <1>4 DEF NodeStep, Up
    <2> QED
      BY <1>0, <1>1, <1>4, <2>1 DEF InitEdgeMonitoring, Kept
  <1> QED
    BY <1>2, <1>3, <1>4

LEMMA PanicMonitored ==
    ASSUME Monitored, Panic
    PROVE  Monitored' /\ Kept
  <1>0. Self \in Nodes /\ 0 \in 0 .. MaxTriggers
    BY MonitoringAssumption, RegistrationAssumption
  <1>1. RegNext
    BY <1>0 DEF Panic, RegNext
  <1>2. RegTyped'
    BY <1>1, RegStep DEF Monitored
  <1>3. running'[Self] = NoKey /\ running[Self] # NoKey
    BY <1>0 DEF Panic, Crash, Up, Monitored, RegTyped
  <1> QED
    BY <1>0, <1>2, <1>3 DEF Panic, MonitorEnds, Monitored, Kept, Up

(* The monitor's goroutine moves, and no process starts or ends.           *)
LEMMA MonitorStepMonitored ==
    ASSUME Monitored, MonitorStep
    PROVE  Monitored' /\ Kept
  <1>0. Self \in Nodes /\ MaxTriggers \in Nat
    BY MonitoringAssumption, RegistrationAssumption
  <1>a. ASSUME UNCHANGED netVars
        PROVE  /\ RegTyped' /\ Foreign' = Foreign /\ (Up(Self)' <=> Up(Self))
               /\ registered' = registered /\ mute' = mute
    BY <1>a DEF netVars, regVars, RegTyped, Foreign, Up, Monitored
  <1>1. CASE Wake
    BY <1>0, <1>1, <1>a DEF Wake, Monitored, Kept
  <1>2. CASE WakeNearby
    BY <1>0, <1>2, <1>a DEF WakeNearby, Monitored, Kept
  <1>3. CASE ReadRegistrations
    <2>1. GetAll \ {running[Self]} \subseteq Foreign
      BY DEF GetAll, Foreign, Monitored, RegTyped
    <2>2. servers \cap registered \subseteq GetAll \ {running[Self]}
      BY DEF GetAll, Foreign, Monitored
    <2> QED
      BY <1>0, <1>3, <1>a, <2>1, <2>2
      DEF ReadRegistrations, Idle, Monitored, Kept
  <1>4. ASSUME NEW k \in Keys, Probe(k)
        PROVE  Monitored' /\ Kept
    BY <1>0, <1>4, <1>a DEF Probe, Idle, Lost, Monitored, Kept
  <1>5. CASE ForgetUnregistered
    BY <1>0, <1>5, <1>a DEF ForgetUnregistered, Monitored, Kept
  <1>6. CASE getRank
    BY <1>0, <1>6, <1>a DEF getRank, Ranked, Idle, Monitored, Kept
  <1>7. ASSUME NEW k \in Keys \cup {NoKey}, ProbeNearby(k)
        PROVE  Monitored' /\ Kept
    <2>1. CASE Panic
      BY <2>1, PanicMonitored
    <2>2. CASE ~Panic
      BY <1>0, <1>7, <1>a, <2>2 DEF ProbeNearby, Idle, Lost, Monitored, Kept
    <2> QED
      BY <2>1, <2>2
  <1>8. CASE NearbyDone
    BY <1>0, <1>8, <1>a DEF NearbyDone, Idle, Monitored, Kept
  <1> QED
    BY <1>1, <1>2, <1>3, <1>4, <1>5, <1>6, <1>7, <1>8 DEF MonitorStep

(* A node's status gets out of reach, or within reach again.               *)
LEMMA StatusChangesMonitored ==
    ASSUME Monitored, NEW n \in Mutable, StatusChanges(n)
    PROVE  Monitored' /\ Kept
  BY DEF StatusChanges, regVars, monVars, Monitored, RegTyped, Foreign, Up, Kept

LEMMA MonitoredStep ==
    Monitored /\ [FleetNext]_fleetVars => Monitored' /\ [Kept]_<<netVars, monVars>>
  <1> SUFFICES ASSUME Monitored, [FleetNext]_fleetVars
               PROVE  Monitored' /\ [Kept]_<<netVars, monVars>>
    OBVIOUS
  <1>1. CASE NodeStep \/ MonitorStep \/ PickEdgeNode
    BY <1>1, NodeStepMonitored, MonitorStepMonitored, PanicMonitored
    DEF PickEdgeNode
  <1>4. ASSUME NEW n \in Mutable, StatusChanges(n)
        PROVE  Monitored' /\ Kept
    BY <1>4, StatusChangesMonitored
  <1>2. CASE UNCHANGED <<netVars, monVars>>
    BY <1>2 DEF netVars, regVars, monVars, Monitored, RegTyped, Foreign, Up
  <1>3. LBNext => UNCHANGED regVars
    BY DEF LBNext, StartReverseProxy, LBEnds, UpdateStep, ReadTargets, Added,
           Removed, AddTarget, RemoveTarget
  <1> QED
    BY <1>1, <1>2, <1>3, <1>4 DEF FleetNext, fleetVars, netVars

(* Types; a goroutine that waits to trigger a phase waits for another one. *)
LEMMA MonitorTyped == FleetSpec => []MonTypeOK
  BY MonitoredInit, MonitoredStep, MonitoredTypes, PTL DEF FleetSpec

(* registryLog.go:60-64, 74-78, 90-95, 142-144: no error of etcd or of the *)
(* coordinates' client, and no registration or lease that comes or goes    *)
(* during a phase, takes a registered server off the map; only a request   *)
(* for its status that brings none does, and that may be a live server's.  *)
THEOREM AnsweringServersStay == FleetSpec => AnsweringAreKept
  <1>1. FleetInit => Monitored
    BY MonitoredInit
  <1>2. Monitored /\ [FleetNext]_fleetVars =>
           Monitored' /\ [\A k \in servers \ servers' :
                             \/ k \notin registered
                             \/ ~Answers(k) /\ monitor \in {"probing", "near"}
                             \/ running'[Self] # running[Self]]_<<netVars, monVars>>
    BY MonitoredStep DEF Kept
  <1> QED
    BY <1>1, <1>2, PTL DEF FleetSpec, AnsweringAreKept

-----------------------------------------------------------------------------
(* The load balancer.                                                      *)

(* Inductive: which names the proxy has in each phase of an update.  Only  *)
(* names that were read twice at the start can be there more than once.    *)
Balanced ==
    /\ LBTypeOK
    /\ \A n \in Nodes : balancer[n] > 1 => n \in doubled
    /\ updater = "off" => Names(current) = {} /\ Names(balancer) = {}
    /\ updater = "sleep" =>
          /\ Names(current) \subseteq Names(balancer)
          /\ Names(balancer) \subseteq Names(current) \cup doubled
    /\ updater = "adding" =>
          /\ pending \subseteq Names(targets) \ Names(current)
          /\ Names(current) \subseteq Names(balancer)
          /\ Names(targets) \ pending \subseteq Names(balancer)
          /\ Names(balancer) \subseteq Names(current) \cup Names(targets) \cup doubled
    /\ updater = "removing" =>
          /\ pending \subseteq Names(current) \ Names(targets)
          /\ Names(targets) \subseteq Names(balancer)
          /\ Names(balancer) \subseteq Names(targets) \cup pending \cup doubled

LEMMA BalancedShows ==
    Balanced => /\ LBTypeOK /\ NoTargetIsMissing /\ GhostsWereDoubled
                /\ NeverWithoutTarget
  BY DEF Balanced, LBTypeOK, NoTargetIsMissing, GhostsWereDoubled,
         NeverWithoutTarget, Names

LEMMA NoneNamed == NoTargets \in [Nodes -> Nat] /\ Names(NoTargets) = {}
  BY DEF NoTargets, Names

(* A reading of the registrations counts those of each node.               *)
LEMMA CountsAreNatural == RegTyped => getTargets \in [Nodes -> Nat]
  <1> SUFFICES ASSUME RegTyped, NEW n \in Nodes
               PROVE  Cardinality({k \in GetCloudNodes : NodeOf[k] = n}) \in Nat
    BY DEF getTargets
  <1>1. IsFiniteSet(Keys)
    BY RegistrationAssumption
  <1>2. {k \in GetCloudNodes : NodeOf[k] = n} \subseteq Keys
    BY DEF RegTyped, GetCloudNodes
  <1> QED
    BY <1>1, <1>2, FS_Subset, FS_CardinalityType

LEMMA BalancedStep ==
    ASSUME RegTyped, Balanced, LBNext \/ UNCHANGED lbVars
    PROVE  Balanced'
  <1> USE DEF Balanced, LBTypeOK, Names
  <1>1. CASE StartReverseProxy
    <2>1. targets' \in [Nodes -> Nat] /\ current' = targets' /\ balancer' = targets'
      BY <1>1, CountsAreNatural DEF StartReverseProxy
    <2> QED
      BY <1>1, <2>1 DEF StartReverseProxy
  <1>2. CASE LBEnds
    BY <1>2, NoneNamed DEF LBEnds, NoTargets
  <1>3. CASE ReadTargets
    <2>1. targets' \in [Nodes -> Nat]
      BY <1>3, CountsAreNatural, NoneNamed DEF ReadTargets
    <2> QED
      BY <1>3, <2>1 DEF ReadTargets
  <1>4. ASSUME NEW n \in Nodes, AddTarget(n)
        PROVE  Balanced'
    <2>1. /\ balancer' \in [Nodes -> Nat]
          /\ balancer'[n] > 0
          /\ balancer'[n] > 1 => balancer[n] > 1
          /\ \A m \in Nodes \ {n} : balancer'[m] = balancer[m]
      BY <1>4 DEF AddTarget
    <2> QED
      BY <1>4, <2>1 DEF AddTarget
  <1>5. CASE Added
    BY <1>5 DEF Added
  <1>6. ASSUME NEW n \in Nodes, RemoveTarget(n)
        PROVE  Balanced'
    <2>1. balancer[n] \in Nat /\ current[n] \in Nat /\ current[n] > 0
      BY <1>6 DEF RemoveTarget
    <2>2. /\ balancer' \in [Nodes -> Nat]
          /\ balancer'[n] > 0 => balancer[n] > 1
          /\ \A m \in Nodes \ {n} : balancer'[m] = balancer[m]
      BY <1>6, <2>1 DEF RemoveTarget
    <2>3. balancer'[n] > 1 => balancer[n] > 1
      BY <2>2
    <2> QED
      BY <1>6, <2>2, <2>3 DEF RemoveTarget
  <1>7. CASE Removed
    BY <1>7 DEF Removed
  <1>8. CASE UNCHANGED lbVars
    BY <1>8 DEF lbVars
  <1> QED
    BY <1>1, <1>2, <1>3, <1>4, <1>5, <1>6, <1>7, <1>8 DEF LBNext, UpdateStep

(* The phases of an update hold what they should, for any nodes and faults. *)
THEOREM BalancerFollows == FleetSpec => []Balanced
  <1>1. FleetInit => Monitored /\ Balanced
    <2>1. FleetInit => Balanced
      BY NoneNamed
      DEF FleetInit, LBInit, Balanced, LBTypeOK, NoTargets
    <2> QED
      BY <2>1, MonitoredInit
  <1>2. Monitored /\ Balanced /\ [FleetNext]_fleetVars => Monitored' /\ Balanced'
    <2>1. [FleetNext]_fleetVars => LBNext \/ UNCHANGED lbVars
      BY DEF FleetNext, fleetVars
    <2> QED
      BY <2>1, MonitoredStep, BalancedStep DEF Monitored
  <1> QED
    BY <1>1, <1>2, PTL DEF FleetSpec

(* Types: what the monitor's phases work with, and the counts of a proxy's *)
(* targets by node.                                                        *)
THEOREM FleetTypeCorrect == FleetSpec => []FleetTypeOK
  BY MonitorTyped, BalancerFollows, BalancedShows, PTL DEF FleetTypeOK

(* lb.go:79-92: no node of the last reading is missing from the proxy.     *)
THEOREM TargetsArePresent == FleetSpec => []NoTargetIsMissing
  BY BalancerFollows, BalancedShows, PTL

(* lb.go:93-104: what is left over was registered twice at the start.      *)
THEOREM GhostsComeDoubled == FleetSpec => []GhostsWereDoubled
  BY BalancerFollows, BalancedShows, PTL

(* lb.go:79-102: requests have a target between two readings that found    *)
(* one, although the old targets are removed.                              *)
THEOREM RequestsHaveTarget == FleetSpec => []NeverWithoutTarget
  BY BalancerFollows, BalancedShows, PTL

LEMMA NamesAreNodes == \A T : Names(T) \subseteq Nodes
  BY DEF Names

(* Every step of the load balancer is one of the abstract target set: an   *)
(* addition is of a name that was read, and a removal comes when all those *)
(* names are there.                                                        *)
LEMMA TargetStep ==
    ASSUME Balanced, LBNext \/ UNCHANGED lbVars
    PROVE  Proxied!Next \/ UNCHANGED Proxied!vars
  <1>1. CASE StartReverseProxy
    <2>1. Proxied!Start(Names(targets'))
      BY <1>1 DEF StartReverseProxy, Proxied!Start
    <2> QED
      BY <2>1, NamesAreNodes DEF Proxied!Next
  <1>2. CASE LBEnds
    <2>1. Proxied!Stop
      BY <1>2, NoneNamed DEF LBEnds, Proxied!Stop
    <2> QED
      BY <2>1 DEF Proxied!Next
  <1>3. CASE ReadTargets
    <2>1. Proxied!Read(Names(targets'))
      BY <1>3 DEF ReadTargets, Proxied!Read, Names
    <2> QED
      BY <2>1, NamesAreNodes DEF Proxied!Next
  <1>4. ASSUME NEW n \in Nodes, AddTarget(n)
        PROVE  Proxied!Next
    <2>1. n \in Names(targets)
      BY <1>4 DEF AddTarget, Balanced
    <2>2. Names(balancer)' = Names(balancer) \cup {n}
      BY <1>4 DEF AddTarget, Balanced, LBTypeOK, Names
    <2>3. Proxied!Add(n)
      BY <1>4, <2>1, <2>2 DEF AddTarget, Proxied!Add, Names
    <2> QED
      BY <2>3 DEF Proxied!Next
  <1>5. CASE Added \/ Removed \/ UNCHANGED lbVars
    BY <1>5 DEF Added, Removed, lbVars, Proxied!vars, Names
  <1>6. ASSUME NEW n \in Nodes, RemoveTarget(n)
        PROVE  Proxied!Next \/ UNCHANGED Proxied!vars
    <2>1. n \notin Names(targets) /\ Names(targets) \subseteq Names(balancer)
      BY <1>6 DEF RemoveTarget, Balanced
    <2>2. /\ (updater # "off") /\ (updater # "off")'
          /\ Names(targets)' = Names(targets)
          /\ \A m \in Nodes \ {n} : balancer'[m] = balancer[m]
      BY <1>6 DEF RemoveTarget, Balanced, LBTypeOK, Names
    <2>3. Names(balancer)' = Names(balancer) \/ Names(balancer)' = Names(balancer) \ {n}
      <3>1. Names(balancer)' = {m \in Nodes : balancer'[m] > 0}
        BY DEF Names
      <3>2. \A m \in Nodes \ {n} : m \in Names(balancer)' <=> m \in Names(balancer)
        BY <2>2, <3>1 DEF Names
      <3>3. n \in Names(balancer)' => n \in Names(balancer)
        BY <1>6, <3>1 DEF RemoveTarget, Balanced, LBTypeOK, Names
      <3> QED
        BY <3>2, <3>3, NamesAreNodes, <3>1
    <2>4. CASE Names(balancer)' = Names(balancer)
      BY <2>2, <2>4 DEF Proxied!vars
    <2>5. CASE Names(balancer)' = Names(balancer) \ {n} /\ n \in Names(balancer)
      BY <2>1, <2>2, <2>5 DEF Proxied!Next, Proxied!Remove
    <2> QED
      BY <2>3, <2>4, <2>5
  <1> QED
    BY <1>1, <1>2, <1>3, <1>4, <1>5, <1>6 DEF LBNext, UpdateStep

(* lb.go:78-104: the load balancer implements the abstract target set.     *)
THEOREM BalancerImplementsTargetSet == FleetSpec => TargetsFollow
  <1>1. FleetInit => Proxied!Init
    BY NoneNamed DEF FleetInit, LBInit, Proxied!Init
  <1>2. Balanced /\ [FleetNext]_fleetVars => [Proxied!Next]_Proxied!vars
    <2>1. [FleetNext]_fleetVars => LBNext \/ UNCHANGED lbVars
      BY DEF FleetNext, fleetVars
    <2> QED
      BY <2>1, TargetStep
  <1> QED
    BY <1>1, <1>2, BalancerFollows, PTL DEF FleetSpec, TargetsFollow, Proxied!Spec
=============================================================================
