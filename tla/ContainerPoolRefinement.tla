---------------------- MODULE ContainerPoolRefinement ----------------------
(***************************************************************************)
(* ContainerPool implements ContainerLease: every step of the pool is a    *)
(* step of the lease protocol or leaves all leases alone.  (The liveness   *)
(* part of the abstract specification is checked by TLC.)                  *)
(***************************************************************************)
EXTENDS ContainerPoolProofs

\* The sets that decide the phase of a container do not overlap.
LEMMA PhasesDisjoint ==
    ASSUME Structure
    PROVE  /\ Held \subseteq Busy /\ Held \subseteq Containers
           /\ Held \cap Idle = {} /\ Idle \cap Busy = {}
           /\ (Held \cup Idle) \cap dying = {}
           /\ Busy \cup Idle \cup dying \subseteq Started
           /\ stale \subseteq Idle
<1>1. Held \subseteq Busy
  BY DemandAssumption DEF Structure, TypeOK, ExclusiveLease, Held, At, Busy
<1>2. Idle \cap Busy = {}
  BY DEF Structure, TypeOK, ListsDisjoint, Idle, Busy
<1> QED  BY <1>1, <1>2, TypeFacts DEF Structure, NoDangling

\* Who holds what, when the activities do not change.
LEMMA HoldersStay ==
    ASSUME client' = client
    PROVE  Held' = Held /\ leaseHolder' = leaseHolder
  BY DEF Held, At, leaseHolder, Holder

\* The next phases follow from the next sets.
LEMMA NextPhases ==
    leasePhase' = [c \in Containers |->
                     IF c \notin Started' THEN "absent"
                     ELSE IF c \in dying' THEN "doomed"
                     ELSE IF c \in Held' THEN "leased"
                     ELSE IF c \in Idle' THEN "idle"
                     ELSE "stranded"]
  BY DEF leasePhase

\* A caller that had no container gets c.
LEMMA HolderJoins ==
    ASSUME Structure, NEW w \in Clients, NEW c \in Containers,
           client[w].st # "running", c \notin Held,
           client'[w].st = "running", client'[w].cont = c,
           \A v \in Clients \ {w} : client'[v] = client[v]
    PROVE  /\ Held' = Held \cup {c}
           /\ leaseHolder' = [leaseHolder EXCEPT ![c] = {w}]
           /\ \A b \in Containers : w \notin leaseHolder[b]
<1>1. At({"running"})' = At({"running"}) \cup {w} /\ w \notin At({"running"})
  BY DEF At
<1>2. Held' = Held \cup {c}
  BY <1>1 DEF Held, At
<1>3. \A b \in Containers \ {c} : Holder(b)' = Holder(b)
  BY <1>1 DEF Holder, At
<1>4. Holder(c)' = {w}
  <2>1. Holder(c) = {}
    BY DEF Holder, Held
  <2> QED  BY <1>1, <2>1 DEF Holder, At
<1>5. leaseHolder' = [leaseHolder EXCEPT ![c] = {w}]
  BY <1>3, <1>4 DEF leaseHolder
<1> QED  BY <1>1, <1>2, <1>5 DEF leaseHolder, Holder

\* A caller that has no container stops, or waits for one.
LEMMA HolderAbsent ==
    ASSUME Structure, NEW w \in Clients,
           client[w].st # "running", client'[w].st # "running",
           \A v \in Clients \ {w} : client'[v] = client[v]
    PROVE  Held' = Held /\ leaseHolder' = leaseHolder
<1>1. At({"running"})' = At({"running"}) /\ w \notin At({"running"})
  BY DEF At
<1>2. \A v \in At({"running"}) : client'[v] = client[v]
  BY <1>1 DEF At
<1> QED  BY <1>1, <1>2 DEF Held, leaseHolder, Holder

\* Idle containers leave the lists: the members of D are destroyed, those of
\* L go on running.
LEMMA EvictStep ==
    ASSUME Structure, NEW D \in SUBSET Idle, NEW L \in SUBSET Idle, D \cap L = {},
           Idle' = Idle \ (D \cup L), Started' = Started \ D, dying' = dying,
           Held' = Held, leaseHolder' = leaseHolder
    PROVE  Lease!Evict(D, L)
<1>1. \A c \in D \cup L : c \in Containers /\ leasePhase[c] = "idle"
  BY PhasesDisjoint, TypeFacts DEF Structure, leasePhase
<1>2. leasePhase' = [c \in Containers |-> IF c \in D THEN "absent"
                                          ELSE IF c \in L THEN "stranded"
                                          ELSE leasePhase[c]]
  BY PhasesDisjoint, NextPhases DEF leasePhase
<1> QED  BY <1>1, <1>2 DEF Lease!Evict

(* Every step of the pool is a step of the leases.                         *)
LEMMA LeaseStep ==
    ASSUME Structure, Structure', [Next]_vars
    PROVE  Lease!Next \/ UNCHANGED Lease!vars
<1> USE SetsAssumption
<1>0. TypeOK /\ TypeOK' /\ Idle \subseteq Containers /\ Held \subseteq Containers
  BY TypeFacts DEF Structure
<1>1. ASSUME NEW w \in Clients, NEW d \in Descs, AcquireWarmContainer(w, d)
      PROVE  Lease!Next
  <2>1. PICK c \in ready[NameOf[d]] :
           /\ getWarmContainer(NameOf[d], c)
           /\ client' = [client EXCEPT ![w] =
                            [st |-> "running", fun |-> d, cont |-> c]]
    BY <1>1 DEF AcquireWarmContainer
  <2>2. NameOf[d] \in Names /\ c \in Idle /\ c \in Containers /\ c \notin Held
    BY <1>0, DemandAssumption, PhasesDisjoint DEF Idle
  <2>3. Idle' = Idle \ {c}
    BY <1>0, <2>1, <2>2 DEF getWarmContainer, Idle, TypeOK, Structure, ListsDisjoint
  <2>4. Started' = Started /\ dying' = dying /\ client[w].st # "running"
    BY <1>1 DEF AcquireWarmContainer, Started, dockerVars
  <2>5. /\ Held' = Held \cup {c}
        /\ leaseHolder' = [leaseHolder EXCEPT ![c] = {w}]
        /\ \A b \in Containers : w \notin leaseHolder[b]
    BY <1>0, <2>1, <2>2, <2>4, HolderJoins DEF TypeOK
  <2>6. leasePhase[c] = "idle" /\ c \in Started /\ c \notin dying
    BY <2>2, PhasesDisjoint DEF leasePhase
  <2>7. leasePhase' = [leasePhase EXCEPT ![c] = "leased"]
    BY <2>2, <2>3, <2>4, <2>5, <2>6, NextPhases DEF leasePhase
  <2> QED  BY <2>2, <2>5, <2>6, <2>7 DEF Lease!Next, Lease!Grant
<1>2. ASSUME NEW w \in Clients, NEW d \in Descs, AcquireWarmOutOfCPU(w, d)
      PROVE  Lease!Next
  <2>1. PICK c \in ready[NameOf[d]] : getWarmContainer(NameOf[d], c)
    BY <1>2 DEF AcquireWarmOutOfCPU
  <2>2. NameOf[d] \in Names /\ c \in Idle
    BY <1>0, DemandAssumption DEF Idle
  <2>3. Idle' = Idle \ {c}
    BY <1>0, <2>1, <2>2 DEF getWarmContainer, Idle, TypeOK, Structure, ListsDisjoint
  <2>4. Started' = Started /\ dying' = dying /\ client' = client
    BY <1>2 DEF AcquireWarmOutOfCPU, Started, dockerVars
  <2>5. Lease!Evict({}, {c})
    BY <2>2, <2>3, <2>4, HoldersStay, EvictStep
  <2> QED  BY <1>0, <2>2, <2>5 DEF Lease!Next
<1>3. ASSUME NEW w \in Clients, NEW d \in Descs, AcquireAborted(w, d)
      PROVE  Lease!Next
  <2>1. PICK B \in SUBSET Idle : \E c \in Idle \ B :
           Forget(B \cup {c}) /\ Destroy(B)
    BY <1>3 DEF AcquireAborted
  <2>2. PICK c \in Idle \ B : Forget(B \cup {c})
    BY <2>1
  <2>3. Idle' = Idle \ (B \cup {c})
    BY <2>2 DEF Forget, Idle
  <2>4. Started' = Started \ B
    BY <2>1 DEF Destroy, Started
  <2>5. dying' = dying /\ client' = client
    BY <1>3 DEF AcquireAborted
  <2>6. Lease!Evict(B, {c})
    BY <2>2, <2>3, <2>4, <2>5, HoldersStay, EvictStep
  <2> QED  BY <1>0, <2>2, <2>6 DEF Lease!Next
<1>4. ASSUME NEW w \in Clients, NEW d \in Descs,
             NEW stage \in {"starting", "prewarming"},
             AcquireResources(w, d, stage)
      PROVE  UNCHANGED Lease!vars
  <2>1. /\ client[w].st # "running" /\ client'[w].st # "running"
        /\ \A v \in Clients \ {w} : client'[v] = client[v]
    BY <1>0, <1>4 DEF AcquireResources, Begin, TypeOK
  <2>2. Idle' = Idle /\ Started' = Started /\ dying' = dying
    BY <1>4 DEF AcquireResources, Idle, Started, dockerVars
  <2>3. Held' = Held /\ leaseHolder' = leaseHolder
    BY <2>1, HolderAbsent
  <2>4. leasePhase' = leasePhase
    BY <2>2, <2>3, NextPhases DEF leasePhase
  <2> QED  BY <2>3, <2>4 DEF Lease!vars
<1>5. ASSUME NEW w \in Clients, NEW d \in Descs,
             NEW stage \in {"starting", "prewarming"},
             AcquireByDismissing(w, d, stage)
      PROVE  Lease!Next
  <2>1. PICK V \in SUBSET Idle : Forget(V) /\ Destroy(V)
    BY <1>5 DEF AcquireByDismissing
  <2>2. /\ client[w].st # "running" /\ client'[w].st # "running"
        /\ \A v \in Clients \ {w} : client'[v] = client[v]
    BY <1>0, <1>5 DEF AcquireByDismissing, Begin, TypeOK
  <2>3. Idle' = Idle \ (V \cup {})
    BY <2>1 DEF Forget, Idle
  <2>4. Started' = Started \ V /\ dying' = dying
    BY <1>5, <2>1 DEF Destroy, Started, AcquireByDismissing
  <2>5. Lease!Evict(V, {})
    BY <2>2, <2>3, <2>4, HolderAbsent, EvictStep
  <2> QED  BY <1>0, <2>5 DEF Lease!Next
<1>6. ASSUME NEW w \in Clients, ColdStart(w)
      PROVE  Lease!Next
  <2>1. PICK c \in Containers :
           /\ StartContainer(c, client[w].fun)
           /\ client' = [client EXCEPT ![w].st = "running", ![w].cont = c]
    BY <1>6 DEF ColdStart
  <2>2. c \notin Started /\ c \notin Idle \cup Held \cup dying
    BY <2>1, PhasesDisjoint DEF StartContainer, Fresh, Started
  <2>3. Started' = Started \cup {c}
    BY <1>0, <2>1 DEF StartContainer, Started, TypeOK
  <2>4. dying' = dying /\ Idle' = Idle /\ client[w].st # "running"
    BY <1>6 DEF ColdStart, Idle
  <2>5. /\ Held' = Held \cup {c}
        /\ leaseHolder' = [leaseHolder EXCEPT ![c] = {w}]
        /\ \A b \in Containers : w \notin leaseHolder[b]
    BY <1>0, <2>1, <2>2, <2>4, HolderJoins DEF TypeOK
  <2>6. leasePhase[c] = "absent"
    BY <2>2 DEF leasePhase
  <2>7. leasePhase' = [leasePhase EXCEPT ![c] = "leased"]
    BY <2>2, <2>3, <2>4, <2>5, NextPhases DEF leasePhase
  <2> QED  BY <2>5, <2>6, <2>7 DEF Lease!Next, Lease!Grant
<1>7. ASSUME NEW w \in Clients, PrewarmDone(w)
      PROVE  Lease!Next
  <2>1. PICK c \in Containers : StartContainer(c, client[w].fun)
    BY <1>7 DEF PrewarmDone
  <2>2. c \notin Started /\ c \notin Idle \cup Held \cup dying
    BY <2>1, PhasesDisjoint DEF StartContainer, Fresh, Started
  <2>3. Started' = Started \cup {c}
    BY <1>0, <2>1 DEF StartContainer, Started, TypeOK
  <2>4. dying' = dying /\ Idle' = Idle
    BY <1>7 DEF PrewarmDone, Idle
  <2>5. /\ client[w].st # "running" /\ client'[w].st # "running"
        /\ \A v \in Clients \ {w} : client'[v] = client[v]
    BY <1>0, <1>7 DEF PrewarmDone, NoClient, TypeOK
  <2>6. Held' = Held /\ leaseHolder' = leaseHolder
    BY <2>5, HolderAbsent
  <2>7. leasePhase[c] = "absent"
    BY <2>2 DEF leasePhase
  <2>8. leasePhase' = [b \in Containers |-> IF b \in {c} THEN "stranded"
                                                         ELSE leasePhase[b]]
    BY <2>2, <2>3, <2>4, <2>6, NextPhases DEF leasePhase
  <2> QED  BY <2>6, <2>7, <2>8 DEF Lease!Next, Lease!Strand, Lease!Move
<1>8. ASSUME NEW w \in Clients, ColdStartFails(w)
      PROVE  UNCHANGED Lease!vars
  <2>1. /\ client[w].st # "running" /\ client'[w].st # "running"
        /\ \A v \in Clients \ {w} : client'[v] = client[v]
    BY <1>0, <1>8 DEF ColdStartFails, NoClient, TypeOK
  <2>2. Started' = Started
    BY <1>0, <1>8 DEF ColdStartFails, Fresh, Started, TypeOK
  <2>3. Idle' = Idle /\ dying' = dying
    BY <1>8 DEF ColdStartFails, Idle
  <2>4. Held' = Held /\ leaseHolder' = leaseHolder
    BY <2>1, HolderAbsent
  <2>5. leasePhase' = leasePhase
    BY <2>2, <2>3, <2>4, NextPhases DEF leasePhase
  <2> QED  BY <2>4, <2>5 DEF Lease!vars
<1>9. ASSUME NEW w \in Clients, ReleaseContainer(w, client[w].fun)
      PROVE  Lease!Next
  <2> DEFINE c == client[w].cont
             n == NameOf[client[w].fun]
  <2>1. /\ client[w].st = "running" /\ n \in Names
        /\ c \in Containers /\ c \in Held
    BY <1>0, <1>9, DemandAssumption DEF ReleaseContainer, TypeOK, Held, At
  <2>2. Started' = Started /\ dying' = dying
    BY <1>9 DEF ReleaseContainer, Started, dockerVars
  <2>3. Idle' = Idle \cup {c}
    BY <1>0, <1>9, <2>1 DEF ReleaseContainer, Idle, TypeOK
  <2>4. client' = [client EXCEPT ![w] = NoClient]
    BY <1>9 DEF ReleaseContainer
  <2>5. At({"running"})' = At({"running"}) \ {w}
        /\ \A v \in Clients \ {w} : client'[v] = client[v]
    BY <1>0, <2>4 DEF At, NoClient, TypeOK
  <2>6. \A v \in At({"running"}) \ {w} : client[v].cont # c
    BY <2>1 DEF Structure, ExclusiveLease, At
  <2>7. Held' = Held \ {c}
    BY <2>5, <2>6 DEF Held, At
  <2>8. leaseHolder' = [leaseHolder EXCEPT ![c] = {}]
    <3>1. \A b \in Containers \ {c} : leaseHolder'[b] = leaseHolder[b]
      BY <2>1, <2>5 DEF leaseHolder, Holder, At
    <3>2. leaseHolder'[c] = {}
      BY <2>1, <2>5, <2>6 DEF leaseHolder, Holder, At
    <3> QED  BY <3>1, <3>2 DEF leaseHolder
  <2>9. leasePhase[c] = "leased" /\ c \in Started /\ c \notin dying
    BY <2>1, PhasesDisjoint DEF leasePhase
  <2>10. leasePhase' = [leasePhase EXCEPT ![c] = "idle"]
    BY <2>1, <2>2, <2>3, <2>7, <2>9, NextPhases DEF leasePhase
  <2> QED  BY <2>1, <2>8, <2>9, <2>10 DEF Lease!Next, Lease!Return
<1>10. ASSUME NEW c \in Containers, Expire(c) \/ Exit(c)
       PROVE  UNCHANGED Lease!vars
  <2>1. client' = client /\ dying' = dying /\ Idle' = Idle
    BY <1>10 DEF Expire, Exit, poolVars, Idle
  <2>2. Started' = Started
    BY <1>0, <1>10 DEF Expire, Exit, Started, dockerVars, TypeOK
  <2>3. leasePhase' = leasePhase
    BY <2>1, <2>2, HoldersStay, NextPhases DEF leasePhase
  <2> QED  BY <2>1, <2>3, HoldersStay DEF Lease!vars
<1>11. ASSUME NEW c \in Containers, DestroyDying(c)
       PROVE  Lease!Next
  <2>1. /\ c \in dying /\ dying' = dying \ {c} /\ client' = client /\ Idle' = Idle
        /\ c \notin Held \cup Idle
    BY <1>11, PhasesDisjoint DEF DestroyDying, Idle
  <2>2. leasePhase[c] = "doomed"
    BY <2>1, PhasesDisjoint DEF leasePhase
  <2>3. Started' = Started \ {c} \/ Started' = Started
    BY <1>11 DEF DestroyDying, Destroy, Started
  <2>4. PICK p \in {"absent", "stranded"} :
           leasePhase' = [b \in Containers |-> IF b \in {c} THEN p
                                                            ELSE leasePhase[b]]
    <3>1. CASE Started' = Started \ {c}
      BY <2>1, <3>1, HoldersStay, NextPhases DEF leasePhase
    <3>2. CASE Started' = Started
      <4>1. c \in Started
        BY <2>1, PhasesDisjoint
      <4> QED  BY <2>1, <3>2, <4>1, HoldersStay, NextPhases DEF leasePhase
    <3> QED  BY <2>3, <3>1, <3>2
  <2> QED  BY <2>1, <2>2, <2>4, HoldersStay DEF Lease!Next, Lease!Bury, Lease!Move
<1>12. ASSUME NEW n \in Names, ShutdownWarmContainersFor(n)
       PROVE  Lease!Next
  <2>1. ready[n] \subseteq Idle
    BY DEF Idle
  <2>2. /\ client' = client /\ Started' = Started
        /\ dying' = dying \cup ready[n]
    BY <1>12 DEF ShutdownWarmContainersFor, Started, dockerVars
  <2>3. Idle' = Idle \ ready[n]
    BY <1>12 DEF ShutdownWarmContainersFor, Forget, Idle
  <2>4. \A c \in ready[n] : c \in Containers /\ leasePhase[c] = "idle"
    BY <1>0, <2>1, PhasesDisjoint DEF leasePhase
  <2>5. leasePhase' = [c \in Containers |-> IF c \in ready[n] THEN "doomed"
                                                              ELSE leasePhase[c]]
    BY <2>1, <2>2, <2>3, PhasesDisjoint, HoldersStay, NextPhases DEF leasePhase
  <2>6. Lease!Doom(ready[n])
    BY <2>2, <2>4, <2>5, HoldersStay DEF Lease!Doom, Lease!Move
  <2> QED  BY <1>0, <2>1, <2>6 DEF Lease!Next
<1>13. ASSUME DeleteExpiredContainer
       PROVE  Lease!Next
  <2>1. PICK failed \in SUBSET stale : Destroy(stale \ failed)
    BY <1>13 DEF DeleteExpiredContainer
  <2>2. client' = client /\ dying' = dying /\ stale \subseteq Idle
    BY <1>13, PhasesDisjoint DEF DeleteExpiredContainer
  <2>3. Idle' = Idle \ ((stale \ failed) \cup failed)
    BY <1>13 DEF DeleteExpiredContainer, Forget, Idle
  <2>4. Started' = Started \ (stale \ failed)
    BY <2>1 DEF Destroy, Started
  <2>5. Lease!Evict(stale \ failed, failed)
    BY <2>2, <2>3, <2>4, HoldersStay, EvictStep
  <2> QED  BY <1>0, <2>2, <2>5 DEF Lease!Next
<1>14. CASE UNCHANGED vars
  <2>1. /\ client' = client /\ dying' = dying /\ Idle' = Idle
        /\ Started' = Started
    BY <1>14 DEF vars, poolVars, dockerVars, Idle, Started
  <2>2. leasePhase' = leasePhase
    BY <2>1, HoldersStay, NextPhases DEF leasePhase
  <2> QED  BY <2>1, <2>2, HoldersStay DEF Lease!vars
<1> QED  BY <1>1, <1>2, <1>3, <1>4, <1>5, <1>6, <1>7, <1>8, <1>9, <1>10, <1>11,
            <1>12, <1>13, <1>14 DEF Next

(* The pool implements the leases: pool.go grants, takes back and gives up *)
(* containers as ContainerLease says, whatever Docker does.                *)
THEOREM PoolImplementsLease == Spec => LeaseSpec
<1>1. Init => Lease!Init
  BY DEF Init, Lease!Init, leasePhase, leaseHolder, Holder, Held, At, NoClient,
         Idle, Started
<1>2. Structure /\ Structure' /\ [Next]_vars => [Lease!Next]_Lease!vars
  BY LeaseStep
<1> QED  BY <1>1, <1>2, StructureHolds, PTL DEF Spec, LeaseSpec, Lease!Spec
=============================================================================
