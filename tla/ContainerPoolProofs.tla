------------------------ MODULE ContainerPoolProofs ------------------------
(***************************************************************************)
(* Theorems about ContainerPool, for every value of its constants.         *)
(***************************************************************************)
EXTENDS ContainerPool, FiniteSetTheorems, TLAPS

-----------------------------------------------------------------------------
(* Sums as sets of cells.                                                  *)

(* A sum over a finite set is a number.                                    *)
LEMMA TotalType ==
    ASSUME NEW S, IsFiniteSet(S), NEW L, NEW W
    PROVE  IsFiniteSet(Cells(S, L, W)) /\ Total(S, L, W) \in Nat
<1>1. IsFiniteSet(1 .. MaxDemand)
  BY FS_Interval, DemandAssumption
<1>2. IsFiniteSet(S \X (1 .. MaxDemand))
  BY <1>1, FS_Product
<1>3. IsFiniteSet(Cells(S, L, W))
  BY <1>2, FS_Subset DEF Cells
<1> QED  BY <1>3, FS_CardinalityType DEF Total

(* The empty sum.                                                          *)
LEMMA TotalEmpty ==
    ASSUME NEW L, NEW W
    PROVE  Total({}, L, W) = 0
<1>1. Cells({}, L, W) = {}
  BY DEF Cells
<1> QED  BY <1>1, FS_EmptySet DEF Total

(* The sum over two sets without a common member.                          *)
LEMMA TotalUnion ==
    ASSUME NEW S, IsFiniteSet(S), NEW T, IsFiniteSet(T), S \cap T = {},
           NEW L, NEW W
    PROVE  Total(S \cup T, L, W) = Total(S, L, W) + Total(T, L, W)
<1>1. Cells(S \cup T, L, W) = Cells(S, L, W) \cup Cells(T, L, W)
  BY DEF Cells
<1>2. Cells(S, L, W) \cap Cells(T, L, W) = {}
  BY DEF Cells
<1>3. IsFiniteSet(Cells(S, L, W)) /\ IsFiniteSet(Cells(T, L, W))
  BY TotalType
<1>4. Cardinality(Cells(S, L, W) \cup Cells(T, L, W))
        = Cardinality(Cells(S, L, W)) + Cardinality(Cells(T, L, W))
          - Cardinality(Cells(S, L, W) \cap Cells(T, L, W))
  BY <1>3, FS_Union
<1>5. Cardinality(Cells(S, L, W) \cap Cells(T, L, W)) = 0
  BY <1>2, FS_EmptySet, Zenon
<1>6. Total(S, L, W) \in Nat /\ Total(T, L, W) \in Nat
  BY TotalType
<1>7. Total(S \cup T, L, W) = Total(S, L, W) + Total(T, L, W) - 0
  BY <1>1, <1>4, <1>5, Zenon DEF Total
<1> QED  BY <1>6, <1>7

(* The first n cells are n.                                                *)
LEMMA IntervalSize ==
    ASSUME NEW n \in Nat
    PROVE  IsFiniteSet(1 .. n) /\ Cardinality(1 .. n) = n
<1>1. IsFiniteSet(1 .. n) /\ Cardinality(1 .. n) = IF 1 > n THEN 0 ELSE n - 1 + 1
  BY FS_Interval
<1> QED  BY <1>1

(* The sum over one element is its weight.                                 *)
LEMMA TotalSingleton ==
    ASSUME NEW s, NEW L, NEW W, W[L[s]] \in 0 .. MaxDemand
    PROVE  Total({s}, L, W) = W[L[s]]
<1>1. {i \in 1 .. MaxDemand : i <= W[L[s]]} = 1 .. W[L[s]]
  BY DemandAssumption
<1>2. Cells({s}, L, W) = {s} \X (1 .. W[L[s]])
  <2>1. \A x \in {s} \X (1 .. MaxDemand) :
           x[2] <= W[L[x[1]]] <=> x[2] \in {i \in 1 .. MaxDemand : i <= W[L[s]]}
    OBVIOUS
  <2>2. \A x : x \in Cells({s}, L, W)
                <=> x \in {s} \X {i \in 1 .. MaxDemand : i <= W[L[s]]}
    BY <2>1 DEF Cells
  <2> QED  BY <1>1, <2>2
<1>3. IsFiniteSet({s}) /\ Cardinality({s}) = 1
  BY FS_Singleton
<1>4. W[L[s]] \in Nat
  BY DemandAssumption
<1>5. IsFiniteSet(1 .. W[L[s]]) /\ Cardinality(1 .. W[L[s]]) = W[L[s]]
  BY <1>4, IntervalSize
<1>6. Cardinality({s} \X (1 .. W[L[s]])) = 1 * W[L[s]]
  BY <1>3, <1>5, FS_Product
<1>7. Total({s}, L, W) = 1 * W[L[s]]
  BY <1>2, <1>6, Zenon DEF Total
<1> QED  BY <1>4, <1>7

(* Adding a member adds its weight.                                        *)
LEMMA TotalAdd ==
    ASSUME NEW S, IsFiniteSet(S), NEW s, s \notin S,
           NEW L, NEW W, W[L[s]] \in 0 .. MaxDemand
    PROVE  Total(S \cup {s}, L, W) = Total(S, L, W) + W[L[s]]
<1>1. IsFiniteSet({s}) /\ S \cap {s} = {}
  BY FS_Singleton
<1>2. Total(S \cup {s}, L, W) = Total(S, L, W) + Total({s}, L, W)
  BY <1>1, TotalUnion
<1> QED  BY <1>2, TotalSingleton

(* Taking a part away subtracts its sum.                                   *)
LEMMA TotalDifference ==
    ASSUME NEW S, IsFiniteSet(S), NEW T, T \subseteq S, NEW L, NEW W
    PROVE  Total(S \ T, L, W) = Total(S, L, W) - Total(T, L, W)
<1>1. IsFiniteSet(T) /\ IsFiniteSet(S \ T)
  BY FS_Subset
<1>2. (S \ T) \cup T = S /\ (S \ T) \cap T = {}
  OBVIOUS
<1>3. Total(S, L, W) = Total(S \ T, L, W) + Total(T, L, W)
  BY <1>1, <1>2, TotalUnion
<1>4. Total(S \ T, L, W) \in Nat /\ Total(T, L, W) \in Nat
  BY <1>1, TotalType
<1> QED  BY <1>3, <1>4

(* Only the weights of the members count.                                  *)
LEMMA TotalSame ==
    ASSUME NEW S, NEW L, NEW M, NEW W, \A s \in S : W[L[s]] = W[M[s]]
    PROVE  Total(S, L, W) = Total(S, M, W)
<1>1. Cells(S, L, W) = Cells(S, M, W)
  BY DEF Cells
<1> QED  BY <1>1 DEF Total

-----------------------------------------------------------------------------
(* Type correctness.                                                       *)

\* What the parts of the state are when the types hold.
LEMMA TypeFacts ==
    ASSUME TypeOK
    PROVE  /\ Idle \subseteq Containers
           /\ Busy \subseteq Containers
           /\ Held \subseteq Containers
           /\ Started \subseteq Containers
           /\ IsFiniteSet(Idle) /\ IsFiniteSet(Started) /\ IsFiniteSet(Charged)
           /\ IsFiniteSet(Starting) /\ IsFiniteSet(Active)
           /\ IsFiniteSet(prewarmed) /\ IsFiniteSet(stale)
<1>1. Idle \subseteq Containers /\ Busy \subseteq Containers
  BY DEF TypeOK, Idle, Busy
<1>2. Held \subseteq Containers
  BY DEF TypeOK, Held, At
<1>3. Started \subseteq Containers /\ Charged \subseteq Containers
  BY DEF Started, Charged
<1>4. Starting \subseteq Clients /\ Active \subseteq Clients
  BY DEF Starting, Active, At
<1>5. prewarmed \subseteq Containers /\ stale \subseteq Containers
  BY DEF TypeOK
<1> QED  BY <1>1, <1>2, <1>3, <1>4, <1>5, FS_Subset, SetsAssumption

\* A sum over some containers is a number.
LEMMA ContainerTotalType ==
    ASSUME NEW S \in SUBSET Containers, NEW L, NEW W
    PROVE  IsFiniteSet(S) /\ Total(S, L, W) \in Nat
<1>1. IsFiniteSet(S)
  BY FS_Subset, SetsAssumption
<1> QED  BY <1>1, TotalType

(* A release keeps the types, whatever function it names.                  *)
LEMMA ReleaseTyped ==
    ASSUME TypeOK, NEW w \in Clients, NEW d \in Descs, ReleaseContainer(w, d)
    PROVE  TypeOK'
<1> USE SetsAssumption, DemandAssumption
<1>1. client[w].cont \in Containers
  BY DEF TypeOK, ReleaseContainer
<1>2. CpuOf[d] \in Int
  OBVIOUS
<1>3. ready' \in [Names -> SUBSET Containers] /\ busy' \in [Names -> SUBSET Containers]
  BY <1>1 DEF TypeOK, ReleaseContainer
<1> QED  BY <1>2, <1>3 DEF TypeOK, Stages, ReleaseContainer, NoClient, dockerVars

(* Every step keeps the types.                                             *)
LEMMA TypeStep ==
    ASSUME TypeOK, [Next]_vars
    PROVE  TypeOK'
<1> USE SetsAssumption, DemandAssumption
<1>1. ASSUME NEW w \in Clients, NEW d \in Descs, AcquireWarmContainer(w, d)
      PROVE  TypeOK'
  BY <1>1 DEF TypeOK, Stages, AcquireWarmContainer, getWarmContainer, dockerVars
<1>2. ASSUME NEW w \in Clients, NEW d \in Descs, AcquireWarmOutOfCPU(w, d)
      PROVE  TypeOK'
  BY <1>2 DEF TypeOK, Stages, AcquireWarmOutOfCPU, getWarmContainer, dockerVars
<1>3. ASSUME NEW w \in Clients, NEW d \in Descs, AcquireAborted(w, d)
      PROVE  TypeOK'
  <2>1. PICK B \in SUBSET Idle, c \in Idle :
           /\ Forget(B \cup {c})
           /\ Destroy(B)
           /\ availMem' = availMem + Total(B, image, MemOf)
    BY <1>3 DEF AcquireAborted
  <2>2. Total(B, image, MemOf) \in Nat
    BY TypeFacts, ContainerTotalType
  <2> QED  BY <1>3, <2>1, <2>2
           DEF TypeOK, Stages, AcquireAborted, Forget, Destroy
<1>4. ASSUME NEW w \in Clients, NEW d \in Descs,
             NEW stage \in {"starting", "prewarming"},
             AcquireResources(w, d, stage)
      PROVE  TypeOK'
  BY <1>4 DEF TypeOK, Stages, AcquireResources, Begin, dockerVars
<1>5. ASSUME NEW w \in Clients, NEW d \in Descs,
             NEW stage \in {"starting", "prewarming"},
             AcquireByDismissing(w, d, stage)
      PROVE  TypeOK'
  <2>1. PICK V \in SUBSET Idle :
           /\ Forget(V)
           /\ Destroy(V)
           /\ availMem' = availMem + Total(V, image, MemOf) - MemOf[d]
    BY <1>5 DEF AcquireByDismissing
  <2>2. Total(V, image, MemOf) \in Nat
    BY TypeFacts, ContainerTotalType
  <2> QED  BY <1>5, <2>1, <2>2
           DEF TypeOK, Stages, AcquireByDismissing, Begin, Forget, Destroy
<1>6. ASSUME NEW w \in Clients, ColdStart(w)
      PROVE  TypeOK'
  BY <1>6 DEF TypeOK, Stages, ColdStart, StartContainer, Fresh
<1>7. ASSUME NEW w \in Clients, PrewarmDone(w)
      PROVE  TypeOK'
  BY <1>7 DEF TypeOK, Stages, PrewarmDone, StartContainer, Fresh, NoClient
<1>8. ASSUME NEW w \in Clients, ColdStartFails(w)
      PROVE  TypeOK'
  <2>1. client[w].fun \in Descs
    BY <1>8 DEF TypeOK, ColdStartFails
  <2>2. CpuOf[client[w].fun] \in Int /\ MemOf[client[w].fun] \in Int
    BY <2>1
  <2>3. docker' \in [Containers -> {"absent", "created", "running", "exited"}]
    BY <1>8 DEF TypeOK, ColdStartFails, Fresh
  <2> QED  BY <1>8, <2>2, <2>3 DEF TypeOK, Stages, ColdStartFails, NoClient
<1>9. ASSUME NEW w \in Clients, ReleaseContainer(w, client[w].fun)
      PROVE  TypeOK'
  <2>1. client[w].fun \in Descs
    BY <1>9 DEF TypeOK, ReleaseContainer
  <2> QED  BY <1>9, <2>1, ReleaseTyped
<1>10. ASSUME NEW c \in Containers, Expire(c)
       PROVE  TypeOK'
  BY <1>10 DEF TypeOK, Stages, Expire, dockerVars
<1>11. ASSUME NEW c \in Containers, DestroyDying(c)
       PROVE  TypeOK'
  BY <1>11 DEF TypeOK, Stages, DestroyDying, Destroy
<1>12. ASSUME NEW c \in Containers, Exit(c)
       PROVE  TypeOK'
  BY <1>12 DEF TypeOK, Stages, Exit, poolVars
<1>13. ASSUME NEW n \in Names, ShutdownWarmContainersFor(n)
       PROVE  TypeOK'
  <2>1. ready[n] \in SUBSET Containers /\ Total(ready[n], image, MemOf) \in Nat
    BY ContainerTotalType DEF TypeOK
  <2> QED  BY <1>13, <2>1
           DEF TypeOK, Stages, ShutdownWarmContainersFor, Forget, dockerVars
<1>14. ASSUME DeleteExpiredContainer
       PROVE  TypeOK'
  <2>1. Total(stale, image, MemOf) \in Nat
    BY ContainerTotalType DEF TypeOK
  <2> QED  BY <1>14, <2>1 DEF TypeOK, Stages, DeleteExpiredContainer, Forget, Destroy
<1>15. CASE UNCHANGED vars
  BY <1>15 DEF TypeOK, Stages, vars, poolVars, dockerVars
<1> QED  BY <1>1, <1>2, <1>3, <1>4, <1>5, <1>6, <1>7, <1>8, <1>9, <1>10, <1>11,
            <1>12, <1>13, <1>14, <1>15 DEF Next

(* The state has its types in every reachable state.                       *)
THEOREM TypeCorrect == Spec => []TypeOK
<1>1. Init => TypeOK
  BY SetsAssumption, DemandAssumption DEF Init, TypeOK, Stages, NoClient
<1> QED  BY <1>1, TypeStep, PTL DEF Spec

(* The inductive invariant: no part of it is inductive without the others. *)
(* An acquisition keeps the leases exclusive because the lists do not      *)
(* overlap, and those because a new id is one that nothing refers to.      *)
Structure == TypeOK /\ ListsDisjoint /\ ExclusiveLease /\ NoDangling /\ PoolHasOwnName

(* Every step keeps the structure.                                         *)
LEMMA StructureStep ==
    ASSUME Structure, [Next]_vars
    PROVE  (ListsDisjoint /\ ExclusiveLease /\ NoDangling /\ PoolHasOwnName)'
<1> USE SetsAssumption, DemandAssumption
<1>0. TypeOK /\ TypeOK'
  BY TypeStep DEF Structure
<1>1. ASSUME NEW w \in Clients, NEW d \in Descs, AcquireWarmContainer(w, d)
      PROVE  (ListsDisjoint /\ ExclusiveLease /\ NoDangling /\ PoolHasOwnName)'
  <2>1. ListsDisjoint'
    BY <1>0, <1>1 DEF Structure, TypeOK, ListsDisjoint, NoDangling, Idle, Busy, AcquireWarmContainer, getWarmContainer, dockerVars
  <2>2. ExclusiveLease'
    <3>1. PICK c \in ready[NameOf[d]] :
             /\ busy' = [busy EXCEPT ![NameOf[d]] = @ \cup {c}]
             /\ client' = [client EXCEPT ![w] =
                              [st |-> "running", fun |-> d, cont |-> c]]
             /\ prewarmed' = prewarmed
      BY <1>1 DEF AcquireWarmContainer, getWarmContainer
    <3>2. c \notin Busy
      BY DEF Structure, ListsDisjoint, TypeOK, Busy
    <3>3. c \notin prewarmed /\ \A v \in At({"running"}) : client[v].cont # c
      BY <3>2 DEF Structure, TypeOK, NoDangling, ExclusiveLease, Busy, At
    <3>4. At({"running"})' = At({"running"}) \cup {w}
      BY <3>1 DEF At, Structure, TypeOK
    <3>5. \A v \in Clients \ {w} : client'[v] = client[v]
      BY <3>1 DEF Structure, TypeOK
    <3>6. client'[w].cont = c /\ client'[w].fun = d
      BY <3>1 DEF Structure, TypeOK
    <3>7. \A n \in Names : busy[n] \subseteq busy'[n]
      BY <3>1 DEF Structure, TypeOK
    <3>8. c \in busy'[NameOf[d]]
      BY <3>1 DEF Structure, TypeOK
    <3>9. \A v \in At({"running"}) \ {w} :
             client[v].cont \in busy[NameOf[client[v].fun]] /\ client[v].fun \in Descs
      BY DEF Structure, TypeOK, ExclusiveLease, At
    <3> QED  BY <3>1, <3>3, <3>4, <3>5, <3>6, <3>7, <3>8, <3>9
             DEF Structure, ExclusiveLease, At
  <2>3. NoDangling'
    BY <1>0, <1>1 DEF Structure, TypeOK, NoDangling, ExclusiveLease, ListsDisjoint, Idle, Busy, At, Started, Held, AcquireWarmContainer, getWarmContainer, dockerVars
  <2>4. PoolHasOwnName'
    BY <1>0, <1>1 DEF Structure, TypeOK, PoolHasOwnName, ListsDisjoint, NoDangling, ExclusiveLease, At, Idle, Busy, Started, AcquireWarmContainer, getWarmContainer, dockerVars
  <2> QED  BY <2>1, <2>2, <2>3, <2>4
<1>2. ASSUME NEW w \in Clients, NEW d \in Descs, AcquireWarmOutOfCPU(w, d)
      PROVE  (ListsDisjoint /\ ExclusiveLease /\ NoDangling /\ PoolHasOwnName)'
  <2>1. ListsDisjoint'
    BY <1>0, <1>2 DEF Structure, TypeOK, ListsDisjoint, NoDangling, Idle, Busy, AcquireWarmOutOfCPU, getWarmContainer, dockerVars
  <2>2. ExclusiveLease'
    BY <1>0, <1>2 DEF Structure, TypeOK, ExclusiveLease, ListsDisjoint, NoDangling, Idle, Busy, At, Started, AcquireWarmOutOfCPU, getWarmContainer, dockerVars
  <2>3. NoDangling'
    BY <1>0, <1>2 DEF Structure, TypeOK, NoDangling, ExclusiveLease, ListsDisjoint, Idle, Busy, At, Started, Held, AcquireWarmOutOfCPU, getWarmContainer, dockerVars
  <2>4. PoolHasOwnName'
    BY <1>0, <1>2 DEF Structure, TypeOK, PoolHasOwnName, ListsDisjoint, NoDangling, ExclusiveLease, At, Idle, Busy, Started, AcquireWarmOutOfCPU, getWarmContainer, dockerVars
  <2> QED  BY <2>1, <2>2, <2>3, <2>4
<1>3. ASSUME NEW w \in Clients, NEW d \in Descs, AcquireAborted(w, d)
      PROVE  (ListsDisjoint /\ ExclusiveLease /\ NoDangling /\ PoolHasOwnName)'
  <2>1. ListsDisjoint'
    BY <1>0, <1>3 DEF Structure, TypeOK, ListsDisjoint, NoDangling, Idle, Busy, AcquireAborted, Forget, Destroy
  <2>2. ExclusiveLease'
    BY <1>0, <1>3 DEF Structure, TypeOK, ExclusiveLease, ListsDisjoint, NoDangling, Idle, Busy, At, Started, AcquireAborted, Forget, Destroy
  <2>3. NoDangling'
    BY <1>0, <1>3 DEF Structure, TypeOK, NoDangling, ExclusiveLease, ListsDisjoint, Idle, Busy, At, Started, Held, AcquireAborted, Forget, Destroy
  <2>4. PoolHasOwnName'
    BY <1>0, <1>3 DEF Structure, TypeOK, PoolHasOwnName, ListsDisjoint, NoDangling, ExclusiveLease, At, Idle, Busy, Started, AcquireAborted, Forget, Destroy
  <2> QED  BY <2>1, <2>2, <2>3, <2>4
<1>4. ASSUME NEW w \in Clients, NEW d \in Descs,
             NEW stage \in {"starting", "prewarming"}, AcquireResources(w, d, stage)
      PROVE  (ListsDisjoint /\ ExclusiveLease /\ NoDangling /\ PoolHasOwnName)'
  <2>1. ListsDisjoint'
    BY <1>0, <1>4 DEF Structure, TypeOK, ListsDisjoint, NoDangling, Idle, Busy, AcquireResources, Begin, dockerVars
  <2>2. ExclusiveLease'
    BY <1>0, <1>4 DEF Structure, TypeOK, ExclusiveLease, ListsDisjoint, NoDangling, Idle, Busy, At, Started, AcquireResources, Begin, dockerVars
  <2>3. NoDangling'
    BY <1>0, <1>4 DEF Structure, TypeOK, NoDangling, ExclusiveLease, ListsDisjoint, Idle, Busy, At, Started, Held, AcquireResources, Begin, dockerVars
  <2>4. PoolHasOwnName'
    BY <1>0, <1>4 DEF Structure, TypeOK, PoolHasOwnName, ListsDisjoint, NoDangling, ExclusiveLease, At, Idle, Busy, Started, AcquireResources, Begin, dockerVars
  <2> QED  BY <2>1, <2>2, <2>3, <2>4
<1>5. ASSUME NEW w \in Clients, NEW d \in Descs,
             NEW stage \in {"starting", "prewarming"}, AcquireByDismissing(w, d, stage)
      PROVE  (ListsDisjoint /\ ExclusiveLease /\ NoDangling /\ PoolHasOwnName)'
  <2>1. ListsDisjoint'
    BY <1>0, <1>5 DEF Structure, TypeOK, ListsDisjoint, NoDangling, Idle, Busy, AcquireByDismissing, Begin, Forget, Destroy
  <2>2. ExclusiveLease'
    BY <1>0, <1>5 DEF Structure, TypeOK, ExclusiveLease, ListsDisjoint, NoDangling, Idle, Busy, At, Started, AcquireByDismissing, Begin, Forget, Destroy
  <2>3. NoDangling'
    <3>1. PICK V \in SUBSET Idle : Forget(V) /\ Destroy(V)
      BY <1>5 DEF AcquireByDismissing
    <3>2. Idle' = Idle \ V
      BY <3>1 DEF Idle, Forget, Structure, TypeOK
    <3>3. Started' = Started \ V
      BY <3>1 DEF Started, Destroy, Structure, TypeOK
    <3>4. V \cap Busy = {}
      BY <3>1 DEF Structure, TypeOK, ListsDisjoint, Idle, Busy
    <3>5. Busy' = Busy
      BY <1>5 DEF AcquireByDismissing, Busy
    <3> QED  BY <1>5, <3>1, <3>2, <3>3, <3>4, <3>5
             DEF Structure, NoDangling, AcquireByDismissing, Forget
  <2>4. PoolHasOwnName'
    BY <1>0, <1>5 DEF Structure, TypeOK, PoolHasOwnName, ListsDisjoint, NoDangling, ExclusiveLease, At, Idle, Busy, Started, AcquireByDismissing, Begin, Forget, Destroy
  <2> QED  BY <2>1, <2>2, <2>3, <2>4
<1>6. ASSUME NEW w \in Clients, ColdStart(w)
      PROVE  (ListsDisjoint /\ ExclusiveLease /\ NoDangling /\ PoolHasOwnName)'
  <2>1. ListsDisjoint'
    BY <1>0, <1>6 DEF Structure, TypeOK, ListsDisjoint, NoDangling, Idle, Busy, ColdStart, StartContainer, Fresh
  <2>2. ExclusiveLease'
    BY <1>0, <1>6 DEF Structure, TypeOK, ExclusiveLease, ListsDisjoint, NoDangling, Idle, Busy, At, Started, ColdStart, StartContainer, Fresh
  <2>3. NoDangling'
    BY <1>0, <1>6 DEF Structure, TypeOK, NoDangling, ExclusiveLease, ListsDisjoint, Idle, Busy, At, Started, Held, ColdStart, StartContainer, Fresh
  <2>4. PoolHasOwnName'
    BY <1>0, <1>6 DEF Structure, TypeOK, PoolHasOwnName, ListsDisjoint, NoDangling, ExclusiveLease, At, Idle, Busy, Started, ColdStart, StartContainer, Fresh
  <2> QED  BY <2>1, <2>2, <2>3, <2>4
<1>7. ASSUME NEW w \in Clients, PrewarmDone(w)
      PROVE  (ListsDisjoint /\ ExclusiveLease /\ NoDangling /\ PoolHasOwnName)'
  <2>1. ListsDisjoint'
    BY <1>0, <1>7 DEF Structure, TypeOK, ListsDisjoint, NoDangling, Idle, Busy, PrewarmDone, StartContainer, Fresh, NoClient
  <2>2. ExclusiveLease'
    BY <1>0, <1>7 DEF Structure, TypeOK, ExclusiveLease, ListsDisjoint, NoDangling, Idle, Busy, At, Started, PrewarmDone, StartContainer, Fresh, NoClient
  <2>3. NoDangling'
    BY <1>0, <1>7 DEF Structure, TypeOK, NoDangling, ExclusiveLease, ListsDisjoint, Idle, Busy, At, Started, Held, PrewarmDone, StartContainer, Fresh, NoClient
  <2>4. PoolHasOwnName'
    BY <1>0, <1>7 DEF Structure, TypeOK, PoolHasOwnName, ListsDisjoint, NoDangling, ExclusiveLease, At, Idle, Busy, Started, PrewarmDone, StartContainer, Fresh, NoClient
  <2> QED  BY <2>1, <2>2, <2>3, <2>4
<1>8. ASSUME NEW w \in Clients, ColdStartFails(w)
      PROVE  (ListsDisjoint /\ ExclusiveLease /\ NoDangling /\ PoolHasOwnName)'
  <2>1. ListsDisjoint'
    BY <1>0, <1>8 DEF Structure, TypeOK, ListsDisjoint, NoDangling, Idle, Busy, ColdStartFails, Fresh, NoClient
  <2>2. ExclusiveLease'
    BY <1>0, <1>8 DEF Structure, TypeOK, ExclusiveLease, ListsDisjoint, NoDangling, Idle, Busy, At, Started, ColdStartFails, Fresh, NoClient
  <2>3. NoDangling'
    BY <1>0, <1>8 DEF Structure, TypeOK, NoDangling, ExclusiveLease, ListsDisjoint, Idle, Busy, At, Started, Held, ColdStartFails, Fresh, NoClient
  <2>4. PoolHasOwnName'
    BY <1>0, <1>8 DEF Structure, TypeOK, PoolHasOwnName, ListsDisjoint, NoDangling, ExclusiveLease, At, Idle, Busy, Started, ColdStartFails, Fresh, NoClient
  <2> QED  BY <2>1, <2>2, <2>3, <2>4
<1>9. ASSUME NEW w \in Clients, ReleaseContainer(w, client[w].fun)
      PROVE  (ListsDisjoint /\ ExclusiveLease /\ NoDangling /\ PoolHasOwnName)'
  <2>1. ListsDisjoint'
    <3> DEFINE n == NameOf[client[w].fun]
               c == client[w].cont
    <3>1. n \in Names /\ c \in busy[n]
      BY <1>9 DEF Structure, TypeOK, ExclusiveLease, At, ReleaseContainer
    <3>2. /\ busy' = [busy EXCEPT ![n] = @ \ {c}]
          /\ ready' = [ready EXCEPT ![n] = @ \cup {c}]
      BY <1>9 DEF ReleaseContainer
    <3>3. \A m \in Names : ready'[m] \cup busy'[m] = ready[m] \cup busy[m]
      BY <3>1, <3>2 DEF Structure, TypeOK
    <3>4. \A m \in Names : ready'[m] \cap busy'[m] = {}
      BY <3>1, <3>2 DEF Structure, TypeOK, ListsDisjoint
    <3> QED  BY <3>3, <3>4 DEF Structure, ListsDisjoint
  <2>2. ExclusiveLease'
    BY <1>0, <1>9 DEF Structure, TypeOK, ExclusiveLease, ListsDisjoint, NoDangling, Idle, Busy, At, Started, ReleaseContainer, NoClient, dockerVars
  <2>3. NoDangling'
    BY <1>0, <1>9 DEF Structure, TypeOK, NoDangling, ExclusiveLease, ListsDisjoint, Idle, Busy, At, Started, Held, ReleaseContainer, NoClient, dockerVars
  <2>4. PoolHasOwnName'
    BY <1>0, <1>9 DEF Structure, TypeOK, PoolHasOwnName, ListsDisjoint, NoDangling, ExclusiveLease, At, Idle, Busy, Started, ReleaseContainer, NoClient, dockerVars
  <2> QED  BY <2>1, <2>2, <2>3, <2>4
<1>10. ASSUME NEW c \in Containers, Expire(c)
      PROVE  (ListsDisjoint /\ ExclusiveLease /\ NoDangling /\ PoolHasOwnName)'
  <2>1. ListsDisjoint'
    BY <1>0, <1>10 DEF Structure, TypeOK, ListsDisjoint, NoDangling, Idle, Busy, Expire, dockerVars
  <2>2. ExclusiveLease'
    BY <1>0, <1>10 DEF Structure, TypeOK, ExclusiveLease, ListsDisjoint, NoDangling, Idle, Busy, At, Started, Expire, dockerVars
  <2>3. NoDangling'
    BY <1>0, <1>10 DEF Structure, TypeOK, NoDangling, ExclusiveLease, ListsDisjoint, Idle, Busy, At, Started, Held, Expire, dockerVars
  <2>4. PoolHasOwnName'
    BY <1>0, <1>10 DEF Structure, TypeOK, PoolHasOwnName, ListsDisjoint, NoDangling, ExclusiveLease, At, Idle, Busy, Started, Expire, dockerVars
  <2> QED  BY <2>1, <2>2, <2>3, <2>4
<1>11. ASSUME NEW c \in Containers, DestroyDying(c)
      PROVE  (ListsDisjoint /\ ExclusiveLease /\ NoDangling /\ PoolHasOwnName)'
  <2>1. ListsDisjoint'
    BY <1>0, <1>11 DEF Structure, TypeOK, ListsDisjoint, NoDangling, Idle, Busy, DestroyDying, Destroy
  <2>2. ExclusiveLease'
    BY <1>0, <1>11 DEF Structure, TypeOK, ExclusiveLease, ListsDisjoint, NoDangling, Idle, Busy, At, Started, DestroyDying, Destroy
  <2>3. NoDangling'
    BY <1>0, <1>11 DEF Structure, TypeOK, NoDangling, ExclusiveLease, ListsDisjoint, Idle, Busy, At, Started, Held, DestroyDying, Destroy
  <2>4. PoolHasOwnName'
    <3>1. c \notin Idle \cup Busy
      BY <1>11 DEF Structure, NoDangling, DestroyDying
    <3>2. \A b \in Containers \ {c} : image'[b] = image[b] /\ docker'[b] = docker[b]
      BY <1>11 DEF DestroyDying, Destroy
    <3>3. \A b \in Started' : b \in Started /\ image'[b] = image[b]
      BY <1>11 DEF DestroyDying, Destroy, Started
    <3>4. \A n \in Names : \A b \in ready[n] \cup busy[n] : b \in Containers \ {c}
      BY <3>1 DEF Idle, Busy, Structure, TypeOK
    <3>5. ready' = ready /\ busy' = busy
      BY <1>11 DEF DestroyDying
    <3> QED  BY <3>2, <3>3, <3>4, <3>5 DEF Structure, PoolHasOwnName
  <2> QED  BY <2>1, <2>2, <2>3, <2>4
<1>12. ASSUME NEW c \in Containers, Exit(c)
      PROVE  (ListsDisjoint /\ ExclusiveLease /\ NoDangling /\ PoolHasOwnName)'
  <2>1. ListsDisjoint'
    BY <1>0, <1>12 DEF Structure, TypeOK, ListsDisjoint, NoDangling, Idle, Busy, Exit, poolVars
  <2>2. ExclusiveLease'
    BY <1>0, <1>12 DEF Structure, TypeOK, ExclusiveLease, ListsDisjoint, NoDangling, Idle, Busy, At, Started, Exit, poolVars
  <2>3. NoDangling'
    BY <1>0, <1>12 DEF Structure, TypeOK, NoDangling, ExclusiveLease, ListsDisjoint, Idle, Busy, At, Started, Held, Exit, poolVars
  <2>4. PoolHasOwnName'
    BY <1>0, <1>12 DEF Structure, TypeOK, PoolHasOwnName, ListsDisjoint, NoDangling, ExclusiveLease, At, Idle, Busy, Started, Exit, poolVars
  <2> QED  BY <2>1, <2>2, <2>3, <2>4
<1>13. ASSUME NEW n \in Names, ShutdownWarmContainersFor(n)
      PROVE  (ListsDisjoint /\ ExclusiveLease /\ NoDangling /\ PoolHasOwnName)'
  <2>1. ListsDisjoint'
    BY <1>0, <1>13 DEF Structure, TypeOK, ListsDisjoint, NoDangling, Idle, Busy, ShutdownWarmContainersFor, Forget, dockerVars
  <2>2. ExclusiveLease'
    BY <1>0, <1>13 DEF Structure, TypeOK, ExclusiveLease, ListsDisjoint, NoDangling, Idle, Busy, At, Started, ShutdownWarmContainersFor, Forget, dockerVars
  <2>3. NoDangling'
    BY <1>0, <1>13 DEF Structure, TypeOK, NoDangling, ExclusiveLease, ListsDisjoint, Idle, Busy, At, Started, Held, ShutdownWarmContainersFor, Forget, dockerVars
  <2>4. PoolHasOwnName'
    BY <1>0, <1>13 DEF Structure, TypeOK, PoolHasOwnName, ListsDisjoint, NoDangling, ExclusiveLease, At, Idle, Busy, Started, ShutdownWarmContainersFor, Forget, dockerVars
  <2> QED  BY <2>1, <2>2, <2>3, <2>4
<1>14. ASSUME DeleteExpiredContainer
      PROVE  (ListsDisjoint /\ ExclusiveLease /\ NoDangling /\ PoolHasOwnName)'
  <2>1. ListsDisjoint'
    BY <1>0, <1>14 DEF Structure, TypeOK, ListsDisjoint, NoDangling, Idle, Busy, DeleteExpiredContainer, Forget, Destroy
  <2>2. ExclusiveLease'
    BY <1>0, <1>14 DEF Structure, TypeOK, ExclusiveLease, ListsDisjoint, NoDangling, Idle, Busy, At, Started, DeleteExpiredContainer, Forget, Destroy
  <2>3. NoDangling'
    <3>1. PICK failed \in SUBSET stale :
             Destroy(stale \ failed) /\ zombie' = zombie \cup failed
      BY <1>14 DEF DeleteExpiredContainer
    <3>2. Idle' = Idle \ stale
      BY <1>14 DEF DeleteExpiredContainer, Idle, Forget, Structure, TypeOK
    <3>3. Started' = Started \ (stale \ failed)
      BY <3>1 DEF Started, Destroy, Structure, TypeOK
    <3>4. stale \cap Busy = {}
      BY DEF Structure, TypeOK, ListsDisjoint, NoDangling, Idle, Busy
    <3>5. Busy' = Busy
      BY <1>14 DEF DeleteExpiredContainer, Busy
    <3> QED  BY <1>14, <3>1, <3>2, <3>3, <3>4, <3>5
             DEF Structure, NoDangling, DeleteExpiredContainer, Forget
  <2>4. PoolHasOwnName'
    BY <1>0, <1>14 DEF Structure, TypeOK, PoolHasOwnName, ListsDisjoint, NoDangling, ExclusiveLease, At, Idle, Busy, Started, DeleteExpiredContainer, Forget, Destroy
  <2> QED  BY <2>1, <2>2, <2>3, <2>4
<1>15. ASSUME UNCHANGED vars
      PROVE  (ListsDisjoint /\ ExclusiveLease /\ NoDangling /\ PoolHasOwnName)'
  <2>1. ListsDisjoint'
    BY <1>0, <1>15 DEF Structure, TypeOK, ListsDisjoint, NoDangling, Idle, Busy, vars, poolVars, dockerVars
  <2>2. ExclusiveLease'
    BY <1>0, <1>15 DEF Structure, TypeOK, ExclusiveLease, ListsDisjoint, NoDangling, Idle, Busy, At, Started, vars, poolVars, dockerVars
  <2>3. NoDangling'
    BY <1>0, <1>15 DEF Structure, TypeOK, NoDangling, ExclusiveLease, ListsDisjoint, Idle, Busy, At, Started, Held, vars, poolVars, dockerVars
  <2>4. PoolHasOwnName'
    BY <1>0, <1>15 DEF Structure, TypeOK, PoolHasOwnName, ListsDisjoint, NoDangling, ExclusiveLease, At, Idle, Busy, Started, vars, poolVars, dockerVars
  <2> QED  BY <2>1, <2>2, <2>3, <2>4
<1> QED  BY <1>1, <1>2, <1>3, <1>4, <1>5, <1>6, <1>7, <1>8, <1>9, <1>10, <1>11, <1>12, <1>13, <1>14, <1>15 DEF Next

(* The structural invariant, and its parts: lists without a common         *)
(* container, exclusive leases, nothing dangling, pools by their name. *)
THEOREM StructureHolds == Spec => []Structure
<1>1. Init => Structure
  BY SetsAssumption, DemandAssumption, TypeCorrect
     DEF Init, Structure, TypeOK, Stages, NoClient, ListsDisjoint, ExclusiveLease,
         NoDangling, PoolHasOwnName, Idle, Busy, Started, At
<1>2. Structure /\ [Next]_vars => Structure'
  BY TypeStep, StructureStep DEF Structure
<1> QED  BY <1>1, <1>2, PTL DEF Spec

-----------------------------------------------------------------------------
(* Accounting.                                                             *)

(* A container is never in two lists: neither two acquisitions nor an      *)
(* acquisition and the janitor get the same one.                           *)
THEOREM ListsStayDisjoint == Spec => []ListsDisjoint
  BY StructureHolds, PTL DEF Structure

(* A running request has a busy container of its function to itself.       *)
THEOREM LeasesAreExclusive == Spec => []ExclusiveLease
  BY StructureHolds, PTL DEF Structure

(* What the pool or a deletion goroutine may still use exists in Docker.   *)
THEOREM NothingDangles == Spec => []NoDangling
  BY StructureHolds, PTL DEF Structure

(* A pool has containers of functions of its own name only, as long as     *)
(* each release names the function of the acquisition (pool.go:135).       *)
(* Nothing is said of their code, which is that of an earlier definition   *)
(* of the name if a container was in use when the function was deleted and *)
(* created again.                                                          *)
THEOREM PoolsKeepNames == Spec => []PoolHasOwnName
  BY StructureHolds, PTL DEF Structure

\* A sum over activities when one of them gets function d.
LEMMA ClientJoins ==
    ASSUME NEW w \in Clients, NEW d, NEW W, W[d] \in 0 .. MaxDemand,
           NEW S \in SUBSET Clients, w \notin S,
           client'[w].fun = d, \A v \in S : client'[v].fun = client[v].fun
    PROVE  Total(S \cup {w}, fun', W) = Total(S, fun, W) + W[d]
<1>1. IsFiniteSet(S)
  BY FS_Subset, SetsAssumption
<1>2. fun'[w] = d /\ \A v \in S : fun'[v] = fun[v]
  BY DEF fun
<1>3. Total(S \cup {w}, fun', W) = Total(S, fun', W) + W[fun'[w]]
  <2>1. W[fun'[w]] \in 0 .. MaxDemand
    BY <1>2
  <2> QED  BY <1>1, <2>1, TotalAdd
<1>4. Total(S, fun', W) = Total(S, fun, W)
  BY <1>2, TotalSame
<1> QED  BY <1>2, <1>3, <1>4

\* A sum over activities when one of them is done with its function.
LEMMA ClientLeaves ==
    ASSUME NEW W, NEW S \in SUBSET Clients, NEW w \in S,
           W[client[w].fun] \in 0 .. MaxDemand,
           \A v \in S \ {w} : client'[v].fun = client[v].fun
    PROVE  Total(S \ {w}, fun', W) = Total(S, fun, W) - W[client[w].fun]
<1>1. IsFiniteSet(S)
  BY FS_Subset, SetsAssumption
<1>2. fun[w] = client[w].fun /\ \A v \in S \ {w} : fun'[v] = fun[v]
  BY DEF fun
<1>3. Total(S \ {w}, fun', W) = Total(S \ {w}, fun, W)
  BY <1>2, TotalSame
<1>4. Total(S \ {w}, fun, W) = Total(S, fun, W) - Total({w}, fun, W)
  BY <1>1, TotalDifference
<1>5. Total({w}, fun, W) = W[fun[w]]
  BY <1>2, TotalSingleton
<1> QED  BY <1>2, <1>3, <1>4, <1>5

\* A sum over activities whose functions do not change.
LEMMA ClientsStay ==
    ASSUME NEW W, NEW S \in SUBSET Clients,
           \A v \in S : client'[v].fun = client[v].fun
    PROVE  Total(S, fun', W) = Total(S, fun, W)
<1>1. \A v \in S : fun'[v] = fun[v]
  BY DEF fun
<1> QED  BY <1>1, TotalSame

\* A sum over containers when some of them go away.
LEMMA ContainersLeave ==
    ASSUME NEW W, NEW S \in SUBSET Containers, NEW T \in SUBSET S,
           \A c \in S \ T : image'[c] = image[c]
    PROVE  Total(S \ T, image', W) = Total(S, image, W) - Total(T, image, W)
<1>1. IsFiniteSet(S)
  BY FS_Subset, SetsAssumption
<1>2. Total(S \ T, image', W) = Total(S \ T, image, W)
  BY TotalSame
<1> QED  BY <1>1, <1>2, TotalDifference

\* A sum over containers when c starts with the image of d.
LEMMA ContainerJoins ==
    ASSUME NEW c \in Containers, NEW d, NEW W, W[d] \in 0 .. MaxDemand,
           NEW S \in SUBSET Containers, c \notin S,
           image'[c] = d, \A b \in S : image'[b] = image[b]
    PROVE  Total(S \cup {c}, image', W) = Total(S, image, W) + W[d]
<1>1. IsFiniteSet(S)
  BY FS_Subset, SetsAssumption
<1>2. Total(S \cup {c}, image', W) = Total(S, image', W) + W[image'[c]]
  BY <1>1, TotalAdd
<1>3. Total(S, image', W) = Total(S, image, W)
  BY TotalSame
<1> QED  BY <1>2, <1>3

\* A sum over containers whose images do not change.
LEMMA ImagesStay ==
    ASSUME NEW W, NEW S \in SUBSET Containers,
           \A c \in S : image'[c] = image[c]
    PROVE  Total(S, image', W) = Total(S, image, W)
  BY TotalSame

\* The memory of an idle container is charged.
LEMMA IdleIsCharged ==
    ASSUME Structure
    PROVE  Idle \subseteq Charged
  BY DEF Structure, NoDangling, Charged

\* What a dismissal destroys is charged no longer, and nothing else changes.
LEMMA DestroyUncharges ==
    ASSUME Structure, NEW V \in SUBSET Idle, Destroy(V),
           dying' = dying, zombie' = zombie
    PROVE  /\ Charged' = Charged \ V
           /\ Total(Charged', image', MemOf)
                = Total(Charged, image, MemOf) - Total(V, image, MemOf)
<1>1. Charged' = Charged \ V
  BY DEF Charged, Started, Destroy
<1>2. V \subseteq Charged /\ Charged \subseteq Containers
  BY IdleIsCharged DEF Charged, Started
<1>3. \A c \in Charged \ V : image'[c] = image[c]
  BY <1>2 DEF Destroy
<1> QED  BY <1>1, <1>2, <1>3, ContainersLeave

\* A caller that gets resources adds its demand to those of its kind.
LEMMA BeginJoins ==
    ASSUME TypeOK, NEW w \in Clients, NEW d \in Descs,
           NEW stage \in {"starting", "prewarming"},
           client[w].st = "idle", Begin(w, d, stage)
    PROVE  /\ Starting' = Starting \cup {w} /\ w \notin Starting
           /\ Active' = Active \cup {w} /\ w \notin Active
           /\ client'[w].fun = d
           /\ \A v \in Clients \ {w} : client'[v].fun = client[v].fun
<1>1. client' = [client EXCEPT ![w] = [st |-> stage, fun |-> d, cont |-> NoCont]]
  BY DEF Begin
<1>2. client'[w] = [st |-> stage, fun |-> d, cont |-> NoCont]
  BY <1>1 DEF TypeOK
<1>3. \A v \in Clients \ {w} : client'[v] = client[v]
  BY <1>1 DEF TypeOK
<1> QED  BY <1>2, <1>3 DEF Starting, Active, At
\* A warm acquisition or a release changes neither what started containers
\* nor what cold starts hold.
LEMMA MemUnchanged ==
    ASSUME MemAccounting, Charged' = Charged, Starting' = Starting,
           availMem' = availMem,
           \A c \in Charged : image'[c] = image[c],
           \A v \in Starting : client'[v].fun = client[v].fun
    PROVE  MemAccounting'
<1>1. Charged \subseteq Containers /\ Starting \subseteq Clients
  BY DEF Charged, Started, Starting, At
<1>2. Total(Charged', image', MemOf) = Total(Charged, image, MemOf)
  BY <1>1, ImagesStay
<1>3. Total(Starting', fun', MemOf) = Total(Starting, fun, MemOf)
  BY <1>1, ClientsStay
<1> QED  BY <1>2, <1>3 DEF MemAccounting

\* Giving the memory of some idle containers back to the pool.
LEMMA MemReturned ==
    ASSUME Structure, MemAccounting, NEW V \in SUBSET Idle,
           Charged' = Charged \ V,
           \A c \in Charged \ V : image'[c] = image[c],
           client' = client,
           availMem' = availMem + Total(V, image, MemOf)
    PROVE  MemAccounting'
<1>1. V \subseteq Charged /\ Charged \subseteq Containers /\ V \subseteq Containers
  BY IdleIsCharged DEF Charged, Started
<1>2. Total(Charged', image', MemOf)
        = Total(Charged, image, MemOf) - Total(V, image, MemOf)
  BY <1>1, ContainersLeave
<1>3. Starting' = Starting /\ fun' = fun
  BY DEF Starting, At, fun
<1>4. /\ Total(V, image, MemOf) \in Nat
      /\ Total(Charged, image, MemOf) \in Nat
  BY <1>1, ContainerTotalType
<1>5. Total(Starting, fun, MemOf) \in Nat
  BY TypeFacts, TotalType DEF Structure
<1>6. availMem \in Int
  BY DEF Structure, TypeOK
<1> QED  BY <1>2, <1>3, <1>4, <1>5, <1>6 DEF MemAccounting

\* A cold start that ends with container c running: its demand moves from the
\* activities to the containers.
LEMMA StartMovesDemand ==
    ASSUME Structure, NEW w \in Clients, NEW c \in Containers,
           client[w].st \in {"starting", "prewarming"},
           StartContainer(c, client[w].fun),
           Starting' = Starting \ {w},
           \A v \in Clients \ {w} : client'[v] = client[v],
           dying' = dying, zombie' = zombie
    PROVE  /\ client[w].fun \in Descs
           /\ Total(Charged', image', MemOf)
                = Total(Charged, image, MemOf) + MemOf[client[w].fun]
           /\ Total(Starting', fun', MemOf)
                = Total(Starting, fun, MemOf) - MemOf[client[w].fun]
<1> DEFINE d == client[w].fun
<1>1. d \in Descs
  BY DEF Structure, TypeOK
<1>2. MemOf[d] \in 0 .. MaxDemand
  BY <1>1, DemandAssumption
<1>3. c \notin Started /\ c \notin dying \cup zombie
  BY DEF StartContainer, Fresh, Started, Structure, NoDangling
<1>4. Charged' = Charged \cup {c}
  BY <1>3 DEF Charged, Started, StartContainer, Structure, TypeOK
<1>5. image'[c] = d /\ \A b \in Charged : image'[b] = image[b]
  BY <1>3 DEF StartContainer, Structure, TypeOK, Charged, Started
<1>6. Charged \in SUBSET Containers /\ c \notin Charged
  BY <1>3 DEF Charged, Started
<1>7. Total(Charged', image', MemOf) = Total(Charged, image, MemOf) + MemOf[d]
  BY <1>2, <1>4, <1>5, <1>6, ContainerJoins
<1>8. w \in Starting /\ Starting \in SUBSET Clients
  BY DEF Starting, At
<1>9. Total(Starting', fun', MemOf) = Total(Starting, fun, MemOf) - MemOf[d]
  BY <1>2, <1>8, ClientLeaves
<1> QED  BY <1>1, <1>7, <1>9

(* Every step keeps the memory of the pool accounted for.                  *)
LEMMA MemStep ==
    ASSUME Structure, Structure', MemAccounting, [Next]_vars
    PROVE  MemAccounting'
<1> USE SetsAssumption, DemandAssumption
<1>0. TypeOK /\ TypeOK'
  BY DEF Structure
<1>a. Charged \subseteq Containers /\ Starting \subseteq Clients
  BY DEF Charged, Started, Starting, At
<1>b. /\ Total(Charged, image, MemOf) \in Nat
      /\ Total(Starting, fun, MemOf) \in Nat
      /\ availMem \in Int
  BY <1>0, <1>a, ContainerTotalType, TypeFacts, TotalType DEF TypeOK
<1>1. ASSUME NEW w \in Clients, NEW d \in Descs, AcquireWarmContainer(w, d)
      PROVE  MemAccounting'
  <2>1. PICK c : client' = [client EXCEPT ![w] =
                              [st |-> "running", fun |-> d, cont |-> c]]
    BY <1>1 DEF AcquireWarmContainer
  <2>2. Starting' = Starting /\ \A v \in Starting : client'[v].fun = client[v].fun
    BY <1>0, <1>1, <2>1 DEF TypeOK, Starting, At, AcquireWarmContainer
  <2>3. Charged' = Charged /\ image' = image /\ availMem' = availMem
    BY <1>1 DEF AcquireWarmContainer, Charged, Started, dockerVars
  <2> QED  BY <2>2, <2>3, MemUnchanged
<1>2. ASSUME NEW w \in Clients, NEW d \in Descs, AcquireWarmOutOfCPU(w, d)
      PROVE  MemAccounting'
  <2>1. /\ Charged' = Charged /\ image' = image /\ availMem' = availMem
        /\ Starting' = Starting /\ client' = client
    BY <1>2 DEF AcquireWarmOutOfCPU, Charged, Started, Starting, At, dockerVars
  <2> QED  BY <2>1, MemUnchanged
<1>3. ASSUME NEW w \in Clients, NEW d \in Descs, AcquireAborted(w, d)
      PROVE  MemAccounting'
  <2>1. PICK B \in SUBSET Idle, c \in Idle :
           Destroy(B) /\ availMem' = availMem + Total(B, image, MemOf)
    BY <1>3 DEF AcquireAborted
  <2>2. dying' = dying /\ zombie' = zombie /\ client' = client
    BY <1>3 DEF AcquireAborted
  <2>3. Charged' = Charged \ B
    BY <2>1, <2>2, DestroyUncharges
  <2>4. \A b \in Charged \ B : image'[b] = image[b]
    BY <1>a, <2>1 DEF Destroy
  <2> QED  BY <2>1, <2>2, <2>3, <2>4, MemReturned
<1>4. ASSUME NEW w \in Clients, NEW d \in Descs,
             NEW stage \in {"starting", "prewarming"},
             AcquireResources(w, d, stage)
      PROVE  MemAccounting'
  <2>1. client[w].st = "idle" /\ Begin(w, d, stage)
    BY <1>4 DEF AcquireResources
  <2>2. Total(Starting', fun', MemOf) = Total(Starting, fun, MemOf) + MemOf[d]
    BY <1>0, <1>a, <2>1, BeginJoins, ClientJoins
  <2>3. Charged' = Charged /\ image' = image
    BY <1>4 DEF AcquireResources, Charged, Started, dockerVars
  <2>4. availMem' = availMem - MemOf[d] /\ MemOf[d] <= availMem
    BY <1>4 DEF AcquireResources
  <2> QED  BY <1>b, <2>2, <2>3, <2>4 DEF MemAccounting
<1>5. ASSUME NEW w \in Clients, NEW d \in Descs,
             NEW stage \in {"starting", "prewarming"},
             AcquireByDismissing(w, d, stage)
      PROVE  MemAccounting'
  <2>1. client[w].st = "idle" /\ Begin(w, d, stage)
    BY <1>5 DEF AcquireByDismissing
  <2>2. Total(Starting', fun', MemOf) = Total(Starting, fun, MemOf) + MemOf[d]
    BY <1>0, <1>a, <2>1, BeginJoins, ClientJoins
  <2>3. PICK V \in SUBSET Idle :
           /\ Total(V, image, MemOf) >= MemOf[d]
           /\ Destroy(V)
           /\ availMem' = availMem + Total(V, image, MemOf) - MemOf[d]
    BY <1>5 DEF AcquireByDismissing, Dismissable
  <2>4. Total(Charged', image', MemOf)
          = Total(Charged, image, MemOf) - Total(V, image, MemOf)
    BY <1>5, <2>3, DestroyUncharges DEF AcquireByDismissing
  <2>5. Total(V, image, MemOf) \in Nat
    BY <1>a, ContainerTotalType, IdleIsCharged
  <2> QED  BY <1>b, <2>2, <2>3, <2>4, <2>5 DEF MemAccounting
<1>6. ASSUME NEW w \in Clients, ColdStart(w)
      PROVE  MemAccounting'
  <2>1. PICK c \in Containers :
           /\ StartContainer(c, client[w].fun)
           /\ client' = [client EXCEPT ![w].st = "running", ![w].cont = c]
    BY <1>6 DEF ColdStart
  <2>2. client[w].st = "starting" /\ dying' = dying /\ zombie' = zombie
        /\ availMem' = availMem
    BY <1>6 DEF ColdStart
  <2>3. Starting' = Starting \ {w}
    BY <1>0, <2>1 DEF TypeOK, Starting, At
  <2>4. \A v \in Clients \ {w} : client'[v] = client[v]
    BY <1>0, <2>1 DEF TypeOK
  <2>5. /\ client[w].fun \in Descs
        /\ Total(Charged', image', MemOf)
             = Total(Charged, image, MemOf) + MemOf[client[w].fun]
        /\ Total(Starting', fun', MemOf)
             = Total(Starting, fun, MemOf) - MemOf[client[w].fun]
    BY <2>1, <2>2, <2>3, <2>4, StartMovesDemand
  <2> QED  BY <1>b, <2>2, <2>5 DEF MemAccounting
<1>7. ASSUME NEW w \in Clients, PrewarmDone(w)
      PROVE  MemAccounting'
  <2>1. PICK c \in Containers :
           StartContainer(c, client[w].fun)
    BY <1>7 DEF PrewarmDone
  <2>2. client[w].st = "prewarming" /\ dying' = dying /\ zombie' = zombie
        /\ availMem' = availMem /\ client' = [client EXCEPT ![w] = NoClient]
    BY <1>7 DEF PrewarmDone
  <2>3. Starting' = Starting \ {w}
    BY <1>0, <2>2 DEF TypeOK, Starting, At, NoClient
  <2>4. \A v \in Clients \ {w} : client'[v] = client[v]
    BY <1>0, <2>2 DEF TypeOK
  <2>5. /\ client[w].fun \in Descs
        /\ Total(Charged', image', MemOf)
             = Total(Charged, image, MemOf) + MemOf[client[w].fun]
        /\ Total(Starting', fun', MemOf)
             = Total(Starting, fun, MemOf) - MemOf[client[w].fun]
    BY <2>1, <2>2, <2>3, <2>4, StartMovesDemand
  <2> QED  BY <1>b, <2>2, <2>5 DEF MemAccounting
<1>8. ASSUME NEW w \in Clients, ColdStartFails(w)
      PROVE  MemAccounting'
  <2>1. /\ client[w].st \in {"starting", "prewarming"}
        /\ availMem' = availMem + MemOf[client[w].fun]
        /\ client' = [client EXCEPT ![w] = NoClient]
        /\ image' = image /\ dying' = dying /\ zombie' = zombie
    BY <1>8 DEF ColdStartFails
  <2>2. client[w].fun \in Descs
    BY <1>0, <2>1 DEF TypeOK
  <2>3. Charged' = Charged
    <3>1. Started' = Started
      BY <1>0, <1>8 DEF ColdStartFails, Fresh, Started, TypeOK
    <3> QED  BY <2>1, <3>1 DEF Charged
  <2>4. Starting' = Starting \ {w} /\ w \in Starting
    BY <1>0, <2>1 DEF TypeOK, Starting, At, NoClient
  <2>5. \A v \in Clients \ {w} : client'[v] = client[v]
    BY <1>0, <2>1 DEF TypeOK
  <2>6. Total(Starting', fun', MemOf)
          = Total(Starting, fun, MemOf) - MemOf[client[w].fun]
    <3>1. MemOf[client[w].fun] \in 0 .. MaxDemand
      BY <2>2
    <3> QED  BY <1>a, <2>4, <2>5, <3>1, ClientLeaves
  <2>7. MemOf[client[w].fun] \in Nat
    BY <2>2
  <2> QED  BY <1>b, <2>1, <2>3, <2>6, <2>7 DEF MemAccounting
<1>9. ASSUME NEW w \in Clients, ReleaseContainer(w, client[w].fun)
      PROVE  MemAccounting'
  <2>1. Starting' = Starting /\ \A v \in Starting : client'[v].fun = client[v].fun
    BY <1>0, <1>9 DEF TypeOK, Starting, At, ReleaseContainer, NoClient
  <2>2. Charged' = Charged /\ image' = image /\ availMem' = availMem
    BY <1>9 DEF ReleaseContainer, Charged, Started, dockerVars
  <2> QED  BY <2>1, <2>2, MemUnchanged
<1>10. ASSUME NEW c \in Containers, Expire(c)
       PROVE  MemAccounting'
  <2>1. /\ Charged' = Charged /\ image' = image /\ availMem' = availMem
        /\ Starting' = Starting /\ client' = client
    BY <1>10 DEF Expire, Charged, Started, Starting, At, dockerVars
  <2> QED  BY <2>1, MemUnchanged
<1>11. ASSUME NEW c \in Containers, DestroyDying(c)
       PROVE  MemAccounting'
  <2>1. c \notin zombie /\ dying' = dying \ {c}
    BY <1>11 DEF DestroyDying, Structure, NoDangling
  <2>2. Charged' = Charged
    BY <1>11, <2>1 DEF DestroyDying, Destroy, Charged, Started
  <2>3. \A b \in Charged : image'[b] = image[b]
    BY <1>11 DEF DestroyDying, Destroy, Charged, Started
  <2>4. availMem' = availMem /\ client' = client /\ Starting' = Starting
    BY <1>11 DEF DestroyDying, Starting, At
  <2> QED  BY <2>2, <2>3, <2>4, MemUnchanged
<1>12. ASSUME NEW c \in Containers, Exit(c)
       PROVE  MemAccounting'
  <2>1. /\ Charged' = Charged /\ image' = image /\ availMem' = availMem
        /\ Starting' = Starting /\ client' = client
    BY <1>0, <1>12 DEF Exit, Charged, Started, Starting, At, poolVars, TypeOK
  <2> QED  BY <2>1, MemUnchanged
<1>13. ASSUME NEW n \in Names, ShutdownWarmContainersFor(n)
       PROVE  MemAccounting'
  <2>1. ready[n] \in SUBSET Idle
    BY DEF Idle
  <2>2. Charged' = Charged \ ready[n] /\ image' = image
    BY <1>13 DEF ShutdownWarmContainersFor, Charged, Started, dockerVars
  <2>3. client' = client /\ availMem' = availMem + Total(ready[n], image, MemOf)
    BY <1>13 DEF ShutdownWarmContainersFor
  <2> QED  BY <2>1, <2>2, <2>3, MemReturned
<1>14. ASSUME DeleteExpiredContainer
       PROVE  MemAccounting'
  <2>1. PICK failed \in SUBSET stale :
           Destroy(stale \ failed) /\ zombie' = zombie \cup failed
    BY <1>14 DEF DeleteExpiredContainer
  <2>2. stale \in SUBSET Idle
    BY DEF Structure, NoDangling
  <2>3. Charged' = Charged \ stale
    BY <1>14, <2>1 DEF DeleteExpiredContainer, Charged, Started, Destroy
  <2>4. \A c \in Charged \ stale : image'[c] = image[c]
    BY <1>a, <2>1 DEF Destroy
  <2>5. client' = client /\ availMem' = availMem + Total(stale, image, MemOf)
    BY <1>14 DEF DeleteExpiredContainer
  <2> QED  BY <2>2, <2>3, <2>4, <2>5, MemReturned
<1>15. CASE UNCHANGED vars
  BY <1>15 DEF MemAccounting, vars, poolVars, dockerVars, Charged, Started, Starting,
              At, fun
<1> QED  BY <1>1, <1>2, <1>3, <1>4, <1>5, <1>6, <1>7, <1>8, <1>9, <1>10, <1>11,
            <1>12, <1>13, <1>14, <1>15 DEF Next

(* Memory is never lost, never counted twice and never overdrawn.          *)
THEOREM MemoryAccounted == Spec => []MemAccounting
<1>1. Init => MemAccounting
  <2> SUFFICES ASSUME Init PROVE MemAccounting
    OBVIOUS
  <2>1. Charged = {} /\ Starting = {}
    BY DEF Init, Charged, Started, Starting, At, NoClient
  <2>2. Total(Charged, image, MemOf) = 0 /\ Total(Starting, fun, MemOf) = 0
    BY <2>1, TotalEmpty
  <2> QED  BY <2>2, DemandAssumption DEF Init, MemAccounting
<1>2. Structure /\ Structure' /\ MemAccounting /\ [Next]_vars => MemAccounting'
  BY MemStep
<1> QED  BY <1>1, <1>2, StructureHolds, PTL DEF Spec
-----------------------------------------------------------------------------
(* CPU.  A demand of -1 (docs/api.md:24: no cap) breaks the accounting;     *)
(* without one it holds.                                                   *)

CappedCpu == CpuOf \in [Descs -> 0 .. MaxDemand]

\* The images of prewarmed containers stay: no step destroys a busy one.
LEMMA PrewarmedKeepImages ==
    ASSUME Structure, [Next]_vars
    PROVE  \A c \in prewarmed : image'[c] = image[c]
<1> USE DEF Structure, TypeOK
<1>1. /\ prewarmed \cap Idle = {} /\ prewarmed \cap dying = {}
      /\ prewarmed \subseteq Busy /\ stale \subseteq Idle
  BY DEF NoDangling, ListsDisjoint, Idle, Busy
<1>2. ASSUME NEW w \in Clients, NEW d \in Descs, AcquireAborted(w, d)
      PROVE  \A c \in prewarmed : image'[c] = image[c]
  BY <1>1, <1>2 DEF AcquireAborted, Destroy
<1>3. ASSUME NEW w \in Clients, NEW d \in Descs,
             NEW stage \in {"starting", "prewarming"},
             AcquireByDismissing(w, d, stage)
      PROVE  \A c \in prewarmed : image'[c] = image[c]
  BY <1>1, <1>3 DEF AcquireByDismissing, Destroy
<1>4. ASSUME NEW w \in Clients, ColdStart(w)
      PROVE  \A c \in prewarmed : image'[c] = image[c]
  BY <1>1, <1>4 DEF ColdStart, StartContainer, Fresh
<1>5. ASSUME NEW w \in Clients, PrewarmDone(w)
      PROVE  \A c \in prewarmed : image'[c] = image[c]
  BY <1>1, <1>5 DEF PrewarmDone, StartContainer, Fresh
<1>6. ASSUME NEW c \in Containers, DestroyDying(c)
      PROVE  \A b \in prewarmed : image'[b] = image[b]
  BY <1>1, <1>6 DEF DestroyDying, Destroy
<1>7. ASSUME DeleteExpiredContainer
      PROVE  \A c \in prewarmed : image'[c] = image[c]
  BY <1>1, <1>7 DEF DeleteExpiredContainer, Destroy
<1> QED  BY <1>2, <1>3, <1>4, <1>5, <1>6, <1>7
         DEF Next, AcquireWarmContainer, AcquireWarmOutOfCPU, AcquireResources,
             ColdStartFails, ReleaseContainer, Expire, Exit,
             ShutdownWarmContainersFor, vars, dockerVars

\* Steps that leave the activities that hold CPU, and their functions, alone.
LEMMA CpuUnchanged ==
    ASSUME CpuAccounting, Active' = Active, prewarmed' = prewarmed,
           prewarmed \subseteq Containers,
           availCPUs' = availCPUs,
           \A v \in Active : client'[v].fun = client[v].fun,
           \A c \in prewarmed : image'[c] = image[c]
    PROVE  CpuAccounting'
<1>1. Active \subseteq Clients
  BY DEF Active, At
<1>2. Total(Active', fun', CpuOf) = Total(Active, fun, CpuOf)
  BY <1>1, ClientsStay
<1>3. Total(prewarmed', image', CpuOf) = Total(prewarmed, image, CpuOf)
  BY ImagesStay
<1> QED  BY <1>2, <1>3 DEF CpuAccounting

\* An activity takes the CPU of d.
LEMMA CpuTaken ==
    ASSUME CappedCpu, Structure, CpuAccounting,
           NEW w \in Clients, NEW d \in Descs,
           Active' = Active \cup {w}, w \notin Active,
           client'[w].fun = d,
           \A v \in Clients \ {w} : client'[v].fun = client[v].fun,
           prewarmed' = prewarmed, \A c \in prewarmed : image'[c] = image[c],
           CpuOf[d] <= availCPUs, availCPUs' = availCPUs - CpuOf[d]
    PROVE  CpuAccounting'
<1>1. Active \in SUBSET Clients /\ prewarmed \in SUBSET Containers
  BY DEF Active, At, Structure, TypeOK
<1>2. CpuOf[d] \in 0 .. MaxDemand
  BY DEF CappedCpu
<1>3. Total(Active', fun', CpuOf) = Total(Active, fun, CpuOf) + CpuOf[d]
  BY <1>1, <1>2, ClientJoins
<1>4. Total(prewarmed', image', CpuOf) = Total(prewarmed, image, CpuOf)
  BY <1>1, ImagesStay
<1>5. /\ Total(Active, fun, CpuOf) \in Nat
      /\ Total(prewarmed, image, CpuOf) \in Nat
      /\ availCPUs \in Int
  BY TypeFacts, TotalType DEF Structure, TypeOK
<1> QED  BY <1>2, <1>3, <1>4, <1>5, DemandAssumption DEF CpuAccounting

\* An activity gives its CPU back.
LEMMA CpuReturned ==
    ASSUME CappedCpu, Structure, CpuAccounting,
           NEW w \in Active, client[w].fun \in Descs,
           Active' = Active \ {w},
           \A v \in Clients \ {w} : client'[v].fun = client[v].fun,
           prewarmed' = prewarmed, \A c \in prewarmed : image'[c] = image[c],
           availCPUs' = availCPUs + CpuOf[client[w].fun]
    PROVE  CpuAccounting'
<1>1. Active \in SUBSET Clients /\ prewarmed \in SUBSET Containers
  BY DEF Active, At, Structure, TypeOK
<1>2. CpuOf[client[w].fun] \in 0 .. MaxDemand
  BY DEF CappedCpu
<1>3. Total(Active', fun', CpuOf)
        = Total(Active, fun, CpuOf) - CpuOf[client[w].fun]
  BY <1>1, <1>2, ClientLeaves
<1>4. Total(prewarmed', image', CpuOf) = Total(prewarmed, image, CpuOf)
  BY <1>1, ImagesStay
<1>5. /\ Total(Active, fun, CpuOf) \in Nat
      /\ Total(prewarmed, image, CpuOf) \in Nat
      /\ availCPUs \in Int
  BY TypeFacts, TotalType DEF Structure, TypeOK
<1> QED  BY <1>2, <1>3, <1>4, <1>5, DemandAssumption DEF CpuAccounting

(* Every step keeps the CPU of the pool accounted for.                     *)
LEMMA CpuStep ==
    ASSUME CappedCpu, Structure, Structure', CpuAccounting, [Next]_vars
    PROVE  CpuAccounting'
<1> USE SetsAssumption, DemandAssumption
<1>0. TypeOK /\ TypeOK' /\ prewarmed \subseteq Containers
  BY DEF Structure, TypeOK
<1>a. \A c \in prewarmed : image'[c] = image[c]
  BY PrewarmedKeepImages
<1>1. ASSUME NEW w \in Clients, NEW d \in Descs, AcquireWarmContainer(w, d)
      PROVE  CpuAccounting'
  <2>1. PICK c : client' = [client EXCEPT ![w] =
                              [st |-> "running", fun |-> d, cont |-> c]]
    BY <1>1 DEF AcquireWarmContainer
  <2>2. /\ Active' = Active \cup {w} /\ w \notin Active
        /\ client'[w].fun = d
        /\ \A v \in Clients \ {w} : client'[v].fun = client[v].fun
    BY <1>0, <1>1, <2>1 DEF TypeOK, Active, At, AcquireWarmContainer
  <2>3. /\ CpuOf[d] <= availCPUs /\ availCPUs' = availCPUs - CpuOf[d]
        /\ prewarmed' = prewarmed
    BY <1>1 DEF AcquireWarmContainer
  <2> QED  BY <1>a, <2>2, <2>3, CpuTaken
<1>2. ASSUME NEW w \in Clients, NEW d \in Descs,
             AcquireWarmOutOfCPU(w, d) \/ AcquireAborted(w, d)
      PROVE  CpuAccounting'
  <2>1. client' = client /\ availCPUs' = availCPUs /\ prewarmed' = prewarmed
    BY <1>2 DEF AcquireWarmOutOfCPU, AcquireAborted
  <2>2. Active' = Active
    BY <2>1 DEF Active, At
  <2> QED  BY <1>0, <1>a, <2>1, <2>2, CpuUnchanged
<1>3. ASSUME NEW w \in Clients, NEW d \in Descs,
             NEW stage \in {"starting", "prewarming"},
             AcquireResources(w, d, stage) \/ AcquireByDismissing(w, d, stage)
      PROVE  CpuAccounting'
  <2>1. /\ client[w].st = "idle" /\ Begin(w, d, stage)
        /\ CpuOf[d] <= availCPUs /\ availCPUs' = availCPUs - CpuOf[d]
        /\ prewarmed' = prewarmed
    BY <1>3 DEF AcquireResources, AcquireByDismissing
  <2>2. /\ Active' = Active \cup {w} /\ w \notin Active
        /\ client'[w].fun = d
        /\ \A v \in Clients \ {w} : client'[v].fun = client[v].fun
    BY <1>0, <2>1, BeginJoins
  <2> QED  BY <1>a, <2>1, <2>2, CpuTaken
<1>4. ASSUME NEW w \in Clients, ColdStart(w)
      PROVE  CpuAccounting'
  <2>1. PICK c : client' = [client EXCEPT ![w].st = "running", ![w].cont = c]
    BY <1>4 DEF ColdStart
  <2>2. /\ Active' = Active
        /\ \A v \in Active : client'[v].fun = client[v].fun
    BY <1>0, <1>4, <2>1 DEF TypeOK, Active, At, ColdStart
  <2>3. availCPUs' = availCPUs /\ prewarmed' = prewarmed
    BY <1>4 DEF ColdStart
  <2> QED  BY <1>0, <1>a, <2>2, <2>3, CpuUnchanged
<1>5. ASSUME NEW w \in Clients, PrewarmDone(w)
      PROVE  CpuAccounting'
  <2> DEFINE d == client[w].fun
  <2>1. PICK c \in Containers :
           StartContainer(c, d) /\ prewarmed' = prewarmed \cup {c}
    BY <1>5 DEF PrewarmDone
  <2>2. /\ client[w].st = "prewarming" /\ availCPUs' = availCPUs
        /\ client' = [client EXCEPT ![w] = NoClient]
    BY <1>5 DEF PrewarmDone
  <2>3. d \in Descs
    BY <1>0, <2>2 DEF TypeOK
  <2>4. CpuOf[d] \in 0 .. MaxDemand
    BY <2>3 DEF CappedCpu
  <2>5. /\ w \in Active /\ Active \in SUBSET Clients /\ Active' = Active \ {w}
        /\ \A v \in Clients \ {w} : client'[v].fun = client[v].fun
    BY <1>0, <2>2 DEF TypeOK, Active, At, NoClient
  <2>6. Total(Active', fun', CpuOf) = Total(Active, fun, CpuOf) - CpuOf[d]
    BY <2>4, <2>5, ClientLeaves
  <2>7. c \notin prewarmed /\ image'[c] = d
    BY <1>0, <2>1 DEF StartContainer, Fresh, Structure, NoDangling, TypeOK
  <2>8. Total(prewarmed', image', CpuOf)
          = Total(prewarmed, image, CpuOf) + CpuOf[d]
    BY <1>0, <1>a, <2>1, <2>4, <2>7, ContainerJoins
  <2>9. /\ Total(Active, fun, CpuOf) \in Nat
        /\ Total(prewarmed, image, CpuOf) \in Nat
        /\ availCPUs \in Int
    BY <1>0, TypeFacts, TotalType DEF TypeOK
  <2> QED  BY <2>2, <2>4, <2>6, <2>8, <2>9 DEF CpuAccounting
<1>6. ASSUME NEW w \in Clients,
             ColdStartFails(w) \/ ReleaseContainer(w, client[w].fun)
      PROVE  CpuAccounting'
  <2>1. /\ client[w].st \in {"starting", "prewarming", "running"}
        /\ availCPUs' = availCPUs + CpuOf[client[w].fun]
        /\ client' = [client EXCEPT ![w] = NoClient]
        /\ prewarmed' = prewarmed
    BY <1>6 DEF ColdStartFails, ReleaseContainer
  <2>2. client[w].fun \in Descs
    BY <1>0, <2>1 DEF TypeOK
  <2>3. /\ w \in Active /\ Active' = Active \ {w}
        /\ \A v \in Clients \ {w} : client'[v].fun = client[v].fun
    BY <1>0, <2>1 DEF TypeOK, Active, At, NoClient
  <2> QED  BY <1>a, <2>1, <2>2, <2>3, CpuReturned
<1>7. ASSUME \/ \E c \in Containers : Expire(c) \/ DestroyDying(c) \/ Exit(c)
             \/ \E n \in Names : ShutdownWarmContainersFor(n)
             \/ DeleteExpiredContainer
             \/ UNCHANGED vars
      PROVE  CpuAccounting'
  <2>1. client' = client /\ availCPUs' = availCPUs /\ prewarmed' = prewarmed
    BY <1>7 DEF Expire, DestroyDying, Exit, ShutdownWarmContainersFor,
                DeleteExpiredContainer, vars, poolVars
  <2>2. Active' = Active
    BY <2>1 DEF Active, At
  <2> QED  BY <1>0, <1>a, <2>1, <2>2, CpuUnchanged
<1> QED  BY <1>1, <1>2, <1>3, <1>4, <1>5, <1>6, <1>7 DEF Next

(* CPU is never lost, never counted twice and never overdrawn, as long as  *)
(* no function has the demand -1.                                          *)
THEOREM CpuAccounted ==
    ASSUME CappedCpu
    PROVE  Spec => []CpuAccounting
<1>1. Init => CpuAccounting
  <2> SUFFICES ASSUME Init PROVE CpuAccounting
    OBVIOUS
  <2>1. Active = {} /\ prewarmed = {}
    BY DEF Init, Active, At, NoClient
  <2>2. Total(Active, fun, CpuOf) = 0 /\ Total(prewarmed, image, CpuOf) = 0
    BY <2>1, TotalEmpty
  <2> QED  BY <2>2, DemandAssumption DEF Init, CpuAccounting
<1>2. Structure /\ Structure' /\ CpuAccounting /\ [Next]_vars => CpuAccounting'
  BY CpuStep
<1> QED  BY <1>1, <1>2, StructureHolds, PTL DEF Spec
=============================================================================
