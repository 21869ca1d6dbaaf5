--------------------------- MODULE ContainerPool ---------------------------
(***************************************************************************)
(* The container pool of a node: internal/node/pool.go, the caller's side  *)
(* of internal/container, and the Docker daemon as far as the pool uses    *)
(* it.                                                                     *)
(*                                                                         *)
(* Every exported operation of pool.go takes the lock Resources, so an     *)
(* action is one critical section.  NewContainer has two of them, with the *)
(* Docker calls between them and the lock released: it is two actions, and *)
(* everything else may run in between.  Docker calls made under the lock   *)
(* belong to the action.                                                   *)
(*                                                                         *)
(* The lists of a function's pool are sets here: the code takes the front  *)
(* element and calls the choice unimportant (pool.go:39, :243), so the     *)
(* front is any element.  Memory and CPU are counted in whole units.       *)
(***************************************************************************)
EXTENDS Integers, FiniteSets

CONSTANTS
    Containers,   \* the ids Docker may hand out
    Clients,      \* the activities that may hold a container or a reservation
    Names,        \* function names: the keys of Resources.ContainerPools
    Descs,        \* function descriptors; one name may be created again
    NameOf,       \* Descs -> Names, function.Function.Name
    MemOf,        \* Descs -> memory units, function.Function.MemoryMB
    CpuOf,        \* Descs -> CPU units, function.Function.CPUDemand
    MaxDemand,    \* a bound on the demands above
    PoolMem,      \* container.pool.memory
    PoolCPUs,     \* container.pool.cpus
    Faults,       \* the calls to Docker that may fail
    NoFun, NoCont

ASSUME SetsAssumption ==
    /\ IsFiniteSet(Containers)
    /\ IsFiniteSet(Clients)
    /\ NoFun \notin Descs
    /\ NoCont \notin Containers
    /\ Faults \subseteq {"create", "start", "destroy", "exit"}

ASSUME DemandAssumption ==
    /\ NameOf \in [Descs -> Names]
    /\ MaxDemand \in Nat
    /\ MemOf \in [Descs -> 1 .. MaxDemand]
    /\ CpuOf \in [Descs -> Int]
    /\ PoolMem \in Nat
    /\ PoolCPUs \in Nat

VARIABLES
    availMem,     \* Resources.AvailableMemMB
    availCPUs,    \* Resources.AvailableCPUs
    ready,        \* name -> ids of its warm containers
    busy,         \* name -> ids of its busy containers
    stale,        \* warm containers whose Expiration has passed
    dying,        \* ids given to the goroutines of ShutdownWarmContainersFor
    client,       \* what each activity does: its stage, function, container
    docker,       \* the state of each container in the Docker daemon
    image,        \* the descriptor a container was created for
    zombie,       \* (history) forgotten by the pool, but Docker kept them
    prewarmed     \* (history) started by PrewarmInstances

poolVars == <<availMem, availCPUs, ready, busy, stale, dying>>
dockerVars == <<docker, image, zombie>>
vars == <<poolVars, client, dockerVars, prewarmed>>

-----------------------------------------------------------------------------
(* Quantities.  The sum of the weights of the members of S, written as the *)
(* size of a set of cells so that no recursion is needed.                  *)

Cells(S, label, weight) ==
    {x \in S \X (1 .. MaxDemand) : x[2] <= weight[label[x[1]]]}

Total(S, label, weight) == Cardinality(Cells(S, label, weight))

Idle == UNION {ready[n] : n \in Names}
Busy == UNION {busy[n] : n \in Names}

Started == {c \in Containers : docker[c] \in {"running", "exited"}}

\* The started containers whose memory the pool counts as taken.
Charged == Started \ (dying \cup zombie)

At(stages) == {w \in Clients : client[w].st \in stages}
Starting == At({"starting", "prewarming"})
Active == At({"starting", "prewarming", "running"})
Held == {client[w].cont : w \in At({"running"})}

fun == [w \in Clients |-> client[w].fun]

NoClient == [st |-> "idle", fun |-> NoFun, cont |-> NoCont]

\* Docker ids are never given twice; an id nothing refers to stands for a
\* new one.
Fresh == {c \in Containers : /\ docker[c] = "absent"
                             /\ c \notin Idle \cup Busy \cup Held}

Init ==
    /\ availMem = PoolMem
    /\ availCPUs = PoolCPUs
    /\ ready = [n \in Names |-> {}]
    /\ busy = [n \in Names |-> {}]
    /\ stale = {}
    /\ dying = {}
    /\ client = [w \in Clients |-> NoClient]
    /\ docker = [c \in Containers |-> "absent"]
    /\ image = [c \in Containers |-> NoFun]
    /\ zombie = {}
    /\ prewarmed = {}

-----------------------------------------------------------------------------
(* Docker: container.Destroy of the members of S, all of which succeed.    *)

Destroy(S) ==
    /\ docker' = [c \in Containers |-> IF c \in S THEN "absent" ELSE docker[c]]
    /\ image' = [c \in Containers |-> IF c \in S THEN NoFun ELSE image[c]]

Forget(S) ==
    /\ ready' = [n \in Names |-> ready[n] \ S]
    /\ stale' = stale \ S

-----------------------------------------------------------------------------
(* AcquireWarmContainer: the container moves to the busy list first, and   *)
(* the CPU is asked for afterwards.                                        *)

\* Fault for ExclusiveLease: the element stays in the ready list.
getWarmContainerShared(n, c) ==
    /\ c \in ready[n]
    /\ busy' = [busy EXCEPT ![n] = @ \cup {c}]
    /\ UNCHANGED <<ready, stale>>

getWarmContainer(n, c) ==
    /\ c \in ready[n]
    /\ ready' = [ready EXCEPT ![n] = @ \ {c}]
    /\ busy' = [busy EXCEPT ![n] = @ \cup {c}]
    /\ stale' = stale \ {c}

AcquireWarmContainer(w, d) ==
    /\ client[w].st = "idle"
    /\ CpuOf[d] <= availCPUs
    /\ \E c \in ready[NameOf[d]] :
          /\ getWarmContainer(NameOf[d], c)
          /\ client' = [client EXCEPT ![w] =
                           [st |-> "running", fun |-> d, cont |-> c]]
    /\ availCPUs' = availCPUs - CpuOf[d]
    /\ UNCHANGED <<availMem, dying, dockerVars, prewarmed>>

\* OutOfResourcesErr: the caller gets no container, and the one taken from
\* the ready list stays in the busy list.
AcquireWarmOutOfCPU(w, d) ==
    /\ client[w].st = "idle"
    /\ CpuOf[d] > availCPUs
    /\ \E c \in ready[NameOf[d]] : getWarmContainer(NameOf[d], c)
    /\ UNCHANGED <<availMem, availCPUs, dying, client, dockerVars, prewarmed>>

-----------------------------------------------------------------------------
(* dismissContainer.  Phase 1 walks the pools in any order and collects    *)
(* warm containers until their memory reaches the demand.  It reads the id *)
(* and the memory of a pool's front element once, before it walks over the *)
(* elements: every item of that pool carries the id of the front.          *)

Fronts == {fr \in [Names -> Idle \cup {NoCont}] :
             \A n \in Names : IF ready[n] = {} THEN fr[n] = NoCont
                                               ELSE fr[n] \in ready[n]}

Collectable(fr) ==
    Cardinality({x \in Idle \X (1 .. MaxDemand) :
                   \E n \in Names : /\ x[1] \in ready[n]
                                    /\ x[2] <= MemOf[image[fr[n]]]})

\* A pool that is left with a demand still unmet had this one element.
Alone(c) == \E n \in Names : ready[n] = {c}

\* Phase 2 destroys V: the front elements of some pools.
Dismissable(V, demand) ==
    \E last \in V :
       /\ \A c \in V \ {last} : Alone(c)
       /\ Total(V \ {last}, image, MemOf) < demand
       /\ Total(V, image, MemOf) >= demand

\* Phase 2 destroys B and then fails on an item whose element is c: a second
\* item of the pool of b, whose id is that of b, already destroyed; or c itself,
\* which Docker does not remove.  The element c is off its list by then.
DismissalStopsAt(B, c, demand) ==
    /\ Total(B, image, MemOf) < demand
    /\ \E fr \in Fronts :
          /\ Collectable(fr) >= demand
          /\ \/ \E n \in Names : /\ fr[n] \in B
                                 /\ c \in ready[n]
                                 /\ \A b \in B \ {fr[n]} : Alone(b)
             \/ /\ "destroy" \in Faults
                /\ \A b \in B : Alone(b)

-----------------------------------------------------------------------------
(* NewContainer(fun): acquireResources with destroyContainersIfNeeded.     *)

\* The stage a caller enters once it has the resources.
Begin(w, d, stage) ==
    client' = [client EXCEPT ![w] = [st |-> stage, fun |-> d, cont |-> NoCont]]

AcquireResources(w, d, stage) ==
    /\ client[w].st = "idle"
    /\ CpuOf[d] <= availCPUs
    /\ MemOf[d] <= availMem
    /\ Begin(w, d, stage)
    /\ availCPUs' = availCPUs - CpuOf[d]
    /\ availMem' = availMem - MemOf[d]
    /\ UNCHANGED <<ready, busy, stale, dying, dockerVars, prewarmed>>

AcquireByDismissing(w, d, stage) ==
    /\ client[w].st = "idle"
    /\ CpuOf[d] <= availCPUs
    /\ MemOf[d] > availMem
    /\ \E V \in SUBSET Idle :
          /\ Dismissable(V, MemOf[d])
          /\ Forget(V)
          /\ Destroy(V)
          /\ availMem' = availMem + Total(V, image, MemOf) - MemOf[d]
    /\ Begin(w, d, stage)
    /\ availCPUs' = availCPUs - CpuOf[d]
    /\ UNCHANGED <<busy, dying, zombie, prewarmed>>

\* Fault for MemAccounting: the memory is credited before Destroy is tried.
AcquireAbortedCredits(w, d) ==
    /\ client[w].st = "idle"
    /\ CpuOf[d] <= availCPUs
    /\ MemOf[d] > availMem
    /\ \E B \in SUBSET Idle : \E c \in Idle \ B :
          /\ DismissalStopsAt(B, c, MemOf[d])
          /\ Forget(B \cup {c})
          /\ Destroy(B)
          /\ availMem' = availMem + Total(B \cup {c}, image, MemOf)
    /\ UNCHANGED <<availCPUs, busy, dying, client, zombie, prewarmed>>

\* The dismissal gives up halfway: OutOfResourcesErr.
AcquireAborted(w, d) ==
    /\ client[w].st = "idle"
    /\ CpuOf[d] <= availCPUs
    /\ MemOf[d] > availMem
    /\ \E B \in SUBSET Idle : \E c \in Idle \ B :
          /\ DismissalStopsAt(B, c, MemOf[d])
          /\ Forget(B \cup {c})
          /\ Destroy(B)
          /\ availMem' = availMem + Total(B, image, MemOf)
    /\ UNCHANGED <<availCPUs, busy, dying, client, zombie, prewarmed>>

\* The other refusals of acquireResources change nothing: not enough CPU, or
\* not enough memory in free memory and not enough in warm containers.
Refused(d) ==
    \/ CpuOf[d] > availCPUs
    \/ /\ MemOf[d] > availMem
       /\ \E fr \in Fronts : Collectable(fr) < MemOf[d]

-----------------------------------------------------------------------------
(* NewContainerWithAcquiredResources: create, copy the code, start, then   *)
(* take the lock.  Until then no other activity knows the id, so the       *)
(* Docker calls are part of the step that ends them.                       *)

StartContainer(c, d) ==
    /\ c \in Fresh
    /\ docker' = [docker EXCEPT ![c] = "running"]
    /\ image' = [image EXCEPT ![c] = d]
    /\ busy' = [busy EXCEPT ![NameOf[d]] = @ \cup {c}]

ColdStart(w) ==
    /\ client[w].st = "starting"
    /\ \E c \in Containers :
          /\ StartContainer(c, client[w].fun)
          /\ client' = [client EXCEPT ![w].st = "running", ![w].cont = c]
    /\ UNCHANGED <<availMem, availCPUs, ready, stale, dying, zombie, prewarmed>>

\* PrewarmInstances ignores the id it gets.  Its loop is any number of
\* these: each of its iterations is a NewContainer, and it stops at an error.
PrewarmDone(w) ==
    /\ client[w].st = "prewarming"
    /\ \E c \in Containers :
          /\ StartContainer(c, client[w].fun)
          /\ prewarmed' = prewarmed \cup {c}
    /\ client' = [client EXCEPT ![w] = NoClient]
    /\ UNCHANGED <<availMem, availCPUs, ready, stale, dying, zombie>>

\* Fault for CpuAccounting: releaseResources(0, fun.MemoryMB).
ColdStartFailsKeepsCPU(w) ==
    /\ client[w].st \in {"starting", "prewarming"}
    /\ Faults \cap {"create", "start"} # {}
    /\ availMem' = availMem + MemOf[client[w].fun]
    /\ client' = [client EXCEPT ![w] = NoClient]
    /\ UNCHANGED <<availCPUs, ready, busy, stale, dying, dockerVars, prewarmed>>

\* An error of ContainerCreate, or one of CopyToContainer or ContainerStart,
\* which leaves the created container behind.
ColdStartFails(w) ==
    /\ client[w].st \in {"starting", "prewarming"}
    /\ \/ "create" \in Faults /\ UNCHANGED docker
       \/ /\ "start" \in Faults
          /\ \E c \in Fresh : docker' = [docker EXCEPT ![c] = "created"]
    /\ availCPUs' = availCPUs + CpuOf[client[w].fun]
    /\ availMem' = availMem + MemOf[client[w].fun]
    /\ client' = [client EXCEPT ![w] = NoClient]
    /\ UNCHANGED <<ready, busy, stale, dying, image, zombie, prewarmed>>

-----------------------------------------------------------------------------
(* ReleaseContainer(contID, f): the container of w goes to the ready list  *)
(* of d, with a new Expiration.                                            *)

\* Fault for TypeOK: the request keeps the function it has served.
ReleaseContainerKeepsFun(w, d) ==
    /\ client[w].st = "running"
    /\ busy' = [busy EXCEPT ![NameOf[d]] = @ \ {client[w].cont}]
    /\ ready' = [ready EXCEPT ![NameOf[d]] = @ \cup {client[w].cont}]
    /\ availCPUs' = availCPUs + CpuOf[d]
    /\ client' = [client EXCEPT ![w].st = "idle", ![w].cont = NoCont]
    /\ UNCHANGED <<availMem, stale, dying, dockerVars, prewarmed>>

\* Fault for ListsDisjoint: the element is not found in the busy list.
ReleaseContainerStaysBusy(w, d) ==
    /\ client[w].st = "running"
    /\ ready' = [ready EXCEPT ![NameOf[d]] = @ \cup {client[w].cont}]
    /\ availCPUs' = availCPUs + CpuOf[d]
    /\ client' = [client EXCEPT ![w] = NoClient]
    /\ UNCHANGED <<availMem, busy, stale, dying, dockerVars, prewarmed>>

\* Fault for PoolHasOwnName: c.Fun is that of another request by now.
ReleaseContainerElsewhere(w, d) ==
    /\ client[w].st = "running"
    /\ \E e \in Descs :
          /\ busy' = [n \in Names |-> busy[n] \ {client[w].cont}]
          /\ ready' = [ready EXCEPT ![NameOf[e]] = @ \cup {client[w].cont}]
          /\ availCPUs' = availCPUs + CpuOf[e]
    /\ client' = [client EXCEPT ![w] = NoClient]
    /\ UNCHANGED <<availMem, stale, dying, dockerVars, prewarmed>>

ReleaseContainer(w, d) ==
    /\ client[w].st = "running"
    /\ busy' = [busy EXCEPT ![NameOf[d]] = @ \ {client[w].cont}]
    /\ ready' = [ready EXCEPT ![NameOf[d]] = @ \cup {client[w].cont}]
    /\ stale' = stale \ {client[w].cont}
    /\ availCPUs' = availCPUs + CpuOf[d]
    /\ client' = [client EXCEPT ![w] = NoClient]
    /\ UNCHANGED <<availMem, dying, dockerVars, prewarmed>>

\* The clock passes the Expiration of a warm container.
Expire(c) ==
    /\ c \in Idle \ stale
    /\ stale' = stale \cup {c}
    /\ UNCHANGED <<availMem, availCPUs, ready, busy, dying, client,
                   dockerVars, prewarmed>>

\* Fault for GarbageIsCollected: what cannot be destroyed is kept and tried
\* again.
DeleteExpiredRetries ==
    /\ stale # {}
    /\ \E failed \in SUBSET stale :
          /\ failed # {} => "destroy" \in Faults
          /\ Destroy(stale \ failed)
          /\ Forget(stale \ failed)
          /\ availMem' = availMem + Total(stale \ failed, image, MemOf)
    /\ UNCHANGED <<availCPUs, busy, dying, client, zombie, prewarmed>>

\* The janitor.  The memory is released before Destroy, whose error is logged.
DeleteExpiredContainer ==
    /\ stale # {}
    /\ \E failed \in SUBSET stale :
          /\ failed # {} => "destroy" \in Faults
          /\ Destroy(stale \ failed)
          /\ zombie' = zombie \cup failed
    /\ availMem' = availMem + Total(stale, image, MemOf)
    /\ Forget(stale)
    /\ UNCHANGED <<availCPUs, busy, dying, client, prewarmed>>

\* Fault for NoDangling: the elements stay in the ready list.
ShutdownKeepsListed(n) ==
    /\ ready[n] # {}
    /\ availMem' = availMem + Total(ready[n], image, MemOf)
    /\ dying' = dying \cup ready[n]
    /\ UNCHANGED <<availCPUs, ready, busy, stale, client, dockerVars, prewarmed>>

\* Fault for LeaseSpec: containers in use are destroyed with the warm ones.
ShutdownTakesBusy(n) ==
    /\ ready[n] # {}
    /\ availMem' = availMem + Total(ready[n], image, MemOf)
    /\ dying' = dying \cup ready[n] \cup busy[n]
    /\ busy' = [busy EXCEPT ![n] = {}]
    /\ Forget(ready[n])
    /\ UNCHANGED <<availCPUs, client, dockerVars, prewarmed>>

\* Deletion of the function named n.
ShutdownWarmContainersFor(n) ==
    /\ ready[n] # {}
    /\ availMem' = availMem + Total(ready[n], image, MemOf)
    /\ dying' = dying \cup ready[n]
    /\ Forget(ready[n])
    /\ UNCHANGED <<availCPUs, busy, client, dockerVars, prewarmed>>

\* One iteration of a deletion goroutine, which holds no lock.
DestroyDying(c) ==
    /\ c \in dying
    /\ dying' = dying \ {c}
    /\ \/ Destroy({c}) /\ UNCHANGED zombie
       \/ /\ "destroy" \in Faults
          /\ zombie' = zombie \cup {c}
          /\ UNCHANGED <<docker, image>>
    /\ UNCHANGED <<availMem, availCPUs, ready, busy, stale, client, prewarmed>>

\* The process of a container ends; the container remains until removed.
Exit(c) ==
    /\ "exit" \in Faults
    /\ docker[c] = "running"
    /\ docker' = [docker EXCEPT ![c] = "exited"]
    /\ UNCHANGED <<poolVars, client, image, zombie, prewarmed>>

-----------------------------------------------------------------------------
Next ==
    \/ \E w \in Clients, d \in Descs :
          \/ AcquireWarmContainer(w, d)
          \/ AcquireWarmOutOfCPU(w, d)
          \/ AcquireAborted(w, d)
          \/ \E stage \in {"starting", "prewarming"} :
                \/ AcquireResources(w, d, stage)
                \/ AcquireByDismissing(w, d, stage)
    \/ \E w \in Clients :
          \/ ColdStart(w)
          \/ PrewarmDone(w)
          \/ ColdStartFails(w)
          \/ ReleaseContainer(w, client[w].fun)
    \/ \E c \in Containers : Expire(c) \/ DestroyDying(c) \/ Exit(c)
    \/ \E n \in Names : ShutdownWarmContainersFor(n)
    \/ DeleteExpiredContainer

Spec == Init /\ [][Next]_vars

(* The janitor's ticker fires for ever, and a started goroutine runs.      *)
Fairness ==
    /\ WF_vars(DeleteExpiredContainer)
    /\ \A c \in Containers : WF_vars(DestroyDying(c))

FairSpec == Spec /\ Fairness
-----------------------------------------------------------------------------
(* Properties of every pool.                                               *)

Stages == {"idle", "starting", "prewarming", "running"}

(* Types: each stage of an activity carries exactly the function and the   *)
(* container that stage has.                                               *)
TypeOK ==
    /\ availMem \in Int
    /\ availCPUs \in Int
    /\ ready \in [Names -> SUBSET Containers]
    /\ busy \in [Names -> SUBSET Containers]
    /\ stale \subseteq Containers
    /\ dying \subseteq Containers
    /\ client \in [Clients -> [st : Stages,
                               fun : Descs \cup {NoFun},
                               cont : Containers \cup {NoCont}]]
    /\ \A w \in Clients : /\ client[w].fun = NoFun <=> client[w].st = "idle"
                          /\ client[w].cont # NoCont <=> client[w].st = "running"
    /\ docker \in [Containers -> {"absent", "created", "running", "exited"}]
    /\ image \in [Containers -> Descs \cup {NoFun}]
    /\ zombie \subseteq Containers
    /\ prewarmed \subseteq Containers

(* A container is in one list of one function's pool at most, so neither   *)
(* two acquisitions nor an acquisition and the janitor get the same one.   *)
ListsDisjoint ==
    /\ \A n \in Names : ready[n] \cap busy[n] = {}
    /\ \A m, n \in Names : m # n => (ready[m] \cup busy[m])
                                    \cap (ready[n] \cup busy[n]) = {}

(* A running request has its container in the busy list of its function,   *)
(* to itself: no other request has it, and it is not a prewarmed one.      *)
ExclusiveLease ==
    /\ \A w \in At({"running"}) :
          client[w].cont \in busy[NameOf[client[w].fun]] \ prewarmed
    /\ \A v, w \in At({"running"}) :
          client[v].cont = client[w].cont => v = w

(* Whatever the pool or a deletion goroutine may still use exists in       *)
(* Docker, and what is being deleted is in no list any more.               *)
NoDangling ==
    /\ Idle \cup Busy \cup dying \cup zombie \subseteq Started
    /\ (Idle \cup Busy) \cap (dying \cup zombie) = {}
    /\ dying \cap zombie = {}
    /\ prewarmed \subseteq Busy
    /\ stale \subseteq Idle

(* A container in a function's pool was created for a descriptor of that   *)
(* name, which a release for another function would break (pool.go:135).   *)
(* It need not be the descriptor that has the name now, although           *)
(* pool.go:108-110 calls a warm container initialised with the function's  *)
(* code: one that is busy or starting while its function is deleted and    *)
(* created again returns to the pool, and serves the new function's        *)
(* requests with the old code (f1 and f2 in MCContainerPool).              *)
PoolHasOwnName ==
    /\ \A n \in Names : \A c \in ready[n] \cup busy[n] :
          image[c] \in Descs /\ NameOf[image[c]] = n
    /\ \A c \in Started : image[c] \in Descs

(* AvailableMemMB plus what started containers and cold starts hold is the *)
(* configured pool, in every interleaving of the critical sections and     *)
(* after every failed Docker call; and it is never overdrawn.              *)
MemAccounting ==
    /\ availMem >= 0
    /\ availMem + Total(Charged, image, MemOf) + Total(Starting, fun, MemOf)
          = PoolMem

(* AvailableCPUs plus what cold starts, running requests and prewarmed     *)
(* containers hold is the configured pool.                                 *)
CpuAccounting ==
    /\ availCPUs >= 0
    /\ availCPUs + Total(Active, fun, CpuOf) + Total(prewarmed, image, CpuOf)
          = PoolCPUs

-----------------------------------------------------------------------------
(* The pool implements the leases of ContainerLease.                       *)

Holder(c) == {w \in At({"running"}) : client[w].cont = c}

leasePhase == [c \in Containers |->
    IF c \notin Started THEN "absent"
    ELSE IF c \in dying THEN "doomed"
    ELSE IF c \in Held THEN "leased"
    ELSE IF c \in Idle THEN "idle"
    ELSE "stranded"]

leaseHolder == [c \in Containers |-> Holder(c)]

Lease == INSTANCE ContainerLease WITH phase <- leasePhase, holder <- leaseHolder

(* Every step of the pool is a step of the lease protocol, or leaves all   *)
(* leases alone.                                                           *)
LeaseSpec == Lease!Spec

(* A container whose Expiration has passed does not stay warm for ever: it *)
(* is collected, or used again, which gives it a new Expiration.  One of a *)
(* deleted function is destroyed, or its failure is logged, whatever       *)
(* happens to the others that its goroutine has to destroy.                *)
GarbageIsCollected ==
    \A c \in Containers : /\ c \in stale ~> c \notin stale
                          /\ c \in dying ~> c \notin dying

-----------------------------------------------------------------------------
(* What comments and docs say of the pool, and the code does not do.       *)

(* pool.go:111-114: an acquisition that fails for lack of CPU returns an   *)
(* error and no container; a busy container is one that a request uses (or *)
(* one that was prewarmed).                                                *)
BusyIsHeld == Busy = Held \cup prewarmed

(* pool.go:232-234: warm containers are deleted to get memory for a new    *)
(* container, if and only if their memory suffices: when warm containers   *)
(* that have not expired are deleted, some caller gets its resources.      *)
DismissalPaysOff ==
    [][(\E c \in Idle \ stale : docker'[c] = "absent")
          => \E w \in Clients : /\ client[w].st = "idle"
                               /\ client'[w].st \in {"starting", "prewarming"}]_vars
=============================================================================
