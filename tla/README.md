# A TLA+ model of Serverledge

Serverledge is a decentralised Function-as-a-Service platform written in Go.
Every node runs functions in Docker containers that it keeps warm for a while,
decides for each invocation whether to run it here, to queue it, to offload it
or to drop it, and finds the other nodes and the functions in etcd.

This directory holds TLA+ modules of a node (the container pool, the scheduler
and its queue, the registry of functions and its cache), of what runs in a
container (the Executor) and of what joins the nodes (registration, the
monitoring of an edge area, the load balancer), the TLC configurations that
check them on small instances, and proofs, checked by TLAPS, that hold for every
instance.

## 1. Inventory

| component (directory under `src/`) | state | operations | made correct by |
|---|---|---|---|
| container pool (`internal/node`) | `Resources`: free memory and CPU, per function a list of warm and one of busy containers | acquire warm, new container, release, dismiss, delete expired, delete a function's, prewarm, shut down | exclusive leases; memory and CPU accounted for; no container of another function's name in a pool; expired containers collected |
| Docker factory (`internal/container`) | containers in the daemon, images pulled | create, copy, start, destroy, inspect; POST to the executor with retries | what the pool lists exists; a failed call leaves nothing behind |
| scheduler and policies (`internal/scheduling`) | channels of requests, completions and decisions; the default policy's queue | submit, decide, execute, complete, offload, publish | every invocation answered, with its own status and its own result; every lease comes back; FIFO queue |
| HTTP API (`internal/api`) | a `sync.Pool` of request objects | invoke, create, delete, prewarm, poll, status | no object reused while in use; 404/429/500 for the right reason |
| function registry (`internal/function`) | functions in etcd, copies in the node's cache | get, save, delete, list | the cache of each node converges to etcd |
| cache (`internal/cache`) | bounded map with expiration and age | set, get, delete, expire | size bound; the right victim |
| registration and monitoring (`internal/registration`) | lease in etcd, map of servers, map of neighbours, coordinates | register, deregister, monitor, monitor neighbours, rank, probe over UDP | servers that answer stay on the map, others leave it and come back; the monitor goes on |
| load balancer (`internal/lb`) | targets of the proxy | start, refresh every 30 s | targets follow the registrations; requests always have one |
| in-container executor (`internal/executor`, `cmd/executor`) | environment, parameter and result files in the container | invoke | a function runs once per invocation, and its result is its own |
| Python and Node.js executors (`images`) | none between requests | invoke | - |
| node process (`cmd/serverledge`) | chosen policy, registration | start, terminate on a signal | a clean end |
| utilities, metrics, configuration, CLI | etcd client, counters, settings | I/O | - |
| examples | - | sample functions, vendored rapidjson | - |

**Interactions.** An HTTP handler sends a request into a channel; the
scheduler's loop starts a goroutine that asks the pool for a container and sends
a decision back; the handler executes the function over HTTP in the container
and sends a completion; the loop releases the container and lets the policy look
at its queue.  The pool is shared by all of these goroutines, the janitor, the
deletion of functions and prewarming, under one lock that is released during the
slow Docker calls of a cold start.  In a container one HTTP handler per request
starts a process, which reads and writes two files that all handlers share.
Nodes register under keys in etcd, with leases; the monitor of an edge node and
the load balancer of a region follow these registrations, and the monitor writes
the map of neighbours that offloading reads.

**What is hard.** The window of a cold start between its two critical sections;
a dismissal that fails halfway; containers that are destroyed after their memory
was given back; the pointer to a request object that outlives its handler; a
completion that comes between the failed acquisition of an invocation and its
entry into the queue; a result published twice; a POST that is retried without
its body; a node that is registered under two keys after a crash; targets that
are exchanged one at a time under the eyes of the requests.  `PROJECT.json` lists them, each
at its line.

## 2. Modules

| module | models | notes |
|---|---|---|
| `ContainerLease` | what the pool promises: a container is leased to one activity at a time, is not taken from it, and is destroyed when given up | abstract |
| `ContainerPool` | `pool.go`, its caller's side of `internal/container`, the Docker daemon as the pool uses it | refines `ContainerLease` |
| `ContainerPoolProofs` | lemmas on sums, the inductive invariant, accounting of memory and CPU | TLAPS |
| `ContainerPoolRefinement` | the pool implements the leases | TLAPS |
| `BoundedFIFO` | what a policy expects of its queue | abstract |
| `FIFOQueue` | `queue.go`, the circular buffer | refines `BoundedFIFO` |
| `FIFOQueueProofs` | its indices, and the refinement | TLAPS |
| `Scheduler` | `InvokeFunction`, `SubmitRequest`, `SubmitAsyncRequest`, `Execute`, the loop, the five policies; extends `ContainerPool`, whose operations are conjuncts of its actions | composition |
| `FunctionCache` | `cache.go`, as operators from caches to caches | used by `FunctionRegistry` |
| `FunctionRegistry` | `function.go` and the handlers of creation, deletion and use; etcd, and the other nodes as what they write there | |
| `FunctionCacheProofs` | what `findLRU` returns in any order of iteration, and that the operations keep the cache's orders and its size | TLAPS |
| `FunctionRegistryProofs` | the cache keeps its size, and an insertion removes only what it may | TLAPS |
| `SchedulerProofs` | the agreement of an invocation's goroutines, whatever shared request objects name; and, when each object has one user at a time, answers that are final, results of its own, and the use of the pool that it expects | TLAPS |
| `Registration` | `registry.go`: keys, leases, starts, ends and crashes of nodes | |
| `EdgeMonitoring` | `registryLog.go`, `edgeNetUDPDiscovery.go`: the monitor of one edge node, and what offloading reads of it | extends `Registration` |
| `TargetSet` | what a load balancer promises: targets change one at a time, additions before removals, and nothing that was read last is removed | abstract |
| `LoadBalancer` | `lb.go` | extends `Registration`, refines `TargetSet` |
| `Fleet` | the two together | composition |
| `FleetProofs` | what the monitor and the load balancer keep, for any fleet, and that the load balancer implements `TargetSet` | TLAPS |
| `Executor` | `container.Execute` on the node, `server.go` in the container, and the process of a function | |
| `ExecutorProofs` | one execution per invocation, own results | TLAPS |
| `MC...` | the constants of small instances | TLC |

### ContainerPool

| code | model |
|---|---|
| `Resources.AvailableMemMB`, `AvailableCPUs` | `availMem`, `availCPUs`, whole units |
| `ContainerPools[f].ready`, `.busy` | `ready[n]`, `busy[n]`, sets: the code takes the front and calls the choice unimportant, so the front is any element |
| `warmContainer.Expiration` | `stale`, the containers for which it has passed |
| argument of the goroutine of `ShutdownWarmContainersFor` | `dying` |
| a caller between `acquireResources` and the second lock, or with a container | `client[w]`: a stage, a function, a container |
| Docker | `docker`, `image`; `Faults` names the calls that may fail |
| - | `zombie`, `prewarmed`: history variables, which no guard reads |

An exported operation holds the lock `Resources` throughout and is one action.
`NewContainer` is two: `AcquireResources`, `AcquireByDismissing` or
`AcquireAborted`, and later `ColdStart`, `PrewarmDone` or `ColdStartFails`.
`dismissContainer` visits the pools in an arbitrary order (a Go map) and gives
every item of a pool the id of its front; `Dismissable` and `DismissalStopsAt`
say in closed form which containers it can have destroyed when it succeeds and
when it gives up.  A sum over a set is the number of cells in a set of pairs,
so that the module needs no recursion and can be proved about.

A prewarming is any number of cold starts in a row whose containers nobody is
given; a release names the function the container was acquired for (the
scheduler's model is where another one can be named).

A descriptor is one definition of a name: `f1` and `f2` of `MCContainerPool` are
the function `f` before it was deleted and after it was created again.  Clients
ask for either at any time, as a node does whose cache still has the old one.
`image[c]` is the descriptor whose code `c` has, and the pools go by the name, so
a container of `f1` may serve a request for `f2`; `PoolHasOwnName` says no more
than that the names agree.

### Scheduler

Each invocation is a client of the pool.  `handler[r]` is the place of the HTTP
handler (or the goroutine of an asynchronous invocation), `arrival[r]` the place
of the goroutine of `OnArrival`, `sched` that of the loop.  An action ends where
other goroutines can interfere: at a lock, a channel, a Docker call, an
execution.  A `function.Request` object is an element of `Clients`, and
`request[r].obj` the one that `r` points to.  Of its fields `object` has those
that decide what happens, `fun` (`Fun`), `offload` (`CanDoOffloading`) and `id`,
the invocation whose `ReqId`, `Params` and `ReturnOutput` are in it; `report` has
its `ExecReport`, as the invocation from whose parameters the result in it was
computed, which stays until the next success is written over it.  All
goroutines that have the pointer read and write the same fields: `Execute` and
`Offload` take `given[r]` from the object when they begin and write its `report`
when they succeed, and the answer, or what is published, takes the `report` that
is there by then (`result`).

`freed` are the objects that were put back: by a synchronous handler with its
answer, by the handler of an asynchronous invocation at once, before the
goroutine that it started is done with the object.  `Invoke` takes a new object
or one of `Reusable`: with `Recycle` any that was put back, as `sync.Pool` may
hand them out; without it one that no goroutine uses any more, neither a handler
nor the loop by a completion that it has not received.  Either way it overwrites
the fields, but for the result.  They are written at once here, although the code
writes one after the other.  A result is published under the `ReqId` that the
object has by then; nobody polls for the one of a synchronous invocation, so what
is published under it is left out.  `OnCompletion` runs in the loop and
holds the queue's lock from its first acquisition to its second, which
`QueueUnlocked` makes the arrivals respect.

The remote node of an offload is the set of its answers; an asynchronous
invocation that it accepts has the outcome `remote`.  Which neighbour is
picked, and whether there is one, is a nondeterministic choice here;
`EdgeMonitoring` says what there is to choose from.

### FIFOQueue

The four fields of the buffer, and the result of the last call.  The scheduler
uses a sequence for the queue, which is what `BoundedFIFO` is; the proof in
`FIFOQueueProofs` is the link.

### FunctionCache, FunctionRegistry

A cache is a record: `items`, the map; `older`, the order of the fields `Age`, as
the set of its pairs; `live`, the items that have not expired; `sooner`, the
order of their `Expiration`, which is the order of the calls of `Set` since all
of them use the same delay.  `Touch` puts an item at the end of an order, `Leave`
takes it out.  `Better` is one iteration of the loop in `findLRU`, and `findLRU`
the fold of it over the order in which Go happens to iterate over the map; `Set`
returns the caches it may leave, one for each such order.

`handler[h]` is the place of a handler between its accesses to the cache and to
etcd, and what it read.  `DeleteFunction` goes on with
`ShutdownWarmContainersFor`, which is in `ContainerPool`.  Nodes meet in etcd
only, so the module has one node's handlers and cache, and `OtherNode` writes in
etcd what any number of other nodes may write.  An error of etcd comes before or
after its effect.

### Registration, EdgeMonitoring, LoadBalancer, Fleet

A node registers at each start, under a key it makes up; `NodeOf` gives the node
of a key, so the set `Keys` bounds the starts of each node.  `running[n]` is the
key of n's process, `registered` the keys in etcd: they disagree after a crash,
after a lost lease, and when etcd fails in the middle of a registration.

`servers` and `nearby` are the two maps of the monitor, by key.  The goroutine
`runMonitor` is `monitor`; an iteration of a loop over servers is an action
(`Probe`, `ProbeNearby`), since an exchange over UDP takes its time, while the
maps are under one lock until the phase ends: another reader could see them
between the steps only without that lock, as `PickEdgeNode` does.  `getRank`
fills a buffer that already has one zero entry per server, which sort first;
`Ranked` is what remains.  A status cannot be had from a node without a process,
nor from one in `mute`: `statusInfoRequest` also returns nil when the address
cannot be resolved or dialled, when a write or a read fails, when the server could
not make its status up, and when the JSON is too long for 1024 bytes, which a
node with many warm functions makes it.  `StatusChanges` lets a node of `Mutable`
get out of reach and back at any time, in the middle of a phase too.  A lost
datagram leaves the monitor `blocked`, since its socket has no deadline.
`triggers` counts goroutines that wait to start a complete phase.

The targets of the load balancer are a bag of names (`getTargets` counts the
registrations of each node), because a node that is registered twice is read
twice.  `updateTargets` compares the new reading with the previous one, not with
the proxy's list, and adds and removes one name at a time: `AddTarget`,
`RemoveTarget`.  `doubled` is a history variable.  `TargetSet` forgets all of
that: it has the names in use (`used`) and those that were read last (`listed`).

### Executor

`client[r]` is `container.Execute` on the node, `handler[r]` the HTTP handler in
the container.  The body of a request is a buffer that the first POST empties
(`body`): a retry after a broken connection has none, and the Executor answers
it with an error.  `paramsVar` is the environment variable `PARAMS_FILE` of the
Executor's process, of which the function's process has a copy (`source`);
`paramsFile` and `resultFile` are named by the invocation whose parameters they
come from, so that a foreign result can be told from an own one.  The sample
function `examples/c++/function.cpp` is `ReadParams` and `EndProcess`.  Waiting
times are whole milliseconds, with the doubling and the bounds of the code.

## 3. Runs

| run | instance | shows |
|---|---|---|
| `Pool` | 3 containers, 2 clients, memory 3, CPU 2, two functions, one of them created twice with different demands; `start`, `destroy` and `exit` may fail; fairness | types, disjoint lists, exclusive leases, nothing dangling, pools with containers of their own name only, accounting; `ContainerLease`; expired containers are collected or used again, and those of deleted functions destroyed |
| `SchedQueued` | 3 invocations, default policy, queue of 2, memory 2, CPU 2, synchronous or not, failing create | the queue's consistency; nobody waits for a decision that is not going to come; leases on their way back; each success is answered with the result of its own parameters, although objects are used again; every step of the node is one of the pool (`PoolSpec`) |
| `SchedLive` | 2 invocations, four policies, no queue, three kinds of invocations, failing create, fairness | types, answers whose status is what happened, final ones, and none missing when a goroutine ends; every invocation is answered or accepted by another node; leases end |
| `Queue` | capacity 3, 3 requests | indices, FIFO order |
| `Registry` | 3 functions, one of which exists in two definitions, a cache of 2, 2 handlers that race for one function while the others fill the cache, other nodes, failing etcd | types, with the cache's orders and size; an insertion removes only what was used least recently, or before some item that has expired; caches converge to etcd |
| `Fleet` | two edge nodes with two starts each, or two cloud nodes (one with two starts) and the load balancer's host; one edge node whose status may get out of reach; all faults; fairness | servers that answer are kept, those that do not are forgotten, newcomers and those that answer again are found; only a lost datagram stops the monitor; the proxy's targets follow the registrations, as `TargetSet` says |
| `Executor` | 2 invocations, one without parameters, time limit 4, waits of 1 and 2, with and without a command, all faults; fairness | one execution for each invocation; own results unless one was given up or wrote none; `Execute` returns |
| `PoolBusyLeak`, `PoolDismissal`, `SchedQueue`, `SchedRecycle`, `ExecutorReset` | smallest instances | that the code does not do what a comment or document says, see section 5 |

**Bounds.** Memory 3 with demands 1 and 2 is the smallest pool in which a
dismissal needs containers of two pools, in which it can fail with something
destroyed, and in which a demand is met by free memory, by dismissal, or not at
all.  Two clients suffice for each pair of critical sections to interleave, with
the janitor, the deletions and the clock besides; three containers fill the
pool.  In `SchedQueued` two running invocations leave the third one neither
memory nor CPU, and two of them can wait while one runs.  What the policy
`edgecloud` does, `custom1` may do as well (`OffloadOrDrop`, with one more
choice), so `SchedLive` leaves it out; and `Mixed` has the three kinds of
invocations that between them take every step of a handler.  `PoolMem`,
`PoolCPUs`, `QueueCap`, `MaxDemand` are the bounds by name.  An invocation of
the model is made once, so a run is finite in invocations and not in time.

A cache of two items with a third function to insert is the smallest in which
the choice of a victim matters, and two handlers suffice for each pair of their
steps to interleave.  `CacheSize` and `Requests` bound that run; the clock needs
no bound, since only the order of ages and expirations is kept.

In `Fleet` a second key of a node is its restart, with the key of its first
start still in etcd or not; `Keys` bounds the starts.  The monitor and the load
balancer read disjoint areas of etcd, so either kind of node suffices beside
each of them (`Deployments`), and the product of the two would show no more.
With `Rank` 2, one server is less than the rank, and two keys (the other node's
former and present one) are not: both cases of `Ranked` happen.  `MaxTriggers`
bounds the goroutines that wait for `etcdCh`; `Mutable` is one node, since the
monitor asks for one status at a time.  In `Executor` the limit of 4 with
waits 1, 2, 2, ... allows two retries and refuses the third; the body is gone at
the first.

`CHECK_DEADLOCK FALSE` stands where the system may really stop: a node whose CPU
is charged to prewarmed containers only refuses, and a node without further
invocations rests.

Both runs of the scheduler in which TLC must find no error give each request
object one user at a time, and one after the other as many as there are.  What
holds without that is proved, for objects that are shared in any way;
`SchedRecycle` shows what does not hold.

**Symmetry** of containers and clients is used in `SchedQueued` only, which
checks no liveness.

**Fairness.** `Fairness` of the pool: the janitor's ticker fires for ever
(`janitor.run`), and a goroutine that was started runs, so weak fairness of
`DeleteExpiredContainer` and of each `DestroyDying`.  `SchedFairness` adds weak
fairness of every goroutine's steps and strong fairness of each case of the
loop's `select`, which picks at random among the channels that are ready.  It
presumes that functions end, that Docker and etcd answer, and nothing about
arrivals, exits, deletions, or the clock.
`RegistryFairSpec`: handlers run and time passes, so weak fairness of each
handler and of `Expire`; the janitor of the cache is not needed.
`FleetFairness`: the goroutine of the monitor runs, and its ticker fires even if
other cases of its `select` are ready again and again (strong fairness of
`Wake`); the updates of the load balancer go on, and etcd answers it now and
then (strong fairness of a reading that succeeds).  Starts, ends, crashes, leases
and faults are free.  `ExecFairness`: a POST ends one way or another, handlers
run, functions end, and a completed invocation gives its container back; the
Executor need not ever listen.

## 4. Proofs

Assumptions: `SetsAssumption` (containers and clients are finite, the markers
`NoFun` and `NoCont` are not among what they mark), `DemandAssumption` (demands
of memory are positive and bounded by `MaxDemand`), and for CPU `CappedCpu` (no
demand is negative; a demand of -1, documented as "no cap", would break the
accounting).  For the queue, `QueueAssumption`: a positive capacity.  For the
scheduler, `SchedAssumption`.  Four of its theorems also assume `~Recycle`, that a
`function.Request` object is handed out again only when nobody uses it.  The code
does not see to that (`SchedRecycle` is the counterexample), so what these prove is that nothing
else can go wrong; the other theorems hold whatever the objects name by the time
they are read.  For the registry, `CacheAssumption` and `RegistryAssumption`.
For the others, the assumptions of their modules: finite sets of nodes and keys, a
positive time limit, a first wait not above the largest one.

- `TypeCorrect`, `StructureHolds`.  `Structure` is the inductive invariant.  Its
  parts need each other: an acquisition keeps leases exclusive because the lists
  are disjoint; they stay disjoint at a cold start because Docker's new id is in
  no list, which needs `NoDangling`; a destroyed container is nobody's because
  what is destroyed is warm, and no warm container is leased.  The parts are the
  theorems `ListsStayDisjoint`, `LeasesAreExclusive`, `NothingDangles` and
  `PoolsKeepNames`.
- `MemoryAccounted`, `CpuAccounted`.  With `Structure`, each step moves a demand
  between three sums (free, charged to containers, charged to cold starts);
  the lemmas `TotalAdd`, `TotalDifference`, `ClientJoins`, `ContainersLeave` and
  so on say what a step does to a sum.
- `PoolImplementsLease`: `Spec => LeaseSpec` under the mapping `leasePhase`,
  `leaseHolder`, with a step of the leases for each action of the pool.
- `PositionsHold`, `BufferImplementsFIFO`: for every capacity; the arithmetic of
  the wrap-around is in the lemmas `Wrap`, `At` and `NextSlot`.
- `RegistryTypeCorrect`, `InsertionsTakeOnlyTheOld`, for a cache of any size.
  `IsCache` is inductive for each operation: `older` stays a total order of the
  stored items and `sooner` one of those that have not expired, and an insertion
  into a full cache removes an item.  That needs what `findLRU` returns
  (`VictimIsOld`): an item of the map, which is the least recently used one, or
  has expired, or was used before some item that has expired.  It is a fold, so
  it takes induction; `FunctionCacheProofs` derives induction over naturals as a
  statement about sets (`SetInduction`) and what a fold does at its end from the
  definition of `FoldLeft`, and then goes along the sequence.
- `SchedulerTypeCorrect`, `LeasesAreOnTheirWay`, `QueueStaysConsistent`,
  `NobodyStaysForgotten`, `AnswersStayTrue`, for any number of invocations, any
  policy and any queue, and any sharing of request objects.
  The inductive invariant `SchedInv` says, for one invocation at a time, that the
  places of its goroutines, its decision channel and what it holds of the pool
  agree (`Consistent`), and that its status goes from the execution to the answer
  (`Truthful`): the error that the status depends on is a local variable, so no
  sharing reaches it.  The results are another matter, see below.  None of the
  properties is inductive alone: that a lease is not on its way twice needs that an undecided invocation has no decision yet, that
  its client is idle or starting, and that `completions` repeats nobody.  A step
  concerns one invocation (`StepOfOne`), the others are framed (`Frame`).  That
  the pool is handed functions that are not the invocations' own breaks none of
  it, so the proof uses only what the pool's steps do to `client`.
- `AnswersStayFinal`, `AllAreAnsweredWhenDone`, `AnswersCarryOwnResult`, under
  `~Recycle`, from `OwnInv`: the object of an invocation in progress is its own,
  and no other that is in progress has the same (`Own`), so that a result is
  published under its own id; what has been answered at each place of the handler
  (`Answered`); and whose parameters were given to an execution and whose result
  is in the object and in the answer (`Resulted`).  An object goes from one
  invocation to the next with the old result in it, so the step that matters is
  `InvokeOwns`: who gets an object that was used before finds nobody using it.
- `SchedulerUsesPool`, under `~Recycle`: `SchedSpec => PoolSpec`, because by
  `OwnInv` a release names the function of the acquisition, and by `SchedInv` an
  acquisition finds its client idle.  So all theorems about the pool hold of the
  scheduler's pool.
- `ExecutorTypeCorrect`, `ExecutedOnce`, `ResultsAreOwn`.  `Patient` bounds the
  waiting time (who may still post has not waited for the whole time); one
  execution needs that a body, once read, is gone (`Consumed`); own results need
  that the handler of an invocation that was not given up runs under its lease,
  so that the files are its own from `WriteParams` to `Reply` (`Undisturbed`).
- `FleetTypeCorrect`, `AnsweringServersStay`, from `Monitored`: while a phase
  probes, every server on the map that is still registered is in its snapshot,
  since a key that is registered later is a new one.  So only a request for its
  status that brings none takes it off, and that may be a live server's.
- `TargetsArePresent`, `GhostsComeDoubled`, `RequestsHaveTarget`, from
  `Balanced`: for each phase of an update, which names the proxy has between the
  previous reading and the new one.
- `BalancerImplementsTargetSet`: an addition is of a name that was read, since
  `pending` is part of the reading; a removal is of one that was not, and comes
  when all names of the reading are in use.  Both are parts of `Balanced`.

Only model-checked is everything with fairness, which is out of the prover's
reach: `GarbageIsCollected`, `CachesConverge`, `EveryRequestAnswered`,
`LeasesEnd`, `DeadAreForgotten`, `NewcomersAreFound`, `MonitorStopsOnlyOnLoss`,
`RegisteredAreTargets`, `ExecuteReturns`.  All other properties of the passing
runs are theorems.

## 5. Where the code and its documents differ

| run | property | what happens |
|---|---|---|
| `PoolBusyLeak` | `BusyIsHeld` | a warm acquisition refused for CPU leaves its container busy, used by nobody, for ever |
| `PoolDismissal` | `DismissalPaysOff` | all items of a pool carry the front's id: the second Destroy fails, the request is refused, containers are deleted or lost |
| `SchedQueue` | `EveryRequestAnswered` | the last completion comes between a failed acquisition and the enqueueing: the invocation waits for ever |
| `SchedRecycle` | `ServedByOwnFunction` | a completion reads the function of a recycled object: the container enters the pool of a function of another name |
| `ExecutorReset` | `ResultIsOwn` | a connection breaks after the body was sent; the retry has no body, is refused, and the invocation is given up while its function runs; the next invocation in that container is told a result that is not its own |

Others are part of the models, and their consequences of the properties, without
a run of their own:

- After a failed asynchronous execution a second result is published, with
  `Success: true` (scheduler.go:139-141; `PublishResult`), and with the
  `ExecReport` of the object, which may be of an earlier invocation.
  `AnswersAreFinal` says that no other answer is ever replaced, and
  `ResultsAreOwn` that what follows a success is its own result, if objects are
  not shared.
- The object of an asynchronous invocation is recycled while its goroutine uses
  it: it may be executed with the parameters of another invocation
  (execution.go:20, 27), its result may be published under the id of another one,
  so that a poll for its own finds nothing, and two executions write one
  `ExecReport`, which the answer of either may carry (execution.go:49-56, api.go:58,
  72-75, 85; `Invoke`, `Publish`, `SetReport`).  `AnsweredWhenDone` and
  `ResultsAreOwn` hold only without `Recycle`, as their theorems say; the mutant
  of `ResultsAreOwn` is what the code does.
- A function that is deleted and created again while one of its containers is in
  use gets that container back into its pool, with the old code
  (`ReleaseContainer`), while pool.go:108-110 says that a warm container was
  initialised with the function's code.  If another node deleted and created it,
  all warm containers of this node go on with the old code until they expire.
  `PoolHasOwnName` compares names and holds.
- An error of etcd is taken for a function that does not exist (function.go:76),
  so that a creation overwrites one that does; two creations of one name both
  succeed, as the TODO at api.go:128 says (`getFromEtcd`, `PutFunction`).  The
  cache converges nevertheless.
- `findLRU` takes an expired item for its candidate whatever its age, and that
  age is then the one to beat: with three items or more an insertion may remove
  one that is neither expired nor the least recently used, while cache.go:82
  speaks of "the least used item into the cache or an expired one" (`Better`).
  `InsertionsTakeTheOld` says what holds instead.
- An asynchronous invocation that another node accepts gets its result under that
  node's id, which the client was not told (offloading.go:97; the outcome
  `remote`).
- The neighbours are the empty key as soon as there are as many servers as
  `getRank` is asked for (registryLog.go:118); whoever reads their status
  dereferences nil (`ProbeNearby`, `PickEdgeNode`).
- A server that runs and is registered is deleted from the map when its status
  cannot be had, be it that its JSON has more than 1024 bytes
  (edgeNetUDPDiscovery.go:117, 128-132, registryLog.go:74-78, 142-148), and does
  not return while that is so.  `AnsweringAreKept` says that nothing else takes it
  off, `NewcomersAreFound` that it returns.
- A node that restarts finds the key of its former start, and may have itself as
  a server and a neighbour (registryLog.go:66).
- A lost datagram blocks the monitor for ever, with the lock
  (edgeNetUDPDiscovery.go:118; `MonitorStopsOnlyOnLoss` says that nothing else
  does).
- After an error of etcd the load balancer removes all of its targets (lb.go:71);
  a node that was registered twice when it started leaves a target behind
  (lb.go:100; `GhostsWereDoubled` says that nothing else does).

## 6. Not modelled, and why

- `ShutdownAllContainers`: it runs once, before the process exits, and the pool
  that it leaves (destroyed containers in the busy lists) is read by nobody
  afterwards.  The termination handler's deregistration is `Deregister`.
- The registration of the load balancer itself, which no node reads.
- The Python and Node.js executors in `images`: they call the function in their
  own process, with the parameters at hand, and keep nothing between requests.
- Vendored code, which is rapidjson in `examples/c++`, and the sample functions
  but for the protocol of `function.cpp` with its Executor.  The program is
  written in Go; by size, nearly all of the repository's C and C++ is that
  library, which is not part of the system and is not modelled.
- The choice of ids: two asynchronous invocations may share one, since it is made
  of the fraction of a second (api.go:67); an invocation of the model has its own.
- Coordinates and the contents of a status, which only order the neighbours, but
  for its length: whether it fits is a nondeterministic choice (`StatusChanges`).
- The definition that a name has now, in the pool: it tells code by descriptors,
  and does not know which of them etcd has.
- Image pulls and tar archives: I/O that changes no state the properties see.
- The containers of a deleted function need memory until they are destroyed,
  after the pool gave it back: Docker may use more than the pool's memory.
- The iteration of `pickEdgeNodeForOffloading` over a map that is written
  meanwhile is the end of the process that Go makes of it (`PickEdgeNode`); other
  outcomes of that race are not modelled.
- An unknown runtime in `NewContainerWithAcquiredResources`: `CreateFunction`
  refuses such a function.
- `GetMemoryMB` failing (its error is ignored): Docker's inspection of a listed
  container is taken to succeed.
- The capacity of 500 of the two channels of the scheduler.
- Latencies, metrics and logs, and of a report all but whose result it is.
- Floating-point rounding of the CPU count.

## 7. Plan

What could be added:

1. Two nodes: asynchronous results and their ids across an offload, and the
   neighbours of `EdgeMonitoring` in the place of the choice in `PickEdgeNode` of
   `Scheduler`.
2. `NodeShutdown`: termination and restart with the containers left in Docker.
3. Runs with shared request objects for what `SchedInv` proves of them, and for
   the results that then go to the wrong id.
4. The registry's definitions in the pool, so that the code that a request is
   served with can be compared with what etcd has.
