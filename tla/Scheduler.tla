----------------------------- MODULE Scheduler -----------------------------
(***************************************************************************)
(* The scheduler of a node (internal/scheduling) with the HTTP handler of  *)
(* an invocation (internal/api, InvokeFunction) and the container pool.    *)
(*                                                                         *)
(* An invocation r is served by goroutines that meet in channels: the      *)
(* handler, which submits r and waits for a decision; OnArrival(r), one    *)
(* goroutine per invocation; the scheduler's loop, which releases the      *)
(* container of a completed invocation and runs OnCompletion itself; and   *)
(* the goroutine of a cold start from the queue.  An action is what one of *)
(* them does between two points where others can interfere: a lock, a      *)
(* channel, a Docker call, or the execution of the function.               *)
(*                                                                         *)
(* Invocations are the Clients of ContainerPool.                           *)
(***************************************************************************)
EXTENDS ContainerPool, Sequences, Functions

CONSTANTS
    Policies,     \* the scheduling policies that may be configured
    QueueCap,     \* scheduler.queue.capacity; 0: no queue
    Recycle,      \* whether sync.Pool hands out objects that were put back
                  \* while a goroutine still uses them
    Kinds         \* the kinds of invocations: asynchronous or not, and
                  \* CanDoOffloading or not

AllPolicies == {"default", "cloudonly", "edgecloud", "edgeonly", "custom1"}

ASSUME SchedAssumption ==
    /\ Policies \subseteq AllPolicies
    /\ QueueCap \in Nat
    /\ Recycle \in BOOLEAN
    /\ Kinds \subseteq [async : BOOLEAN, offload : BOOLEAN]

VARIABLES
    policy,       \* the configured policy
    request,      \* what each invocation asks for, and its function.Request
    object,       \* the function.Request objects: the fields Fun and
                  \* CanDoOffloading, and the invocation (id) that the others
                  \* are of: ReqId, Params, ReturnOutput
    report,       \* their field ExecReport: the invocation that the result in
                  \* it is of, by its Params
    freed,        \* the objects that were Put back into requestsPool
    handler,      \* where the handler (or SubmitAsyncRequest) of each one is
    arrival,      \* where the goroutine that schedules each one is
    decision,     \* decisionChannel of each one, of capacity 1
    queue,        \* the queue of the default policy
    completions,  \* the channel completions
    sched,        \* where the scheduler's loop is
    given,        \* the invocation whose Params each execution was given
    outcome,      \* (history) how the execution of each one ended, here or
                  \* there, or that another node accepted it for later
    reply,        \* the HTTP status, or whether a success is published in etcd
                  \* under the ReqId of an asynchronous invocation
    result        \* the invocation that the result in a reply of success is of

requestVars == <<request, object, freed>>
resultVars == <<report, given, result>>
schedVars == <<policy, requestVars, handler, arrival, decision, queue,
               completions, sched, outcome, reply, resultVars>>
allVars == <<vars, schedVars>>

Drop == [action |-> "DROP", cont |-> NoCont]
ExecLocal(c) == [action |-> "EXEC_LOCAL", cont |-> c]
ExecRemote == [action |-> "EXEC_REMOTE", cont |-> NoCont]

NoRequest == [fun |-> NoFun, obj |-> NoCont, async |-> FALSE]
NoObject == [fun |-> NoFun, id |-> NoCont, offload |-> FALSE]

\* r.Fun, r.ReqId (or Params) and r.CanDoOffloading, as any goroutine reads them
\* through the pointer it was given.
Fun(r) == object[request[r].obj].fun
ReqId(r) == object[request[r].obj].id
CanDoOffloading(r) == object[request[r].obj].offload

SchedInit ==
    /\ Init
    /\ policy \in Policies
    /\ request = [r \in Clients |-> NoRequest]
    /\ object = [o \in Clients |-> NoObject]
    /\ freed = {}
    /\ handler = [r \in Clients |-> "idle"]
    /\ arrival = [r \in Clients |-> "idle"]
    /\ decision = [r \in Clients |-> <<>>]
    /\ queue = <<>>
    /\ completions = <<>>
    /\ sched = "select"
    /\ outcome = [r \in Clients |-> "none"]
    /\ reply = [r \in Clients |-> "none"]
    /\ report = [o \in Clients |-> NoCont]
    /\ given = [r \in Clients |-> NoCont]
    /\ result = [r \in Clients |-> NoCont]

-----------------------------------------------------------------------------
(* The handler.                                                            *)

\* InvokeFunction up to the channel requests, with the object o.  Whatever
\* result the object has from an earlier use, it keeps.  The handler of an
\* asynchronous invocation returns at once, and its deferred Put with it.
InvokeWith(r, o, d, async, offload) ==
    /\ handler[r] = "idle"
    /\ request' = [request EXCEPT ![r] = [fun |-> d, obj |-> o, async |-> async]]
    /\ object' = [object EXCEPT ![o] = [fun |-> d, id |-> r, offload |-> offload]]
    /\ freed' = IF async THEN freed \cup {o} ELSE freed \ {o}
    /\ handler' = [handler EXCEPT ![r] = "waiting"]
    /\ arrival' = [arrival EXCEPT ![r] = "submitted"]
    /\ UNCHANGED <<vars, policy, decision, queue, completions, sched, outcome,
                   reply, resultVars>>

\* Fault for ResultsAreOwn: objects are handed out again at once.
InvokeShared(r, d, async, offload) ==
    \E o \in {r} \cup freed : InvokeWith(r, o, d, async, offload)

\* The objects that sync.Pool may hand out again.
Reusable ==
    {o \in freed :
       \/ Recycle
       \/ \A r \in Clients : request[r].obj = o =>
             handler[r] = "done" /\ r \notin Range(completions)}

\* The object is a new one, named after r, or one that was put back.
Invoke(r, d, async, offload) ==
    \E o \in {r} \cup Reusable : InvokeWith(r, o, d, async, offload)

\* The end of a synchronous handler: it answers, and puts its object back.  A
\* success carries what is in the object's ExecReport by then.
Answer(r, status) ==
    /\ reply' = [reply EXCEPT ![r] = status]
    /\ result' = IF status = "success"
                 THEN [result EXCEPT ![r] = report[request[r].obj]] ELSE result
    /\ handler' = [handler EXCEPT ![r] = "done"]
    /\ freed' = freed \cup {request[r].obj}

\* publishAsyncResponse, after which the goroutine goes on to stage.  What is
\* published under the ReqId of a synchronous invocation, nobody reads.
Publish(r, status, stage) ==
    /\ IF request[ReqId(r)].async
       THEN /\ reply' = [reply EXCEPT ![ReqId(r)] = status]
            /\ result' = IF status = "success"
                         THEN [result EXCEPT ![ReqId(r)] = report[request[r].obj]]
                         ELSE result
       ELSE UNCHANGED <<reply, result>>
    /\ handler' = [handler EXCEPT ![r] = stage]
    /\ UNCHANGED freed

\* SubmitRequest and SubmitAsyncRequest: the decision is received.  Execute and
\* Offload begin by reading the Params.
ReceiveDecision(r) ==
    /\ handler[r] = "waiting"
    /\ decision[r] # <<>>
    /\ decision' = [decision EXCEPT ![r] = Tail(@)]
    /\ CASE Head(decision[r]).action = "EXEC_LOCAL" ->
              /\ handler' = [handler EXCEPT ![r] = "executing"]
              /\ given' = [given EXCEPT ![r] = ReqId(r)]
              /\ UNCHANGED <<reply, result, freed>>
         [] Head(decision[r]).action = "EXEC_REMOTE" ->
              /\ handler' = [handler EXCEPT ![r] = "offloading"]
              /\ given' = [given EXCEPT ![r] = ReqId(r)]
              /\ UNCHANGED <<reply, result, freed>>
         [] Head(decision[r]).action = "DROP" ->
              /\ IF request[r].async THEN Publish(r, "failure", "done")
                                     ELSE Answer(r, "overload")
              /\ UNCHANGED given
    /\ UNCHANGED <<vars, policy, request, object, arrival, queue, completions,
                   sched, outcome, report>>

\* What came back after a success is the new ExecReport of the object.
SetReport(r, status) ==
    report' = IF status = "success"
              THEN [report EXCEPT ![request[r].obj] = given[r]] ELSE report

\* Fault for LeaseOnItsWay and LeasesEnd: an error path that does not notify
\* the scheduler.
ExecuteForgetsError(r) ==
    /\ handler[r] = "executing"
    /\ \E o \in {"success", "failure"} :
          /\ outcome' = [outcome EXCEPT ![r] = o]
          /\ handler' = [handler EXCEPT ![r] = o]
          /\ completions' = IF o = "success" THEN Append(completions, r)
                                            ELSE completions
          /\ SetReport(r, o)
    /\ UNCHANGED <<vars, policy, requestVars, arrival, decision, queue, sched,
                   reply, given, result>>

\* Execute: the function ends, or the container does not answer; either way
\* the scheduler is told first.
Execute(r) ==
    /\ handler[r] = "executing"
    /\ \E o \in {"success", "failure"} :
          /\ outcome' = [outcome EXCEPT ![r] = o]
          /\ handler' = [handler EXCEPT ![r] = o]
          /\ SetReport(r, o)
    /\ completions' = Append(completions, r)
    /\ UNCHANGED <<vars, policy, requestVars, arrival, decision, queue, sched,
                   reply, given, result>>

\* Fault for AnswersAreTrue: the error of SubmitRequest is not looked at.
RespondAlwaysOK(r) ==
    /\ handler[r] \in {"success", "failure", "overload"}
    /\ ~request[r].async
    /\ Answer(r, "success")
    /\ UNCHANGED <<vars, policy, request, object, arrival, decision, queue,
                   completions, sched, outcome, report, given>>

\* What the handler makes of the outcome.
Respond(r) ==
    /\ handler[r] \in {"success", "failure", "overload"}
    /\ ~request[r].async
    /\ Answer(r, handler[r])
    /\ UNCHANGED <<vars, policy, request, object, arrival, decision, queue,
                   completions, sched, outcome, report, given>>

\* Fault for AnswersAreFinal: the error is looked at after the publication.
PublishResultFirst(r) ==
    /\ request[r].async
    /\ \/ /\ handler[r] = "failure"
          /\ IF reply[r] = "none" THEN Publish(r, "success", "failure")
                                  ELSE Publish(r, "failure", "done")
       \/ handler[r] = "success" /\ Publish(r, "success", "done")
    /\ UNCHANGED <<vars, policy, request, object, arrival, decision, queue,
                   completions, sched, outcome, report, given>>

\* SubmitAsyncRequest: after an error it publishes a failure, and then goes on
\* to what it does after a success.
PublishResult(r) ==
    /\ request[r].async
    /\ \/ handler[r] = "failure" /\ Publish(r, "failure", "success")
       \/ handler[r] = "success" /\ Publish(r, "success", "done")
    /\ UNCHANGED <<vars, policy, request, object, arrival, decision, queue,
                   completions, sched, outcome, report, given>>

\* Offload: the remote node serves the invocation, refuses it, or fails.
Offload(r) ==
    /\ handler[r] = "offloading"
    /\ ~request[r].async
    /\ \E o \in {"success", "overload", "failure"} :
          /\ outcome' = [outcome EXCEPT ![r] = o]
          /\ handler' = [handler EXCEPT ![r] = o]
          /\ SetReport(r, o)
    /\ UNCHANGED <<vars, policy, requestVars, arrival, decision, queue,
                   completions, sched, reply, given, result>>

\* Fault for AnsweredWhenDone: the error of the remote node is only logged.
OffloadAsyncUnchecked(r) ==
    /\ handler[r] = "offloading"
    /\ request[r].async
    /\ handler' = [handler EXCEPT ![r] = "done"]
    /\ \E o \in {"none", "remote"} : outcome' = [outcome EXCEPT ![r] = o]
    /\ UNCHANGED <<vars, policy, requestVars, arrival, decision, queue,
                   completions, sched, reply, resultVars>>

\* OffloadAsync: the remote node accepts, under an id of its own, or fails.
OffloadAsync(r) ==
    /\ handler[r] = "offloading"
    /\ request[r].async
    /\ \/ /\ Publish(r, "failure", "done")
          /\ UNCHANGED outcome
       \/ /\ handler' = [handler EXCEPT ![r] = "done"]
          /\ outcome' = [outcome EXCEPT ![r] = "remote"]
          /\ UNCHANGED <<reply, result, freed>>
    /\ UNCHANGED <<vars, policy, request, object, arrival, decision, queue,
                   completions, sched, report, given>>

-----------------------------------------------------------------------------
(* OnArrival, in a goroutine per invocation.                               *)

\* Fault for SchedTypeOK: the channel has room for more decisions.
DecideTwice(r, dec, stage) ==
    /\ decision' = [decision EXCEPT ![r] = Append(@, dec)]
    /\ arrival' = [arrival EXCEPT ![r] = stage]

\* A decision is sent; the channel has room for one.
Decide(r, dec, stage) ==
    /\ decision[r] = <<>>
    /\ decision' = [decision EXCEPT ![r] = <<dec>>]
    /\ arrival' = [arrival EXCEPT ![r] = stage]

GoOn(r, stage) ==
    /\ arrival' = [arrival EXCEPT ![r] = stage]
    /\ UNCHANGED decision

\* The loop receives r from the channel requests and starts OnArrival(r).
TakeRequest(r) ==
    /\ sched = "select"
    /\ arrival[r] = "submitted"
    /\ GoOn(r, CASE policy = "cloudonly" -> "fallback"
                  [] policy = "edgeonly" -> "pick"
                  [] OTHER -> "warm")
    /\ UNCHANGED <<vars, policy, requestVars, handler, queue, completions,
                   sched, outcome, reply, resultVars>>

\* EdgePolicy does not return after a warm start: it falls through to the drop.
\* DefaultLocalPolicy tries a cold start only if there was no warm container;
\* the others do after any error.
TryWarm(r) ==
    /\ arrival[r] = "warm"
    /\ \/ /\ AcquireWarmContainer(r, Fun(r))
          /\ Decide(r, ExecLocal(client'[r].cont),
                    IF policy = "edgeonly" THEN "drop" ELSE "done")
       \/ /\ AcquireWarmOutOfCPU(r, Fun(r))
          /\ GoOn(r, IF policy = "default" THEN "fallback" ELSE "cold")
       \/ /\ ready[NameOf[Fun(r)]] = {}
          /\ GoOn(r, "cold")
          /\ UNCHANGED vars
    /\ UNCHANGED <<policy, requestVars, handler, queue, completions, sched,
                   outcome, reply, resultVars>>

\* handleColdStart: NewContainer asks for resources.
TryCold(r) ==
    /\ arrival[r] = "cold"
    /\ \/ /\ \/ AcquireResources(r, Fun(r), "starting")
             \/ AcquireByDismissing(r, Fun(r), "starting")
          /\ GoOn(r, "starting")
       \/ /\ AcquireAborted(r, Fun(r))
          /\ GoOn(r, "fallback")
       \/ /\ Refused(Fun(r))
          /\ GoOn(r, "fallback")
          /\ UNCHANGED vars
    /\ UNCHANGED <<policy, requestVars, handler, queue, completions, sched,
                   outcome, reply, resultVars>>

\* Fault for PoolSpec: after a failed cold start from the queue the memory is
\* released and the CPU is not.
EndColdStartKeepsCPU(r) ==
    /\ \/ /\ arrival[r] \in {"starting", "queuestart"}
          /\ ColdStart(r)
          /\ Decide(r, ExecLocal(client'[r].cont), "done")
       \/ /\ arrival[r] = "starting"
          /\ ColdStartFails(r)
          /\ GoOn(r, "fallback")
       \/ /\ arrival[r] = "queuestart"
          /\ ColdStartFailsKeepsCPU(r)
          /\ GoOn(r, "drop")
    /\ UNCHANGED <<policy, requestVars, handler, queue, completions, sched,
                   outcome, reply, resultVars>>

\* Fault for NobodyIsForgotten: the error of a cold start from the queue is only
\* logged.
EndColdStartForgets(r) ==
    /\ \/ /\ arrival[r] \in {"starting", "queuestart"}
          /\ ColdStart(r)
          /\ Decide(r, ExecLocal(client'[r].cont), "done")
       \/ /\ arrival[r] \in {"starting", "queuestart"}
          /\ ColdStartFails(r)
          /\ GoOn(r, IF arrival[r] = "starting" THEN "fallback" ELSE "done")
    /\ UNCHANGED <<policy, requestVars, handler, queue, completions, sched,
                   outcome, reply, resultVars>>

\* The container has started, or has not.  After a cold start from the queue
\* (OnCompletion), an error drops the invocation.
EndColdStart(r) ==
    /\ \/ /\ arrival[r] \in {"starting", "queuestart"}
          /\ ColdStart(r)
          /\ Decide(r, ExecLocal(client'[r].cont), "done")
       \/ /\ arrival[r] = "starting"
          /\ ColdStartFails(r)
          /\ GoOn(r, "fallback")
       \/ /\ arrival[r] = "queuestart"
          /\ ColdStartFails(r)
          /\ GoOn(r, "drop")
    /\ UNCHANGED <<policy, requestVars, handler, queue, completions, sched,
                   outcome, reply, resultVars>>

\* handleOffload: the next node may not offload the invocation.
handleOffload(r) ==
    /\ object' = [object EXCEPT ![request[r].obj].offload = FALSE]
    /\ Decide(r, ExecRemote, "done")

\* EdgePolicy: an invocation that may be offloaded is, or is dropped if there is
\* no neighbour to choose.
PickEdgeNode(r) ==
    /\ arrival[r] = "pick"
    /\ \/ CanDoOffloading(r) /\ handleOffload(r)
       \/ CanDoOffloading(r) /\ Decide(r, Drop, "done") /\ UNCHANGED object
       \/ ~CanDoOffloading(r) /\ GoOn(r, "warm") /\ UNCHANGED object
    /\ UNCHANGED <<vars, policy, request, freed, handler, queue, completions,
                   sched, outcome, reply, resultVars>>

\* The queue is locked by OnCompletion between its two acquisitions.
QueueUnlocked == sched # "coldcheck"

\* DefaultLocalPolicy, when r cannot be served now: enqueue if possible.
Enqueue(r) ==
    /\ arrival[r] = "fallback"
    /\ policy = "default"
    /\ QueueCap > 0 => QueueUnlocked
    /\ IF Len(queue) < QueueCap
       THEN /\ queue' = Append(queue, r)
            /\ GoOn(r, "queued")
       ELSE /\ Decide(r, Drop, "done")
            /\ UNCHANGED queue
    /\ UNCHANGED <<vars, policy, requestVars, handler, completions, sched,
                   outcome, reply, resultVars>>

\* Fault for EveryRequestAnswered: what may not be offloaded is not dropped.
OffloadOrForget(r) ==
    /\ arrival[r] = "fallback"
    /\ policy # "default"
    /\ CanDoOffloading(r)
    /\ handleOffload(r)
    /\ UNCHANGED <<vars, policy, request, freed, handler, queue, completions,
                   sched, outcome, reply, resultVars>>

\* The other policies: offload if the invocation may be, or drop.  Custom1
\* offloads a HIGH_PERFORMANCE invocation to a neighbour only, and drops it if
\* there is none.
OffloadOrDrop(r) ==
    /\ arrival[r] = "fallback"
    /\ policy # "default"
    /\ \/ CanDoOffloading(r) /\ handleOffload(r)
       \/ /\ CanDoOffloading(r) => policy = "custom1"
          /\ Decide(r, Drop, "done")
          /\ UNCHANGED object
    /\ UNCHANGED <<vars, policy, request, freed, handler, queue, completions,
                   sched, outcome, reply, resultVars>>

dropRequest(r) ==
    /\ arrival[r] = "drop"
    /\ Decide(r, Drop, "done")
    /\ UNCHANGED <<vars, policy, requestVars, handler, queue, completions,
                   sched, outcome, reply, resultVars>>

-----------------------------------------------------------------------------
(* The scheduler's loop at a completion.                                   *)

\* node.ReleaseContainer(c.contID, c.Fun): the function is read now.
TakeCompletion ==
    /\ sched = "select"
    /\ completions # <<>>
    /\ LET r == Head(completions) IN ReleaseContainer(r, Fun(r))
    /\ completions' = Tail(completions)
    /\ sched' = "completion"
    /\ UNCHANGED <<policy, requestVars, handler, arrival, decision, queue,
                   outcome, reply, resultVars>>

\* OnCompletion returns: without a queue (only the default policy has one),
\* with an empty one, or without resources for its front.
CompletionIdle ==
    /\ sched = "completion"
    /\ policy # "default" \/ queue = <<>>
    /\ sched' = "select"
    /\ UNCHANGED <<vars, policy, requestVars, handler, arrival, decision,
                   queue, completions, outcome, reply, resultVars>>

\* Fault for QueueConsistent: the invocation served is not dequeued.
CompletionWarmKeepsFront ==
    /\ sched = "completion"
    /\ policy = "default" /\ queue # <<>>
    /\ LET r == Head(queue)
       IN \/ /\ AcquireWarmContainer(r, Fun(r))
             /\ Decide(r, ExecLocal(client'[r].cont), "done")
             /\ sched' = "select"
          \/ /\ AcquireWarmOutOfCPU(r, Fun(r))
             /\ sched' = "select"
             /\ UNCHANGED <<arrival, decision>>
          \/ /\ ready[NameOf[Fun(r)]] = {}
             /\ sched' = "coldcheck"
             /\ UNCHANGED <<vars, arrival, decision>>
    /\ UNCHANGED <<policy, requestVars, handler, queue, completions, outcome,
                   reply, resultVars>>

\* The front of the queue gets a warm container, or none is warm for it, or
\* there is no CPU for the warm one.
CompletionWarm ==
    /\ sched = "completion"
    /\ policy = "default" /\ queue # <<>>
    /\ LET r == Head(queue)
       IN \/ /\ AcquireWarmContainer(r, Fun(r))
             /\ Decide(r, ExecLocal(client'[r].cont), "done")
             /\ queue' = Tail(queue)
             /\ sched' = "select"
          \/ /\ AcquireWarmOutOfCPU(r, Fun(r))
             /\ sched' = "select"
             /\ UNCHANGED <<arrival, decision, queue>>
          \/ /\ ready[NameOf[Fun(r)]] = {}
             /\ sched' = "coldcheck"
             /\ UNCHANGED <<vars, arrival, decision, queue>>
    /\ UNCHANGED <<policy, requestVars, handler, completions, outcome, reply, resultVars>>

\* AcquireResources for the front of the queue, then its cold start.
CompletionCold ==
    /\ sched = "coldcheck"
    /\ LET r == Head(queue)
       IN \/ /\ \/ AcquireResources(r, Fun(r), "starting")
                \/ AcquireByDismissing(r, Fun(r), "starting")
             /\ GoOn(r, "queuestart")
             /\ queue' = Tail(queue)
          \/ /\ \/ AcquireAborted(r, Fun(r))
                \/ Refused(Fun(r)) /\ UNCHANGED vars
             /\ UNCHANGED <<arrival, decision, queue>>
    /\ sched' = "select"
    /\ UNCHANGED <<policy, requestVars, handler, completions, outcome, reply, resultVars>>

-----------------------------------------------------------------------------
(* The janitor, the deletions and the clock go on meanwhile.               *)
PoolStep ==
    /\ \/ \E c \in Containers : Expire(c) \/ DestroyDying(c)
       \/ \E n \in Names : ShutdownWarmContainersFor(n)
       \/ DeleteExpiredContainer
    /\ UNCHANGED schedVars

HandlerStep(r) ==
    \/ ReceiveDecision(r)
    \/ Execute(r)
    \/ Respond(r)
    \/ PublishResult(r)
    \/ Offload(r)
    \/ OffloadAsync(r)

ArrivalStep(r) ==
    \/ TryWarm(r)
    \/ TryCold(r)
    \/ EndColdStart(r)
    \/ PickEdgeNode(r)
    \/ Enqueue(r)
    \/ OffloadOrDrop(r)
    \/ dropRequest(r)

LoopStep ==
    \/ \E r \in Clients : TakeRequest(r)
    \/ TakeCompletion
    \/ CompletionIdle
    \/ CompletionWarm
    \/ CompletionCold

SchedNext ==
    \/ \E r \in Clients, d \in Descs, k \in Kinds :
          Invoke(r, d, k.async, k.offload)
    \/ \E r \in Clients : HandlerStep(r) \/ ArrivalStep(r)
    \/ LoopStep
    \/ PoolStep

SchedSpec == SchedInit /\ [][SchedNext]_allVars

(* Go runs every goroutine that can run; select picks at random among the  *)
(* channels that are ready; functions end; Docker and etcd answer.         *)
SchedFairness ==
    /\ \A r \in Clients : WF_allVars(HandlerStep(r)) /\ WF_allVars(ArrivalStep(r))
    /\ \A r \in Clients : SF_allVars(TakeRequest(r))
    /\ SF_allVars(TakeCompletion)
    /\ WF_allVars(LoopStep)
    /\ WF_allVars(DeleteExpiredContainer /\ UNCHANGED schedVars)
    /\ \A c \in Containers : WF_allVars(DestroyDying(c) /\ UNCHANGED schedVars)

SchedFairSpec == SchedSpec /\ SchedFairness

-----------------------------------------------------------------------------
(* Properties.                                                             *)

(* Types: where the goroutines of an invocation can be, and what is in the *)
(* channels between them.                                                  *)
SchedTypeOK ==
    /\ TypeOK
    /\ policy \in Policies
    /\ request \in [Clients -> [fun : Descs \cup {NoFun},
                                obj : Clients \cup {NoCont}, async : BOOLEAN]]
    /\ object \in [Clients -> [fun : Descs \cup {NoFun},
                               id : Clients \cup {NoCont}, offload : BOOLEAN]]
    /\ freed \subseteq Clients
    /\ handler \in [Clients -> {"idle", "waiting", "executing", "offloading",
                                "success", "failure", "overload", "done"}]
    /\ arrival \in [Clients -> {"idle", "submitted", "warm", "cold", "starting",
                                "pick", "fallback", "drop", "queued",
                                "queuestart", "done"}]
    /\ \A r \in Clients : Len(decision[r]) <= 1
    /\ sched \in {"select", "completion", "coldcheck"}
    /\ outcome \in [Clients -> {"none", "success", "failure", "overload", "remote"}]
    /\ reply \in [Clients -> {"none", "success", "failure", "overload"}]
    /\ report \in [Clients -> Clients \cup {NoCont}]
    /\ given \in [Clients -> Clients \cup {NoCont}]
    /\ result \in [Clients -> Clients \cup {NoCont}]

(* Every leased container is on its way back: either the decision to use   *)
(* it waits to be received, or the function runs in it, or its completion  *)
(* waits for the scheduler -- and exactly one of the three.                *)
LeaseOnItsWay ==
    \A r \in Clients :
       LET waits == decision[r] # <<>> /\ decision[r][1].action = "EXEC_LOCAL"
           runs == handler[r] = "executing"
           ended == r \in Range(completions)
       IN /\ (client[r].st = "running") <=> (waits \/ runs \/ ended)
          /\ ~(waits /\ runs) /\ ~(waits /\ ended) /\ ~(runs /\ ended)
          /\ waits => decision[r][1].cont = client[r].cont

(* A queued invocation is in the queue once, holds nothing and has been    *)
(* told nothing; the queue keeps its capacity.                             *)
QueueConsistent ==
    /\ Len(queue) <= QueueCap
    /\ \A i, j \in 1 .. Len(queue) : queue[i] = queue[j] => i = j
    /\ \A r \in Clients :
          (r \in Range(queue)) <=> (arrival[r] = "queued")
    /\ \A r \in Range(queue) : /\ client[r].st = "idle"
                                 /\ handler[r] = "waiting"
                                 /\ decision[r] = <<>>
    /\ sched = "coldcheck" => queue # <<>>

(* pool.go:108-111, docs/api.md:63: an invocation runs in a container of   *)
(* the function that it names.  Names are compared: the container may have *)
(* the code of an earlier function of that name.                           *)
ServedByOwnFunction ==
    \A r \in Clients : handler[r] = "executing"
       => NameOf[image[client[r].cont]] = NameOf[request[r].fun]

(* The status of the answer to a synchronous invocation is what happened   *)
(* to it (scheduler.go:82-107, api.go:77-86): success after a successful   *)
(* execution, here or on the node it was offloaded to, and only then;      *)
(* overload if it was dropped, here or there; failure otherwise.           *)
AnswersAreTrue ==
    \A r \in Clients : ~request[r].async /\ reply[r] # "none" =>
       reply[r] = IF outcome[r] = "none" THEN "overload" ELSE outcome[r]

(* The result in the answer of a successful invocation, or in what is      *)
(* published for it, was computed from its own Params (execution.go:20-30, *)
(* 49-56, api.go:85, scheduler.go:139), although the object that carries   *)
(* both has held others' before.  What is published as a success after a   *)
(* failed execution is excluded: it is whatever the object held.           *)
ResultsAreOwn ==
    \A r \in Clients : reply[r] = "success" /\ outcome[r] = "success" =>
       result[r] = r

(* An answer is final.  A failure may be followed by a success, for an      *)
(* asynchronous invocation: SubmitAsyncRequest goes on after an error.     *)
AnswersAreFinal ==
    [][\A r \in Clients : reply[r] # "none" =>
          \/ reply'[r] = reply[r]
          \/ request[r].async /\ reply[r] = "failure" /\ reply'[r] = "success"]_allVars

(* The goroutine of an invocation does not end without an answer, unless   *)
(* another node has accepted the invocation (scheduler.go:82-141).         *)
AnsweredWhenDone ==
    \A r \in Clients :
       handler[r] = "done" => reply[r] # "none" \/ outcome[r] = "remote"

(* No invocation waits for a decision that no goroutine is going to take:  *)
(* it is in the channel requests, its OnArrival runs, it is in the queue,  *)
(* its cold start is under way, or the decision is in its channel.         *)
NobodyIsForgotten ==
    \A r \in Clients :
       handler[r] = "waiting" => decision[r] # <<>> \/ arrival[r] # "done"

(* Every invocation is answered: with the result, as an overload (429) or  *)
(* as a failure (500); by what is published in etcd if it is asynchronous, *)
(* unless another node has accepted it, which publishes it under the id    *)
(* that it has there.                                                      *)
EveryRequestAnswered ==
    \A r \in Clients :
       handler[r] = "waiting" ~> (reply[r] # "none" \/ outcome[r] = "remote")

(* What an invocation holds comes back to the pool.                        *)
LeasesEnd ==
    \A r \in Clients : client[r].st # "idle" ~> client[r].st = "idle"

(* The scheduler uses the pool as ContainerPool says: every step of the    *)
(* node is a step of the pool, and each release names the function the     *)
(* container was acquired for.                                             *)
PoolSpec == Spec
=============================================================================
