-------------------------- MODULE SchedulerProofs --------------------------
(***************************************************************************)
(* Scheduler, for any invocations, functions, policies, faults and sizes   *)
(* of the queue: the goroutines of an invocation agree on where it is, and *)
(* the status of an answer is true, whatever the function.Request objects  *)
(* hold meanwhile; and when each of them has one user at a time            *)
(* (~Recycle), the scheduler uses the pool as the pool expects, and each   *)
(* result is that of its own invocation.                                   *)
(***************************************************************************)
EXTENDS Scheduler, ContainerPoolProofs, SequenceTheorems

-----------------------------------------------------------------------------
(* Sequences without repetition: the queue and the channel completions.    *)

Distinct(q) == \A i, j \in 1 .. Len(q) : q[i] = q[j] => i = j

(* A new element joins at the back.                                        *)
LEMMA AppendNew ==
    ASSUME NEW S, NEW q \in Seq(S), NEW x \in S, Distinct(q), x \notin Range(q)
    PROVE  /\ Append(q, x) \in Seq(S)
           /\ Len(Append(q, x)) = Len(q) + 1
           /\ Append(q, x) # <<>>
           /\ Distinct(Append(q, x))
           /\ \A y : y \in Range(Append(q, x)) <=> y \in Range(q) \/ y = x
  <1>1. /\ Append(q, x) \in Seq(S) /\ Len(Append(q, x)) = Len(q) + 1
        /\ Append(q, x)[Len(q) + 1] = x
        /\ \A i \in 1 .. Len(q) : Append(q, x)[i] = q[i]
        /\ Len(q) \in Nat
    OBVIOUS
  <1>2. Range(Append(q, x)) = {Append(q, x)[i] : i \in 1 .. Len(q) + 1}
    BY <1>1 DEF Range
  <1>3. Range(q) = {q[i] : i \in 1 .. Len(q)}
    BY DEF Range
  <1>4. Distinct(Append(q, x))
    BY <1>1, <1>3 DEF Distinct
  <1>5. Append(q, x) # <<>>
    BY <1>1, EmptySeq
  <1> QED
    BY <1>1, <1>2, <1>3, <1>4, <1>5

(* The front leaves.                                                       *)
LEMMA TailLeaves ==
    ASSUME NEW S, NEW q \in Seq(S), q # <<>>, Distinct(q)
    PROVE  /\ Head(q) \in S /\ Head(q) \in Range(q)
           /\ Tail(q) \in Seq(S)
           /\ Len(Tail(q)) = Len(q) - 1
           /\ Distinct(Tail(q))
           /\ \A y : y \in Range(Tail(q)) <=> y \in Range(q) /\ y # Head(q)
  <1>1. /\ Head(q) = q[1] /\ Len(q) \in Nat \ {0}
        /\ Tail(q) \in Seq(S) /\ Len(Tail(q)) = Len(q) - 1
        /\ \A i \in 1 .. Len(q) - 1 : Tail(q)[i] = q[i + 1]
        /\ Head(q) \in S
    BY EmptySeq
  <1>2. Range(Tail(q)) = {Tail(q)[i] : i \in 1 .. Len(q) - 1}
    <2>1. DOMAIN Tail(q) = 1 .. Len(q) - 1
      BY <1>1, LenProperties
    <2> QED
      BY <2>1 DEF Range
  <1>3. Range(q) = {q[i] : i \in 1 .. Len(q)}
    BY DEF Range
  <1>4. Distinct(Tail(q))
    BY <1>1 DEF Distinct
  <1>5. Head(q) \in Range(q)
    BY <1>1, <1>3
  <1>6. \A y : y \in Range(Tail(q)) => y \in Range(q) /\ y # Head(q)
    BY <1>1, <1>2, <1>3 DEF Distinct
  <1>7. ASSUME NEW y \in Range(q), y # Head(q)
        PROVE  y \in Range(Tail(q))
    <2>1. PICK i \in 1 .. Len(q) : y = q[i]
      BY <1>3
    <2>2. i - 1 \in 1 .. Len(q) - 1 /\ (i - 1) + 1 = i
      BY <1>1, <1>7, <2>1
    <2> QED
      BY <1>1, <1>2, <2>1, <2>2
  <1> QED
    BY <1>1, <1>4, <1>5, <1>6, <1>7

(* Nothing is in an empty sequence.                                        *)
LEMMA EmptyRange == Range(<<>>) = {} /\ Distinct(<<>>) /\ Len(<<>>) = 0
  BY DEF Range, Distinct

-----------------------------------------------------------------------------
(* The inductive invariant.                                                *)

Messages == {<<>>, <<Drop>>, <<ExecRemote>>}
            \cup {<<ExecLocal(c)>> : c \in Containers}

(* What the goroutines share.                                              *)
Channels ==
    /\ decision \in [Clients -> Messages]
    /\ queue \in Seq(Clients) /\ Distinct(queue) /\ Len(queue) <= QueueCap
    /\ completions \in Seq(Clients) /\ Distinct(completions)
    /\ sched = "coldcheck" => queue # <<>>

Waits(r) == decision[r] # <<>> /\ decision[r][1].action = "EXEC_LOCAL"

Undecided == {"idle", "submitted", "warm", "cold", "pick", "fallback",
              "queued", "starting", "queuestart"}

(* The object of an invocation names a function and an invocation, not     *)
(* always its own.                                                         *)
Objects ==
    \A r \in Clients : handler[r] # "idle" =>
       request[r].obj \in Clients /\ Fun(r) \in Descs /\ ReqId(r) \in Clients

(* Where the goroutines of r are, and what r holds, agree.                 *)
Consistent(r) ==
    /\ handler[r] = "idle" <=> arrival[r] = "idle"
    /\ arrival[r] \in Undecided =>
          decision[r] = <<>> /\ handler[r] \in {"idle", "waiting"}
    /\ client[r].st = "starting" <=> arrival[r] \in {"starting", "queuestart"}
    /\ client[r].st # "prewarming"
    /\ handler[r] = "waiting" /\ arrival[r] = "done" => decision[r] # <<>>
    /\ client[r].st = "running" <=>
          (Waits(r) \/ handler[r] = "executing" \/ r \in Range(completions))
    /\ Waits(r) => /\ handler[r] = "waiting"
                   /\ decision[r] = <<ExecLocal(client[r].cont)>>
    /\ r \in Range(completions) => handler[r] \in {"success", "failure", "overload", "done"}
    /\ r \in Range(queue) <=> arrival[r] = "queued"

(* What is known of the execution of r, and what is answered.              *)
Truthful(r) ==
    /\ handler[r] = "idle" => ~request[r].async
    /\ handler[r] \in {"idle", "waiting", "executing", "offloading"} =>
          outcome[r] = "none"
    /\ ~request[r].async => /\ (reply[r] # "none") <=> (handler[r] = "done")
                            /\ handler[r] \in {"success", "failure", "overload"} =>
                                  outcome[r] = handler[r]
                            /\ reply[r] # "none" =>
                                  reply[r] = IF outcome[r] = "none"
                                             THEN "overload" ELSE outcome[r]

SchedInv ==
    /\ SchedTypeOK
    /\ Channels
    /\ Objects
    /\ \A r \in Clients : Consistent(r) /\ Truthful(r)

(* It says more than the properties of the runs.                           *)
LEMMA SchedInvShows ==
    SchedInv => /\ SchedTypeOK /\ LeaseOnItsWay /\ QueueConsistent
                /\ AnswersAreTrue /\ NobodyIsForgotten
  <1> SUFFICES ASSUME SchedInv
               PROVE  /\ SchedTypeOK /\ LeaseOnItsWay /\ QueueConsistent
                      /\ AnswersAreTrue /\ NobodyIsForgotten
    OBVIOUS
  <1>1. LeaseOnItsWay
    <2> SUFFICES ASSUME NEW r \in Clients
                 PROVE  /\ (client[r].st = "running") <=>
                              (Waits(r) \/ handler[r] = "executing"
                               \/ r \in Range(completions))
                        /\ ~(Waits(r) /\ handler[r] = "executing")
                        /\ ~(Waits(r) /\ r \in Range(completions))
                        /\ ~(handler[r] = "executing" /\ r \in Range(completions))
                        /\ Waits(r) => decision[r][1].cont = client[r].cont
      BY DEF LeaseOnItsWay, Waits
    <2>1. Consistent(r)
      BY DEF SchedInv
    <2>2. Waits(r) => decision[r][1].cont = client[r].cont
      BY <2>1 DEF Consistent, ExecLocal
    <2> QED
      BY <2>1, <2>2 DEF Consistent
  <1>2. QueueConsistent
    <2>1. ASSUME NEW r \in Clients
          PROVE  /\ (r \in Range(queue)) <=> (arrival[r] = "queued")
                 /\ r \in Range(queue) => /\ client[r].st = "idle"
                                          /\ handler[r] = "waiting"
                                          /\ decision[r] = <<>>
      <3>1. Consistent(r)
        BY DEF SchedInv
      <3>2. client[r].st \in Stages
        BY DEF SchedInv, SchedTypeOK, TypeOK
      <3> QED
        BY <3>1, <3>2 DEF Consistent, Waits, Undecided, Stages
    <2>2. Range(queue) \subseteq Clients
      BY DEF SchedInv, Channels, Range
    <2> QED
      BY <2>1, <2>2 DEF SchedInv, Channels, Distinct, QueueConsistent
  <1>3. AnswersAreTrue
    BY DEF SchedInv, Truthful, AnswersAreTrue
  <1>4. NobodyIsForgotten
    BY DEF SchedInv, Consistent, NobodyIsForgotten
  <1> QED
    BY <1>1, <1>2, <1>3, <1>4 DEF SchedInv

LEMMA SchedInvInit == SchedInit => SchedInv
  <1> SUFFICES ASSUME SchedInit PROVE SchedInv
    OBVIOUS
  <1>1. Init => TypeOK
    BY SetsAssumption, DemandAssumption DEF Init, TypeOK, Stages, NoClient
  <1>2. SchedTypeOK
    BY <1>1, EmptyRange DEF SchedInit, SchedTypeOK, NoRequest, NoObject
  <1>3. Channels
    BY SchedAssumption, EmptyRange DEF SchedInit, Channels, Messages
  <1>4. ASSUME NEW r \in Clients
        PROVE  Consistent(r) /\ Truthful(r)
    BY EmptyRange DEF SchedInit, Init, Consistent, Truthful, Waits, NoClient,
                      NoRequest, Undecided
  <1>5. Objects
    BY DEF SchedInit, Objects
  <1> QED
    BY <1>2, <1>3, <1>4, <1>5 DEF SchedInv

-----------------------------------------------------------------------------
(* What the steps of the pool do to its clients.                           *)

(* An acquisition of a warm container.                                     *)
LEMMA WarmEffect ==
    ASSUME TypeOK, NEW r \in Clients, NEW d \in Descs, AcquireWarmContainer(r, d)
    PROVE  /\ \E c \in Containers : client'[r] = [st |-> "running", fun |-> d, cont |-> c]
           /\ \A s \in Clients \ {r} : client'[s] = client[s]
  <1>1. PICK c \in ready[NameOf[d]] :
           client' = [client EXCEPT ![r] = [st |-> "running", fun |-> d, cont |-> c]]
    BY DEF AcquireWarmContainer
  <1>2. c \in Containers
    BY DemandAssumption DEF TypeOK
  <1> QED
    BY <1>1, <1>2 DEF TypeOK

(* Resources for a cold start, and its two ends.                           *)
LEMMA BeginEffect ==
    ASSUME TypeOK, NEW r \in Clients, NEW d \in Descs,
           \/ AcquireResources(r, d, "starting")
           \/ AcquireByDismissing(r, d, "starting")
    PROVE  /\ client'[r] = [st |-> "starting", fun |-> d, cont |-> NoCont]
           /\ \A s \in Clients \ {r} : client'[s] = client[s]
  BY DEF TypeOK, AcquireResources, AcquireByDismissing, Begin

LEMMA StartedEffect ==
    ASSUME TypeOK, NEW r \in Clients, ColdStart(r)
    PROVE  /\ \E c \in Containers :
                 client'[r] = [st |-> "running", fun |-> client[r].fun, cont |-> c]
           /\ \A s \in Clients \ {r} : client'[s] = client[s]
  BY DEF TypeOK, ColdStart

LEMMA FailedEffect ==
    ASSUME TypeOK, NEW r \in Clients,
           ColdStartFails(r) \/ \E d \in Descs : ReleaseContainer(r, d)
    PROVE  /\ client'[r] = NoClient
           /\ \A s \in Clients \ {r} : client'[s] = client[s]
  BY DEF TypeOK, ColdStartFails, ReleaseContainer

(* An invocation that nothing happens to stays as it is.                   *)
Untouched(s) ==
    /\ client'[s] = client[s] /\ request'[s] = request[s]
    /\ handler'[s] = handler[s] /\ arrival'[s] = arrival[s]
    /\ decision'[s] = decision[s] /\ outcome'[s] = outcome[s]
    /\ request[s].async \/ reply'[s] = reply[s]
    /\ s \in Range(completions') <=> s \in Range(completions)
    /\ s \in Range(queue') <=> s \in Range(queue)

LEMMA Frame ==
    ASSUME NEW s, Consistent(s), Truthful(s), Untouched(s)
    PROVE  Consistent(s)' /\ Truthful(s)'
  BY DEF Consistent, Truthful, Untouched, Waits

(* The objects keep naming what they name; only CanDoOffloading may change. *)
SameObjects ==
    /\ \A o \in Clients : /\ object'[o].fun = object[o].fun
                          /\ object'[o].id = object[o].id
    /\ object' \in [Clients -> [fun : Descs \cup {NoFun},
                                id : Clients \cup {NoCont}, offload : BOOLEAN]]

LEMMA ObjectsStay ==
    ASSUME SchedInv, UNCHANGED request, SameObjects,
           \A s \in Clients : handler[s] = "idle" => handler'[s] = "idle"
    PROVE  Objects'
  BY DEF SchedInv, Objects, SameObjects, Fun, ReqId

LEMMA UnchangedObjects == ASSUME SchedInv, UNCHANGED object PROVE SameObjects
  BY DEF SchedInv, SchedTypeOK, SameObjects

(* What an invocation that has begun names.                                *)
LEMMA SomeFunction ==
    ASSUME SchedInv, NEW r \in Clients, handler[r] # "idle" \/ arrival[r] # "idle"
    PROVE  Fun(r) \in Descs /\ ReqId(r) \in Clients /\ request[r].obj \in Clients
  BY DEF SchedInv, Objects, Consistent

(* A completion is that of a container still in use.                       *)
LEMMA FrontRuns ==
    ASSUME SchedInv, completions # <<>>
    PROVE  LET r == Head(completions)
           IN  /\ r \in Clients /\ r \in Range(completions)
               /\ handler[r] \in {"success", "failure", "overload", "done"}
               /\ client[r].st = "running" /\ Fun(r) \in Descs
  <1> DEFINE r == Head(completions)
  <1>1. r \in Clients /\ r \in Range(completions)
    BY TailLeaves DEF SchedInv, Channels
  <1>2. Consistent(r)
    BY <1>1 DEF SchedInv
  <1> QED
    BY <1>1, <1>2, SomeFunction DEF Consistent

(* The front of the queue waits, with nothing.                             *)
LEMMA FrontWaits ==
    ASSUME SchedInv, queue # <<>>
    PROVE  LET r == Head(queue)
           IN  /\ r \in Clients /\ r \in Range(queue)
               /\ arrival[r] = "queued" /\ handler[r] = "waiting"
               /\ Fun(r) \in Descs
  <1> DEFINE r == Head(queue)
  <1>1. r \in Clients /\ r \in Range(queue)
    BY TailLeaves DEF SchedInv, Channels
  <1>2. Consistent(r)
    BY <1>1 DEF SchedInv
  <1> QED
    BY <1>1, <1>2, SomeFunction DEF Consistent, Undecided

(* Every step of the scheduler is one of the pool, or does not touch it, or*)
(* releases a container under the function that the object names then.     *)
LEMMA PoolUsed ==
    ASSUME SchedInv, SchedNext
    PROVE  \/ [Next]_vars
           \/ \E r \in Clients : Fun(r) \in Descs /\ r \in Range(completions)
                                 /\ ReleaseContainer(r, Fun(r))
  <1>1. ASSUME NEW r \in Clients, HandlerStep(r)
        PROVE  UNCHANGED vars
    BY <1>1 DEF HandlerStep, ReceiveDecision, Execute, Respond, PublishResult,
                Offload, OffloadAsync
  <1>2. ASSUME NEW r \in Clients, ArrivalStep(r)
        PROVE  [Next]_vars
    <2>1. arrival[r] # "idle" => Fun(r) \in Descs
      BY SomeFunction
    <2>2. CASE TryWarm(r)
      BY <2>1, <2>2 DEF TryWarm, Next
    <2>3. CASE TryCold(r)
      BY <2>1, <2>3 DEF TryCold, Next
    <2>4. CASE EndColdStart(r)
      BY <2>4 DEF EndColdStart, Next
    <2>5. CASE PickEdgeNode(r) \/ Enqueue(r) \/ OffloadOrDrop(r) \/ dropRequest(r)
      BY <2>5 DEF PickEdgeNode, Enqueue, OffloadOrDrop, dropRequest
    <2> QED
      BY <1>2, <2>2, <2>3, <2>4, <2>5 DEF ArrivalStep
  <1>3. CASE \E r \in Clients : TakeRequest(r)
    BY <1>3 DEF TakeRequest
  <1>4. CASE TakeCompletion
    <2>1. PICK r \in Clients : /\ r = Head(completions) /\ r \in Range(completions)
                               /\ Fun(r) \in Descs
      BY <1>4, FrontRuns DEF TakeCompletion
    <2> QED
      BY <1>4, <2>1 DEF TakeCompletion
  <1>5. CASE CompletionIdle
    BY <1>5 DEF CompletionIdle
  <1>6. CASE CompletionWarm
    BY <1>6, FrontWaits DEF CompletionWarm, Next
  <1>7. CASE CompletionCold
    <2>1. queue # <<>>
      BY <1>7 DEF CompletionCold, SchedInv, Channels
    <2> QED
      BY <1>7, <2>1, FrontWaits DEF CompletionCold, Next
  <1>8. CASE PoolStep
    BY <1>8 DEF PoolStep, Next
  <1>9. ASSUME NEW r \in Clients, NEW d \in Descs, NEW k \in Kinds,
               Invoke(r, d, k.async, k.offload)
        PROVE  UNCHANGED vars
    BY <1>9 DEF Invoke, InvokeWith
  <1> QED
    BY <1>1, <1>2, <1>3, <1>4, <1>5, <1>6, <1>7, <1>8, <1>9 DEF SchedNext, LoopStep

(* The pool keeps its types, whatever is released.                         *)
LEMMA PoolTyped ==
    ASSUME SchedInv, [SchedNext]_allVars
    PROVE  TypeOK'
  <1>1. TypeOK
    BY DEF SchedInv, SchedTypeOK
  <1>2. CASE [Next]_vars
    BY <1>1, <1>2, TypeStep
  <1>3. ASSUME NEW r \in Clients, NEW d \in Descs, ReleaseContainer(r, d)
        PROVE  TypeOK'
    BY <1>1, <1>3, ReleaseTyped
  <1>4. UNCHANGED allVars => UNCHANGED vars
    BY DEF allVars
  <1> QED
    BY <1>2, <1>3, <1>4, PoolUsed

-----------------------------------------------------------------------------
(* Every step keeps the invariant.                                         *)

(* A step of r: it has to be shown of r only.                              *)
LEMMA StepOfOne ==
    ASSUME SchedInv, SchedTypeOK', Channels', Objects',
           NEW r \in Clients, Consistent(r)', Truthful(r)',
           \A s \in Clients \ {r} : Untouched(s)
    PROVE  SchedInv'
  <1>1. ASSUME NEW s \in Clients
        PROVE  Consistent(s)' /\ Truthful(s)'
    <2>1. CASE s = r
      BY <2>1
    <2>2. CASE s # r
      <3>1. Consistent(s) /\ Truthful(s) /\ Untouched(s)
        BY <2>2 DEF SchedInv
      <3> QED
        BY <3>1, Frame
    <2> QED
      BY <2>1, <2>2
  <1> QED
    BY <1>1 DEF SchedInv

LEMMA InvokeStep ==
    ASSUME SchedInv, TypeOK', NEW r \in Clients, NEW d \in Descs,
           NEW async \in BOOLEAN, NEW offload \in BOOLEAN,
           Invoke(r, d, async, offload)
    PROVE  SchedInv'
  <1>0. PICK o \in Clients :
           /\ request' = [request EXCEPT ![r] = [fun |-> d, obj |-> o, async |-> async]]
           /\ object' = [object EXCEPT ![o] =
                            [fun |-> d, id |-> r, offload |-> offload]]
           /\ freed' \in {freed \cup {o}, freed \ {o}}
    BY DEF Invoke, InvokeWith, Reusable, SchedInv, SchedTypeOK
  <1>1. /\ handler[r] = "idle"
        /\ handler' = [handler EXCEPT ![r] = "waiting"]
        /\ arrival' = [arrival EXCEPT ![r] = "submitted"]
        /\ UNCHANGED <<client, policy, decision, queue, completions, sched,
                       outcome, reply, report, given, result>>
    BY DEF Invoke, InvokeWith, vars, resultVars
  <1>2. SchedTypeOK'
    <2>1. request' \in [Clients -> [fun : Descs \cup {NoFun},
                                    obj : Clients \cup {NoCont}, async : BOOLEAN]]
      BY <1>0 DEF SchedInv, SchedTypeOK
    <2>2. object' \in [Clients -> [fun : Descs \cup {NoFun},
                                   id : Clients \cup {NoCont}, offload : BOOLEAN]]
      BY <1>0 DEF SchedInv, SchedTypeOK
    <2>3. freed' \subseteq Clients
      BY <1>0 DEF SchedInv, SchedTypeOK
    <2> QED
      BY <1>1, <2>1, <2>2, <2>3 DEF SchedInv, SchedTypeOK
  <1>3. Channels'
    BY <1>1 DEF SchedInv, Channels
  <1>4. Consistent(r) /\ Truthful(r)
    BY DEF SchedInv
  <1>5. arrival[r] = "idle" /\ decision[r] = <<>> /\ client[r].st \notin {"starting", "running"}
        /\ r \notin Range(completions) /\ r \notin Range(queue)
    BY <1>1, <1>4 DEF Consistent, Undecided, Waits
  <1>6. client[r].st = "idle"
    BY <1>4, <1>5 DEF SchedInv, SchedTypeOK, TypeOK, Stages, Consistent
  <1>7. /\ request'[r] = [fun |-> d, obj |-> o, async |-> async]
        /\ handler'[r] = "waiting" /\ arrival'[r] = "submitted"
    BY <1>0, <1>1 DEF SchedInv, SchedTypeOK
  <1>8. Consistent(r)'
    BY <1>1, <1>5, <1>6, <1>7 DEF Consistent, Undecided, Waits
  <1>9. Truthful(r)'
    BY <1>1, <1>4, <1>7 DEF Truthful
  <1>10. \A s \in Clients \ {r} : Untouched(s)
    BY <1>0, <1>1 DEF SchedInv, SchedTypeOK, Untouched
  <1>11. Objects'
    <2>1. object'[o].fun = d /\ object'[o].id = r
          /\ \A p \in Clients \ {o} : object'[p] = object[p]
      BY <1>0 DEF SchedInv, SchedTypeOK
    <2>2. \A s \in Clients \ {r} : request'[s] = request[s] /\ handler'[s] = handler[s]
      BY <1>10 DEF Untouched
    <2> QED
      BY <1>7, <2>1, <2>2 DEF SchedInv, Objects, Fun, ReqId
  <1> QED
    BY <1>2, <1>3, <1>8, <1>9, <1>10, <1>11, StepOfOne

(* r is answered, or a result is published under some ReqId, or neither.   *)
Replies(r) ==
    /\ reply' \in [Clients -> {"none", "success", "failure", "overload"}]
    /\ \A s \in Clients \ {r} : request[s].async \/ reply'[s] = reply[s]
    /\ result' \in [Clients -> Clients \cup {NoCont}]

LEMMA AnswerReplies ==
    ASSUME SchedInv, NEW r \in Clients, handler[r] # "idle",
           NEW status \in {"success", "failure", "overload"},
           \/ Answer(r, status)
           \/ \E stage \in {"success", "done"} : Publish(r, status, stage)
           \/ UNCHANGED <<reply, result>>
    PROVE  /\ Replies(r)
           /\ Answer(r, status) => reply'[r] = status
           /\ ~request[r].async /\ ~Answer(r, status) => reply'[r] = reply[r]
  BY SomeFunction DEF SchedInv, SchedTypeOK, Answer, Publish, Replies

(* The report of the object that r uses may be replaced.                   *)
LEMMA ReportTyped ==
    ASSUME SchedInv, NEW r \in Clients, handler[r] # "idle",
           NEW status, SetReport(r, status)
    PROVE  report' \in [Clients -> Clients \cup {NoCont}]
  BY SomeFunction DEF SchedInv, SchedTypeOK, SetReport

(* The handler of r moves on after the decision, with no part in the lease. *)
LEMMA HandlerMoves ==
    ASSUME SchedInv, TypeOK', NEW r \in Clients,
           UNCHANGED <<client, policy, request, object, arrival, decision, queue,
                       completions, sched>>,
           handler[r] \in {"success", "failure", "overload", "offloading"},
           NEW h \in {"success", "failure", "overload", "done"},
           handler' = [handler EXCEPT ![r] = h],
           Replies(r), UNCHANGED given,
           report' \in [Clients -> Clients \cup {NoCont}],
           NEW o \in {"none", "success", "failure", "overload", "remote"},
           outcome' = [outcome EXCEPT ![r] = o],
           freed' \in {freed, freed \cup {request[r].obj}},
           Truthful(r)'
    PROVE  SchedInv'
  <1>1. Consistent(r)
    BY DEF SchedInv
  <1>2. SchedTypeOK'
    <2>1. request[r].obj \in Clients
      BY SomeFunction
    <2>2. freed' \subseteq Clients
      BY <2>1 DEF SchedInv, SchedTypeOK
    <2> QED
      BY <2>2 DEF SchedInv, SchedTypeOK, Replies
  <1>3. Channels'
    BY DEF SchedInv, Channels
  <1>4. handler'[r] = h
    BY DEF SchedInv, SchedTypeOK
  <1>5. Consistent(r)'
    <2>1. arrival[r] \notin Undecided /\ arrival[r] # "idle"
      BY <1>1 DEF Consistent, Undecided
    <2>2. ~Waits(r) /\ ~Waits(r)'
      BY <1>1 DEF Consistent, Waits
    <2>3. Range(completions') = Range(completions) /\ Range(queue') = Range(queue)
      OBVIOUS
    <2> QED
      BY <1>1, <1>4, <2>1, <2>2, <2>3 DEF Consistent
  <1>6. \A s \in Clients \ {r} : Untouched(s)
    BY DEF SchedInv, SchedTypeOK, Untouched, Replies
  <1>7. \A s \in Clients : handler[s] = "idle" => handler'[s] = "idle"
    BY DEF SchedInv, SchedTypeOK
  <1>8. Objects'
    BY <1>7, ObjectsStay, UnchangedObjects
  <1> QED
    BY <1>2, <1>3, <1>5, <1>6, <1>8, StepOfOne

(* Execute: the completion is sent, and the container is on its way back.  *)
LEMMA ExecuteStep ==
    ASSUME SchedInv, TypeOK', NEW r \in Clients, Execute(r)
    PROVE  SchedInv'
  <1>0. /\ Consistent(r) /\ Truthful(r)
        /\ UNCHANGED <<client, policy, request, object, freed, arrival, decision,
                       queue, sched, reply, given, result>>
    BY DEF SchedInv, Execute, vars, requestVars
  <1>1. PICK o \in {"success", "failure"} :
           /\ outcome' = [outcome EXCEPT ![r] = o]
           /\ handler' = [handler EXCEPT ![r] = o]
           /\ SetReport(r, o)
    BY DEF Execute
  <1>2. completions' = Append(completions, r) /\ handler[r] = "executing"
    BY DEF Execute
  <1>3. r \notin Range(completions)
    BY <1>0, <1>2 DEF Consistent
  <1>4. /\ Append(completions, r) \in Seq(Clients)
        /\ Distinct(Append(completions, r))
        /\ \A y : y \in Range(Append(completions, r)) <=>
                     y \in Range(completions) \/ y = r
    BY <1>3, AppendNew DEF SchedInv, Channels
  <1>5. SchedTypeOK'
    <2>1. report' \in [Clients -> Clients \cup {NoCont}]
      BY <1>1, <1>2, ReportTyped
    <2> QED
      BY <1>0, <1>1, <2>1 DEF SchedInv, SchedTypeOK
  <1>6. Channels'
    BY <1>0, <1>2, <1>4 DEF SchedInv, Channels
  <1>7. handler'[r] = o /\ outcome'[r] = o
    BY <1>1 DEF SchedInv, SchedTypeOK
  <1>8. Consistent(r)'
    <2>1. arrival[r] \notin Undecided /\ arrival[r] # "idle"
      BY <1>0, <1>2 DEF Consistent, Undecided
    <2>2. ~Waits(r) /\ ~Waits(r)'
      BY <1>0, <1>2 DEF Consistent, Waits
    <2>3. r \in Range(completions') /\ Range(queue') = Range(queue)
      BY <1>0, <1>2, <1>4
    <2> QED
      BY <1>0, <1>2, <1>7, <2>1, <2>2, <2>3 DEF Consistent
  <1>9. Truthful(r)'
    BY <1>0, <1>2, <1>7 DEF Truthful
  <1>10. \A s \in Clients \ {r} : Untouched(s)
    BY <1>0, <1>1, <1>2, <1>4 DEF SchedInv, SchedTypeOK, Untouched
  <1>11. \A s \in Clients : handler[s] = "idle" => handler'[s] = "idle"
    BY <1>1, <1>2 DEF SchedInv, SchedTypeOK
  <1>12. Objects'
    BY <1>0, <1>11, ObjectsStay, UnchangedObjects
  <1> QED
    BY <1>5, <1>6, <1>8, <1>9, <1>10, <1>12, StepOfOne

(* The decision that is received.                                          *)
LEMMA Received ==
    ASSUME SchedInv, NEW r \in Clients, ReceiveDecision(r)
    PROVE  /\ handler[r] = "waiting" /\ Tail(decision[r]) = <<>>
           /\ \E h \in {"executing", "offloading", "done"} :
                 /\ handler' = [handler EXCEPT ![r] = h]
                 /\ (h = "executing") <=> Waits(r)
                 /\ \/ UNCHANGED <<reply, result, freed>> /\ h # "done"
                    \/ Publish(r, "failure", "done") /\ request[r].async /\ h = "done"
                    \/ Answer(r, "overload") /\ ~request[r].async /\ h = "done"
                 /\ given' = IF h = "done" THEN given
                                          ELSE [given EXCEPT ![r] = ReqId(r)]
  <1>1. PICK m \in {Drop, ExecRemote} \cup {ExecLocal(c) : c \in Containers} :
           decision[r] = <<m>>
    BY DEF ReceiveDecision, SchedInv, Channels, Messages
  <1>2. Head(decision[r]) = m /\ decision[r][1] = m /\ Tail(decision[r]) = <<>>
    BY <1>1
  <1>3. m.action \in {"DROP", "EXEC_REMOTE", "EXEC_LOCAL"}
    BY DEF Drop, ExecRemote, ExecLocal
  <1>4. Waits(r) <=> m.action = "EXEC_LOCAL"
    BY <1>2 DEF ReceiveDecision, Waits
  <1>5. CASE m.action = "EXEC_LOCAL"
    BY <1>2, <1>4, <1>5 DEF ReceiveDecision
  <1>6. CASE m.action = "EXEC_REMOTE"
    BY <1>2, <1>4, <1>6 DEF ReceiveDecision
  <1>7. CASE m.action = "DROP" /\ request[r].async
    BY <1>2, <1>4, <1>7 DEF ReceiveDecision, Publish
  <1>8. CASE m.action = "DROP" /\ ~request[r].async
    BY <1>2, <1>4, <1>8 DEF ReceiveDecision, Answer
  <1> QED
    BY <1>2, <1>3, <1>5, <1>6, <1>7, <1>8

(* The decision is received.                                               *)
LEMMA ReceiveStep ==
    ASSUME SchedInv, TypeOK', NEW r \in Clients, ReceiveDecision(r)
    PROVE  SchedInv'
  <1>0. /\ Consistent(r) /\ Truthful(r)
        /\ UNCHANGED <<client, policy, request, object, arrival, queue,
                       completions, sched, outcome, report>>
        /\ handler[r] = "waiting" /\ decision[r] # <<>>
        /\ decision' = [decision EXCEPT ![r] = Tail(@)]
    BY DEF SchedInv, ReceiveDecision, vars
  <1>2. Tail(decision[r]) = <<>>
    BY Received
  <1>4. PICK h \in {"executing", "offloading", "done"} :
           /\ handler' = [handler EXCEPT ![r] = h]
           /\ (h = "executing") <=> Waits(r)
           /\ \/ UNCHANGED <<reply, result, freed>> /\ h # "done"
              \/ Publish(r, "failure", "done") /\ request[r].async /\ h = "done"
              \/ Answer(r, "overload") /\ ~request[r].async /\ h = "done"
           /\ given' = IF h = "done" THEN given
                                    ELSE [given EXCEPT ![r] = ReqId(r)]
    BY Received
  <1>a. /\ Replies(r)
        /\ ~request[r].async => reply'[r] = IF h = "done" THEN "overload" ELSE reply[r]
    <2>1. ASSUME Publish(r, "failure", "done") \/ UNCHANGED <<reply, result>>
          PROVE  Replies(r) /\ (UNCHANGED reply => reply'[r] = reply[r])
      BY <1>0, <2>1, AnswerReplies
    <2>2. ASSUME Answer(r, "overload") PROVE Replies(r) /\ reply'[r] = "overload"
      BY <1>0, <2>2, AnswerReplies
    <2> QED
      BY <1>4, <2>1, <2>2
  <1>5. SchedTypeOK'
    <2>1. request[r].obj \in Clients
      BY <1>0, SomeFunction
    <2>2. freed' \subseteq Clients
      BY <1>4, <2>1 DEF SchedInv, SchedTypeOK, Publish, Answer
    <2>3. \A s \in Clients : Len(decision'[s]) <= 1
      BY <1>0, <1>2, EmptyRange DEF SchedInv, SchedTypeOK, Channels
    <2>4. given' \in [Clients -> Clients \cup {NoCont}]
      BY <1>0, <1>4, SomeFunction DEF SchedInv, SchedTypeOK
    <2> QED
      BY <1>0, <1>4, <1>a, <2>2, <2>3, <2>4 DEF SchedInv, SchedTypeOK, Replies
  <1>6. Channels'
    <2>1. decision' \in [Clients -> Messages]
      BY <1>0, <1>2 DEF SchedInv, Channels, Messages
    <2> QED
      BY <1>0, <2>1 DEF SchedInv, Channels
  <1>7. decision'[r] = <<>> /\ handler'[r] = h
    BY <1>0, <1>2, <1>4 DEF SchedInv, SchedTypeOK, Channels
  <1>8. Consistent(r)'
    <2>2. ~Waits(r)'
      BY <1>7 DEF Waits
    <2>3. arrival[r] \notin Undecided /\ arrival[r] # "idle"
      BY <1>0 DEF Consistent, Undecided
    <2>4. Range(completions') = Range(completions) /\ Range(queue') = Range(queue)
      BY <1>0
    <2>5. r \notin Range(completions)
      BY <1>0 DEF Consistent
    <2> QED
      BY <1>0, <1>4, <1>7, <2>2, <2>3, <2>4, <2>5 DEF Consistent
  <1>9. Truthful(r)'
    <2>1. /\ outcome[r] = "none" /\ outcome'[r] = "none"
          /\ request[r].async \/ reply[r] = "none"
      BY <1>0 DEF Truthful
    <2> QED
      BY <1>0, <1>4, <1>7, <1>a, <2>1 DEF Truthful
  <1>10. \A s \in Clients \ {r} : Untouched(s)
    BY <1>0, <1>4, <1>a DEF SchedInv, SchedTypeOK, Channels, Untouched, Replies
  <1>11. \A s \in Clients : handler[s] = "idle" => handler'[s] = "idle"
    BY <1>0, <1>4 DEF SchedInv, SchedTypeOK
  <1>12. Objects'
    BY <1>0, <1>11, ObjectsStay, UnchangedObjects
  <1> QED
    BY <1>5, <1>6, <1>8, <1>9, <1>10, <1>12, StepOfOne

LEMMA HandlerStepKeeps ==
    ASSUME SchedInv, TypeOK', NEW r \in Clients, HandlerStep(r)
    PROVE  SchedInv'
  <1>0. /\ Truthful(r)
        /\ reply \in [Clients -> {"none", "success", "failure", "overload"}]
        /\ outcome \in [Clients -> {"none", "success", "failure", "overload", "remote"}]
        /\ handler \in [Clients -> {"idle", "waiting", "executing", "offloading",
                                    "success", "failure", "overload", "done"}]
        /\ report \in [Clients -> Clients \cup {NoCont}]
    BY DEF SchedInv, SchedTypeOK
  <1>1. outcome = [outcome EXCEPT ![r] = outcome[r]]
    BY <1>0
  <1>3. ASSUME request[r].async, UNCHANGED request,
               NEW status \in {"success", "failure"}, NEW stage \in {"success", "done"},
               Publish(r, status, stage) \/ UNCHANGED <<reply, result>>,
               handler' = [handler EXCEPT ![r] = stage], handler[r] # "idle"
        PROVE  Replies(r) /\ Truthful(r)'
    <2>1. Replies(r)
      BY <1>3, AnswerReplies
    <2>2. handler'[r] = stage
      BY <1>0, <1>3
    <2> QED
      BY <1>3, <2>1, <2>2 DEF Truthful
  <1>4. CASE Respond(r)
    <2>1. /\ handler[r] \in {"success", "failure", "overload"} /\ ~request[r].async
          /\ Answer(r, handler[r]) /\ UNCHANGED <<request, outcome>>
      BY <1>4 DEF Respond
    <2>2. Replies(r) /\ reply'[r] = handler[r]
      BY <2>1, AnswerReplies
    <2>3. handler'[r] = "done"
      BY <1>0, <2>1 DEF Answer
    <2>4. Truthful(r)'
      BY <1>0, <2>1, <2>2, <2>3 DEF Truthful
    <2> QED
      BY <1>0, <1>1, <1>4, <2>2, <2>4, HandlerMoves DEF Respond, Answer, vars
  <1>5. CASE PublishResult(r)
    <2>1. PICK status \in {"success", "failure"}, stage \in {"success", "done"} :
             Publish(r, status, stage) /\ handler[r] \in {"success", "failure"}
      BY <1>5 DEF PublishResult
    <2>2. Replies(r) /\ Truthful(r)'
      BY <1>3, <1>5, <2>1 DEF PublishResult, Publish
    <2> QED
      BY <1>0, <1>1, <1>5, <2>1, <2>2, HandlerMoves DEF PublishResult, Publish, vars
  <1>6. CASE Offload(r)
    <2>1. PICK o \in {"success", "overload", "failure"} :
             /\ outcome' = [outcome EXCEPT ![r] = o]
             /\ handler' = [handler EXCEPT ![r] = o]
             /\ SetReport(r, o)
      BY <1>6 DEF Offload
    <2>2. /\ handler[r] = "offloading"
          /\ UNCHANGED <<client, policy, request, object, freed, arrival, decision,
                         queue, completions, sched, reply, given, result>>
      BY <1>6 DEF Offload, requestVars, vars
    <2>3. Replies(r)
      BY <2>2 DEF SchedInv, SchedTypeOK, Replies
    <2>4. report' \in [Clients -> Clients \cup {NoCont}]
      BY <2>1, <2>2, ReportTyped
    <2>5. Truthful(r)'
      BY <1>0, <2>1, <2>2 DEF Truthful
    <2> QED
      BY <2>1, <2>2, <2>3, <2>4, <2>5, HandlerMoves
  <1>7. CASE OffloadAsync(r)
    <2>1. Replies(r) /\ Truthful(r)'
      BY <1>3, <1>7 DEF OffloadAsync, Publish
    <2> QED
      BY <1>0, <1>1, <1>7, <2>1, HandlerMoves DEF OffloadAsync, Publish, vars
  <1>8. CASE ReceiveDecision(r) \/ Execute(r)
    BY <1>8, ReceiveStep, ExecuteStep
  <1> QED
    BY <1>4, <1>5, <1>6, <1>7, <1>8 DEF HandlerStep

-----------------------------------------------------------------------------
(* The goroutine that schedules an invocation, and the scheduler's loop.   *)

(* r gets a decision, and what goes with it, from the pool or none.        *)
Arrived(r, stage) ==
    /\ arrival' = [arrival EXCEPT ![r] = stage]
    /\ \A s \in Clients \ {r} : client'[s] = client[s]
    /\ SameObjects
    /\ UNCHANGED <<policy, request, freed, handler, completions, outcome, reply, resultVars>>

Send(r, m) == decision' = [decision EXCEPT ![r] = <<m>>]

(* The channel of decisions holds one.                                     *)
LEMMA MessageLength == \A m \in Messages : Len(m) <= 1
  <1> SUFFICES ASSUME NEW m \in Messages PROVE Len(m) <= 1
    OBVIOUS
  <1>1. /\ Len(<<>>) = 0 /\ Len(<<Drop>>) = 1 /\ Len(<<ExecRemote>>) = 1
        /\ \A c \in Containers : Len(<<ExecLocal(c)>>) = 1
    OBVIOUS
  <1>2. \/ m \in {<<>>, <<Drop>>, <<ExecRemote>>}
        \/ \E c \in Containers : m = <<ExecLocal(c)>>
    BY DEF Messages
  <1>3. Len(m) \in {0, 1}
    BY <1>1, <1>2
  <1>4. \A n \in {0, 1} : n <= 1
    OBVIOUS
  <1> QED
    BY <1>3, <1>4

LEMMA ArrivalTypes ==
    ASSUME SchedInv, TypeOK', NEW r \in Clients,
           NEW stage \in {"warm", "cold", "starting", "pick", "fallback", "drop",
                          "queued", "queuestart", "done"},
           Arrived(r, stage),
           \/ UNCHANGED decision
           \/ \E m \in {Drop, ExecRemote} \cup {ExecLocal(c) : c \in Containers} :
                 Send(r, m),
           sched' \in {"select", "completion", "coldcheck"}
    PROVE  SchedTypeOK' /\ decision' \in [Clients -> Messages] /\ arrival'[r] = stage
           /\ Objects'
  <1>1. arrival'[r] = stage
    BY DEF SchedInv, SchedTypeOK, Arrived
  <1>2. decision' \in [Clients -> Messages]
    BY DEF SchedInv, Channels, Messages, Send
  <1>3. \A s \in Clients : Len(decision'[s]) <= 1
    BY <1>2, MessageLength
  <1>4. Objects'
    BY ObjectsStay DEF Arrived
  <1> QED
    BY <1>1, <1>2, <1>3, <1>4 DEF SchedInv, SchedTypeOK, Arrived, SameObjects, resultVars

(* The goroutine of r goes on, having nothing.                             *)
LEMMA GoesOn ==
    ASSUME SchedInv, TypeOK', NEW r \in Clients,
           \/ /\ arrival[r] \in {"submitted", "warm", "cold", "pick"}
              /\ client'[r] = client[r]
           \/ /\ arrival[r] \in {"starting", "queuestart"}
              /\ client'[r] = NoClient,
           NEW stage \in {"warm", "cold", "pick", "fallback", "drop"},
           Arrived(r, stage),
           UNCHANGED <<decision, queue, sched>>
    PROVE  SchedInv'
  <1>1. Consistent(r) /\ Truthful(r)
    BY DEF SchedInv
  <1>2. /\ SchedTypeOK' /\ arrival'[r] = stage /\ Objects'
        /\ sched' \in {"select", "completion", "coldcheck"}
    BY ArrivalTypes DEF SchedInv, SchedTypeOK
  <1>3. Channels'
    BY DEF SchedInv, Channels, Arrived
  <1>4. decision[r] = <<>> /\ handler[r] = "waiting" /\ arrival[r] \in Undecided
        /\ arrival[r] # "queued"
    BY <1>1 DEF Consistent, Undecided
  <1>5. client'[r].st = "idle"
    BY <1>1, <1>4 DEF Consistent, SchedInv, SchedTypeOK, TypeOK, Stages, NoClient, Waits
  <1>6. Consistent(r)'
    BY <1>1, <1>2, <1>4, <1>5 DEF Consistent, Arrived, Undecided, Waits
  <1>7. Truthful(r)'
    BY <1>1 DEF Truthful, Arrived
  <1>8. \A s \in Clients \ {r} : Untouched(s)
    BY DEF SchedInv, SchedTypeOK, Arrived, Untouched
  <1> QED
    BY <1>2, <1>3, <1>6, <1>7, <1>8, StepOfOne

(* The goroutine of r begins a cold start.                                 *)
LEMMA Begins ==
    ASSUME SchedInv, TypeOK', NEW r \in Clients, arrival[r] = "cold",
           NEW d, client'[r] = [st |-> "starting", fun |-> d, cont |-> NoCont],
           Arrived(r, "starting"),
           UNCHANGED <<decision, queue, sched>>
    PROVE  SchedInv'
  <1>1. Consistent(r) /\ Truthful(r)
    BY DEF SchedInv
  <1>2. /\ SchedTypeOK' /\ arrival'[r] = "starting" /\ Objects'
        /\ sched' \in {"select", "completion", "coldcheck"}
    BY ArrivalTypes DEF SchedInv, SchedTypeOK
  <1>3. Channels'
    BY DEF SchedInv, Channels, Arrived
  <1>4. decision[r] = <<>> /\ handler[r] = "waiting" /\ r \notin Range(completions)
    BY <1>1 DEF Consistent, Undecided
  <1>6. Consistent(r)'
    BY <1>1, <1>2, <1>4 DEF Consistent, Arrived, Undecided, Waits
  <1>7. Truthful(r)'
    BY <1>1 DEF Truthful, Arrived
  <1>8. \A s \in Clients \ {r} : Untouched(s)
    BY DEF SchedInv, SchedTypeOK, Arrived, Untouched
  <1> QED
    BY <1>2, <1>3, <1>6, <1>7, <1>8, StepOfOne

(* r is to use the container that it has got; the queue may lose r.        *)
LEMMA Serves ==
    ASSUME SchedInv, TypeOK', NEW r \in Clients,
           arrival[r] \in {"warm", "starting", "queued", "queuestart"},
           NEW c \in Containers, NEW d,
           client'[r] = [st |-> "running", fun |-> d, cont |-> c],
           NEW stage \in {"drop", "done"}, Arrived(r, stage),
           Send(r, ExecLocal(client'[r].cont)),
           Channels',
           \A s \in Clients : s \in Range(queue') <=> s \in Range(queue) /\ s # r,
           sched' \in {"select", "completion", "coldcheck"}
    PROVE  SchedInv'
  <1>1. Consistent(r) /\ Truthful(r)
    BY DEF SchedInv
  <1>2. SchedTypeOK' /\ arrival'[r] = stage /\ Objects'
    <2>1. ExecLocal(client'[r].cont) \in
             {Drop, ExecRemote} \cup {ExecLocal(b) : b \in Containers}
      OBVIOUS
    <2> QED
      BY <2>1, ArrivalTypes
  <1>3. handler[r] = "waiting" /\ r \notin Range(completions)
    BY <1>1 DEF Consistent, Undecided
  <1>5. decision'[r] = <<ExecLocal(client'[r].cont)>>
    BY DEF SchedInv, Channels, Send
  <1>6. decision'[r] # <<>> /\ decision'[r][1].action = "EXEC_LOCAL"
    BY <1>5 DEF ExecLocal
  <1>7. Consistent(r)'
    BY <1>1, <1>2, <1>3, <1>5, <1>6 DEF Consistent, Arrived, Undecided, Waits
  <1>8. Truthful(r)'
    BY <1>1 DEF Truthful, Arrived
  <1>9. \A s \in Clients \ {r} : Untouched(s)
    BY DEF SchedInv, SchedTypeOK, Channels, Arrived, Send, Untouched
  <1> QED
    BY <1>2, <1>7, <1>8, <1>9, StepOfOne

(* r gets no container: it is dropped, or goes to another node.            *)
LEMMA Refuses ==
    ASSUME SchedInv, TypeOK', NEW r \in Clients,
           arrival[r] \in {"pick", "fallback", "drop"}, decision[r] = <<>>,
           NEW m \in {Drop, ExecRemote},
           UNCHANGED client, Arrived(r, "done"), Send(r, m),
           UNCHANGED <<queue, sched>>
    PROVE  SchedInv'
  <1>1. Consistent(r) /\ Truthful(r)
    BY DEF SchedInv
  <1>2. /\ SchedTypeOK' /\ arrival'[r] = "done" /\ Objects'
        /\ decision' \in [Clients -> Messages]
    BY ArrivalTypes DEF SchedInv, SchedTypeOK
  <1>3. Channels'
    BY <1>2 DEF SchedInv, Channels, Arrived
  <1>4. decision'[r] = <<m>> /\ m.action # "EXEC_LOCAL"
    BY DEF SchedInv, Channels, Send, Drop, ExecRemote
  <1>5. ~Waits(r) /\ ~Waits(r)'
    BY <1>4 DEF Waits
  <1>6. Consistent(r)'
    BY <1>1, <1>2, <1>4, <1>5 DEF Consistent, Arrived, Undecided
  <1>7. Truthful(r)'
    BY <1>1 DEF Truthful, Arrived
  <1>8. \A s \in Clients \ {r} : Untouched(s)
    BY DEF SchedInv, SchedTypeOK, Channels, Arrived, Send, Untouched
  <1> QED
    BY <1>2, <1>3, <1>6, <1>7, <1>8, StepOfOne

(* A goroutine that schedules an invocation.                               *)
LEMMA ArrivalStepKeeps ==
    ASSUME SchedInv, TypeOK', NEW r \in Clients, ArrivalStep(r)
    PROVE  SchedInv'
  <1> USE DEF requestVars, resultVars
  <1>0. Consistent(r) /\ TypeOK /\ sched \in {"select", "completion", "coldcheck"}
    BY DEF SchedInv, SchedTypeOK
  <1>a. arrival[r] # "idle" => Fun(r) \in Descs
    BY SomeFunction
  <1>b. arrival[r] # "queued" => r \notin Range(queue)
    BY <1>0 DEF Consistent
  <1>c. Channels
    BY DEF SchedInv
  <1>d. UNCHANGED object => SameObjects
    BY UnchangedObjects
  <1>1. CASE TryWarm(r)
    <2>0. arrival[r] = "warm" /\ UNCHANGED <<policy, requestVars, handler, queue,
                                             completions, sched, outcome, reply, resultVars>>
      BY <1>1 DEF TryWarm
    <2>1. ASSUME AcquireWarmContainer(r, Fun(r)), NEW stage \in {"drop", "done"},
                 Decide(r, ExecLocal(client'[r].cont), stage)
          PROVE  SchedInv'
      <3>1. PICK c \in Containers :
               client'[r] = [st |-> "running", fun |-> Fun(r), cont |-> c]
        BY <1>0, <1>a, <2>0, <2>1, WarmEffect
      <3>2. \A s \in Clients \ {r} : client'[s] = client[s]
        BY <1>0, <1>a, <2>0, <2>1, WarmEffect
      <3>3. Arrived(r, stage) /\ Send(r, ExecLocal(client'[r].cont))
        BY <1>d, <2>0, <2>1, <3>2 DEF Decide, Arrived, Send
      <3>4. decision' \in [Clients -> Messages]
        BY <1>c, <3>1, <3>3 DEF Channels, Send, Messages
      <3>5. Channels'
        BY <1>c, <2>0, <3>4 DEF Channels
      <3>6. \A s \in Clients : s \in Range(queue') <=> s \in Range(queue) /\ s # r
        BY <1>b, <2>0
      <3> QED
        BY <1>0, <2>0, <3>1, <3>3, <3>5, <3>6, Serves
    <2>2. ASSUME AcquireWarmOutOfCPU(r, Fun(r)) \/ UNCHANGED vars,
                 NEW stage \in {"fallback", "cold"}, GoOn(r, stage)
          PROVE  SchedInv'
      <3>1. client' = client
        BY <2>2 DEF AcquireWarmOutOfCPU, vars
      <3>2. Arrived(r, stage) /\ UNCHANGED decision
        BY <1>d, <2>0, <2>2, <3>1 DEF GoOn, Arrived
      <3>3. arrival[r] \in {"submitted", "warm", "cold", "pick"} /\ client'[r] = client[r]
        BY <2>0, <3>1
      <3> QED
        BY <2>0, <3>2, <3>3, GoesOn
    <2> QED
      BY <1>1, <2>1, <2>2 DEF TryWarm
  <1>2. CASE TryCold(r)
    <2>0. arrival[r] = "cold" /\ UNCHANGED <<policy, requestVars, handler, queue,
                                             completions, sched, outcome, reply, resultVars>>
      BY <1>2 DEF TryCold
    <2>1. ASSUME \/ AcquireResources(r, Fun(r), "starting")
                 \/ AcquireByDismissing(r, Fun(r), "starting"),
                 GoOn(r, "starting")
          PROVE  SchedInv'
      <3>1. /\ client'[r] = [st |-> "starting", fun |-> Fun(r), cont |-> NoCont]
            /\ \A s \in Clients \ {r} : client'[s] = client[s]
        BY <1>0, <1>a, <2>0, <2>1, BeginEffect
      <3>2. Arrived(r, "starting") /\ UNCHANGED decision
        BY <1>d, <2>0, <2>1, <3>1 DEF GoOn, Arrived
      <3> QED
        BY <2>0, <3>1, <3>2, Begins
    <2>2. ASSUME AcquireAborted(r, Fun(r)) \/ UNCHANGED vars, GoOn(r, "fallback")
          PROVE  SchedInv'
      <3>1. client' = client
        BY <2>2 DEF AcquireAborted, vars
      <3>2. Arrived(r, "fallback") /\ UNCHANGED decision
        BY <1>d, <2>0, <2>2, <3>1 DEF GoOn, Arrived
      <3>3. arrival[r] \in {"submitted", "warm", "cold", "pick"} /\ client'[r] = client[r]
        BY <2>0, <3>1
      <3> QED
        BY <2>0, <3>2, <3>3, GoesOn
    <2> QED
      BY <1>2, <2>1, <2>2 DEF TryCold
  <1>3. CASE EndColdStart(r)
    <2>0. /\ arrival[r] \in {"starting", "queuestart"}
          /\ UNCHANGED <<policy, requestVars, handler, queue, completions, sched,
                         outcome, reply, resultVars>>
      BY <1>3 DEF EndColdStart
    <2>1. ASSUME ColdStart(r), Decide(r, ExecLocal(client'[r].cont), "done")
          PROVE  SchedInv'
      <3>1. PICK c \in Containers :
               client'[r] = [st |-> "running", fun |-> client[r].fun, cont |-> c]
        BY <1>0, <2>1, StartedEffect
      <3>2. \A s \in Clients \ {r} : client'[s] = client[s]
        BY <1>0, <2>1, StartedEffect
      <3>3. Arrived(r, "done") /\ Send(r, ExecLocal(client'[r].cont))
        BY <1>d, <2>0, <2>1, <3>2 DEF Decide, Arrived, Send
      <3>4. decision' \in [Clients -> Messages]
        BY <1>c, <3>1, <3>3 DEF Channels, Send, Messages
      <3>5. Channels'
        BY <1>c, <2>0, <3>4 DEF Channels
      <3>6. \A s \in Clients : s \in Range(queue') <=> s \in Range(queue) /\ s # r
        BY <1>b, <2>0
      <3> QED
        BY <1>0, <2>0, <3>1, <3>3, <3>5, <3>6, Serves
    <2>2. ASSUME ColdStartFails(r), NEW stage \in {"fallback", "drop"}, GoOn(r, stage)
          PROVE  SchedInv'
      <3>1. /\ client'[r] = NoClient
            /\ \A s \in Clients \ {r} : client'[s] = client[s]
        BY <1>0, <2>2, FailedEffect
      <3>2. Arrived(r, stage) /\ UNCHANGED decision
        BY <1>d, <2>0, <2>2, <3>1 DEF GoOn, Arrived
      <3> QED
        BY <2>0, <3>1, <3>2, GoesOn
    <2> QED
      BY <1>3, <2>1, <2>2 DEF EndColdStart
  <1>4. CASE Enqueue(r)
    <2>0. /\ arrival[r] = "fallback" /\ client' = client
          /\ UNCHANGED <<policy, requestVars, handler, completions, sched, outcome, reply, resultVars>>
      BY <1>4 DEF Enqueue, vars
    <2>1. CASE Len(queue) < QueueCap
      <3>1. queue' = Append(queue, r) /\ Arrived(r, "queued") /\ UNCHANGED decision
        BY <1>4, <1>d, <2>0, <2>1 DEF Enqueue, GoOn, Arrived
      <3>2. /\ Append(queue, r) \in Seq(Clients) /\ Append(queue, r) # <<>>
            /\ Len(Append(queue, r)) = Len(queue) + 1
            /\ Distinct(Append(queue, r))
            /\ \A y : y \in Range(Append(queue, r)) <=> y \in Range(queue) \/ y = r
        BY <1>b, <1>c, <2>0, AppendNew DEF Channels
      <3>3. Len(queue) \in Nat /\ Len(queue) + 1 <= QueueCap
        BY <1>c, <2>1, SchedAssumption DEF Channels
      <3>4. Channels'
        BY <1>c, <2>0, <3>1, <3>2, <3>3 DEF Channels
      <3>5. SchedTypeOK' /\ arrival'[r] = "queued" /\ Objects'
        BY <1>0, <2>0, <3>1, ArrivalTypes
      <3>6. Consistent(r)'
        BY <1>0, <2>0, <3>1, <3>2, <3>5 DEF Consistent, Arrived, Undecided, Waits
      <3>7. Truthful(r)'
        BY <2>0 DEF SchedInv, Truthful
      <3>8. \A s \in Clients \ {r} : Untouched(s)
        BY <2>0, <3>1, <3>2 DEF SchedInv, SchedTypeOK, Arrived, Untouched
      <3> QED
        BY <3>4, <3>5, <3>6, <3>7, <3>8, StepOfOne
    <2>2. CASE ~(Len(queue) < QueueCap)
      <3>1. queue' = queue /\ decision[r] = <<>> /\ Arrived(r, "done") /\ Send(r, Drop)
        BY <1>4, <1>d, <2>0, <2>2 DEF Enqueue, Decide, Arrived, Send
      <3> QED
        BY <2>0, <3>1, Refuses
    <2> QED
      BY <2>1, <2>2
  <1>5. CASE PickEdgeNode(r) \/ OffloadOrDrop(r) \/ dropRequest(r)
    <2>1. /\ arrival[r] \in {"pick", "fallback", "drop"} /\ client' = client
          /\ UNCHANGED <<policy, request, freed, handler, queue, completions,
                         sched, outcome, reply, resultVars>>
      BY <1>5 DEF PickEdgeNode, OffloadOrDrop, dropRequest, vars
    <2>2. \/ Decide(r, Drop, "done") /\ UNCHANGED object
          \/ handleOffload(r)
          \/ arrival[r] = "pick" /\ GoOn(r, "warm") /\ UNCHANGED object
      BY <1>5 DEF PickEdgeNode, OffloadOrDrop, dropRequest
    <2>3. SameObjects
      <3>1. CASE handleOffload(r)
        BY <1>0, <3>1 DEF handleOffload, SchedInv, SchedTypeOK, SameObjects
      <3> QED
        BY <1>d, <2>2, <3>1
    <2>4. ASSUME NEW m \in {Drop, ExecRemote}, Decide(r, m, "done")
          PROVE  SchedInv'
      <3>1. decision[r] = <<>> /\ Arrived(r, "done") /\ Send(r, m)
        BY <2>1, <2>3, <2>4 DEF Decide, Arrived, Send
      <3> QED
        BY <2>1, <3>1, Refuses
    <2>5. ASSUME arrival[r] = "pick", GoOn(r, "warm") PROVE SchedInv'
      <3>1. Arrived(r, "warm") /\ UNCHANGED decision
        BY <2>1, <2>3, <2>5 DEF GoOn, Arrived
      <3>2. arrival[r] \in {"submitted", "warm", "cold", "pick"} /\ client'[r] = client[r]
        BY <2>1, <2>5
      <3> QED
        BY <2>1, <3>1, <3>2, GoesOn
    <2> QED
      BY <2>2, <2>4, <2>5 DEF handleOffload
  <1> QED
    BY <1>1, <1>2, <1>3, <1>4, <1>5 DEF ArrivalStep

(* The loop of the scheduler.                                              *)
LEMMA LoopStepKeeps ==
    ASSUME SchedInv, TypeOK', LoopStep
    PROVE  SchedInv'
  <1> USE DEF requestVars, resultVars
  <1>0. TypeOK /\ Channels
    BY DEF SchedInv, SchedTypeOK
  <1>a. UNCHANGED object => SameObjects
    BY UnchangedObjects
  <1>1. ASSUME NEW r \in Clients, TakeRequest(r)
        PROVE  SchedInv'
    <2>1. PICK stage \in {"fallback", "pick", "warm"} : GoOn(r, stage)
      BY <1>1 DEF TakeRequest
    <2>2. arrival[r] = "submitted" /\ client' = client
          /\ UNCHANGED <<policy, requestVars, handler, queue, completions, sched,
                         outcome, reply, resultVars>>
      BY <1>1 DEF TakeRequest, vars
    <2>3. Arrived(r, stage) /\ UNCHANGED decision
      BY <1>a, <2>1, <2>2 DEF GoOn, Arrived
    <2>4. arrival[r] \in {"submitted", "warm", "cold", "pick"} /\ client'[r] = client[r]
      BY <2>2
    <2> QED
      BY <2>2, <2>3, <2>4, GoesOn
  <1>2. CASE TakeCompletion
    <2>1. PICK r \in Clients :
             /\ r = Head(completions)
             /\ r \in Range(completions) /\ Fun(r) \in Descs
             /\ handler[r] \in {"success", "failure", "overload", "done"}
             /\ client[r].st = "running"
      BY <1>2, FrontRuns DEF TakeCompletion
    <2>0. /\ completions # <<>> /\ ReleaseContainer(r, Fun(r))
          /\ completions' = Tail(completions) /\ sched' = "completion"
          /\ UNCHANGED <<policy, requestVars, handler, arrival, decision, queue,
                         outcome, reply, resultVars>>
      BY <1>2, <2>1 DEF TakeCompletion
    <2>2. client'[r] = NoClient /\ \A s \in Clients \ {r} : client'[s] = client[s]
      BY <1>0, <2>0, <2>1, FailedEffect
    <2>3. /\ Tail(completions) \in Seq(Clients) /\ Distinct(Tail(completions))
          /\ \A y : y \in Range(Tail(completions)) <=>
                       y \in Range(completions) /\ y # r
      BY <1>0, <2>0, <2>1, TailLeaves DEF Channels
    <2>4. SchedTypeOK'
      BY <2>0 DEF SchedInv, SchedTypeOK
    <2>5. Channels'
      BY <1>0, <2>0, <2>3 DEF Channels
    <2>6. Consistent(r) /\ Truthful(r)
      BY <2>1 DEF SchedInv
    <2>7. ~Waits(r) /\ ~Waits(r)' /\ arrival[r] \notin Undecided
      BY <2>0, <2>1, <2>6 DEF Consistent, Undecided, Waits
    <2>8. r \notin Range(completions') /\ client'[r].st = "idle"
      BY <2>0, <2>2, <2>3 DEF NoClient
    <2>9. Consistent(r)'
      BY <2>0, <2>1, <2>6, <2>7, <2>8 DEF Consistent, Undecided
    <2>10. Truthful(r)'
      BY <2>0, <2>6 DEF Truthful
    <2>11. \A s \in Clients \ {r} : Untouched(s)
      BY <2>0, <2>1, <2>2, <2>3 DEF Untouched
    <2>12. Objects'
      BY <1>a, <2>0, ObjectsStay
    <2> QED
      BY <2>1, <2>4, <2>5, <2>9, <2>10, <2>11, <2>12, StepOfOne
  <1>3. ASSUME \/ UNCHANGED vars
               \/ \E s \in Clients, d \in Descs :
                     AcquireWarmOutOfCPU(s, d) \/ AcquireAborted(s, d),
               UNCHANGED <<policy, requestVars, handler, arrival, decision, queue,
                           completions, outcome, reply, resultVars>>,
               sched' \in {"select", "completion", "coldcheck"},
               sched' = "coldcheck" => queue # <<>>
        PROVE  SchedInv'
    <2>1. client' = client
      BY <1>3 DEF vars, AcquireWarmOutOfCPU, AcquireAborted
    <2>2. SchedTypeOK' /\ Channels'
      BY <1>0, <1>3 DEF SchedInv, SchedTypeOK, Channels
    <2>3. \A s \in Clients : Untouched(s)
      BY <1>3, <2>1 DEF Untouched
    <2>4. Objects'
      BY <1>3, <1>a, ObjectsStay
    <2> QED
      BY <2>2, <2>3, <2>4, Frame DEF SchedInv
  <1>4. CASE CompletionIdle
    BY <1>3, <1>4 DEF CompletionIdle
  <1>5. ASSUME queue # <<>>
        PROVE  /\ Tail(queue) \in Seq(Clients) /\ Distinct(Tail(queue))
               /\ Len(Tail(queue)) <= QueueCap
               /\ \A y : y \in Range(Tail(queue)) <=>
                            y \in Range(queue) /\ y # Head(queue)
    <2>1. /\ Tail(queue) \in Seq(Clients) /\ Distinct(Tail(queue))
          /\ Len(Tail(queue)) = Len(queue) - 1
          /\ \A y : y \in Range(Tail(queue)) <=>
                       y \in Range(queue) /\ y # Head(queue)
      BY <1>0, <1>5, TailLeaves DEF Channels
    <2>2. Len(queue) \in Nat /\ Len(queue) <= QueueCap /\ QueueCap \in Nat
      BY <1>0, SchedAssumption DEF Channels
    <2>3. Len(queue) - 1 <= QueueCap
      BY <2>2
    <2> QED
      BY <2>1, <2>3
  <1>6. CASE CompletionWarm
    <2>0. /\ queue # <<>>
          /\ UNCHANGED <<policy, requestVars, handler, completions, outcome, reply, resultVars>>
      BY <1>6 DEF CompletionWarm
    <2>1. PICK r \in Clients :
             r = Head(queue) /\ arrival[r] = "queued" /\ Fun(r) \in Descs
      BY <2>0, FrontWaits
    <2>2. ASSUME AcquireWarmContainer(r, Fun(r)),
                 Decide(r, ExecLocal(client'[r].cont), "done"),
                 queue' = Tail(queue), sched' = "select"
          PROVE  SchedInv'
      <3>1. PICK c \in Containers :
               client'[r] = [st |-> "running", fun |-> Fun(r), cont |-> c]
        BY <1>0, <2>1, <2>2, WarmEffect
      <3>2. \A s \in Clients \ {r} : client'[s] = client[s]
        BY <1>0, <2>1, <2>2, WarmEffect
      <3>3. Arrived(r, "done") /\ Send(r, ExecLocal(client'[r].cont))
        BY <1>a, <2>0, <2>2, <3>2 DEF Decide, Arrived, Send
      <3>4. decision' \in [Clients -> Messages]
        BY <1>0, <3>1, <3>3 DEF Channels, Send, Messages
      <3>5. Channels'
        BY <1>0, <1>5, <2>0, <2>2, <3>4 DEF Channels
      <3>6. \A s \in Clients : s \in Range(queue') <=> s \in Range(queue) /\ s # r
        BY <1>5, <2>0, <2>1, <2>2
      <3> QED
        BY <2>1, <2>2, <3>1, <3>3, <3>5, <3>6, Serves
    <2>3. ASSUME AcquireWarmOutOfCPU(r, Fun(r)) \/ UNCHANGED vars,
                 sched' \in {"select", "coldcheck"},
                 UNCHANGED <<arrival, decision, queue>>
          PROVE  SchedInv'
      BY <1>3, <2>0, <2>1, <2>3
    <2> QED
      BY <1>6, <2>1, <2>2, <2>3 DEF CompletionWarm
  <1>7. CASE CompletionCold
    <2>0. /\ queue # <<>> /\ sched' = "select"
          /\ UNCHANGED <<policy, requestVars, handler, completions, outcome, reply, resultVars>>
      BY <1>0, <1>7 DEF CompletionCold, Channels
    <2>1. PICK r \in Clients :
             /\ r = Head(queue)
             /\ arrival[r] = "queued" /\ handler[r] = "waiting" /\ Fun(r) \in Descs
      BY <2>0, FrontWaits
    <2>2. ASSUME \/ AcquireResources(r, Fun(r), "starting")
                 \/ AcquireByDismissing(r, Fun(r), "starting"),
                 GoOn(r, "queuestart"), queue' = Tail(queue)
          PROVE  SchedInv'
      <3>1. /\ client'[r] = [st |-> "starting", fun |-> Fun(r), cont |-> NoCont]
            /\ \A s \in Clients \ {r} : client'[s] = client[s]
        BY <1>0, <2>1, <2>2, BeginEffect
      <3>2. Arrived(r, "queuestart") /\ UNCHANGED decision
        BY <1>a, <2>0, <2>2, <3>1 DEF GoOn, Arrived
      <3>3. SchedTypeOK' /\ arrival'[r] = "queuestart" /\ Objects'
        BY <2>0, <2>1, <3>2, ArrivalTypes
      <3>4. Channels'
        BY <1>0, <1>5, <2>0, <2>2, <3>2 DEF Channels
      <3>5. Consistent(r) /\ Truthful(r)
        BY <2>1 DEF SchedInv
      <3>7. r \notin Range(queue') /\ r \notin Range(completions)
            /\ decision[r] = <<>> /\ arrival[r] \in Undecided
        BY <1>5, <2>0, <2>1, <2>2, <3>5 DEF Consistent, Undecided
      <3>8. \A s \in Clients \ {r} : Untouched(s)
        BY <1>5, <2>0, <2>1, <2>2, <3>1, <3>2 DEF SchedInv, SchedTypeOK, Arrived, Untouched
      <3>9. Consistent(r)'
        BY <2>0, <2>1, <3>1, <3>2, <3>3, <3>5, <3>7
        DEF Consistent, Undecided, Waits
      <3>10. Truthful(r)'
        BY <2>0, <3>5 DEF Truthful
      <3> QED
        BY <2>1, <3>3, <3>4, <3>8, <3>9, <3>10, StepOfOne
    <2>3. ASSUME AcquireAborted(r, Fun(r)) \/ UNCHANGED vars,
                 UNCHANGED <<arrival, decision, queue>>
          PROVE  SchedInv'
      BY <1>3, <2>0, <2>1, <2>3
    <2> QED
      BY <1>7, <2>0, <2>1, <2>2, <2>3 DEF CompletionCold
  <1> QED
    BY <1>1, <1>2, <1>4, <1>6, <1>7 DEF LoopStep

(* A step that is not of an invocation.                                    *)
LEMMA ElsewhereKeeps ==
    ASSUME SchedInv, TypeOK', UNCHANGED <<client, schedVars>>
    PROVE  SchedInv'
  <1> USE DEF schedVars, requestVars, resultVars
  <1>1. SchedTypeOK' /\ Channels'
    BY DEF SchedInv, SchedTypeOK, Channels
  <1>2. \A s \in Clients : Untouched(s)
    BY DEF Untouched
  <1>3. Objects'
    BY ObjectsStay, UnchangedObjects
  <1> QED
    BY <1>1, <1>2, <1>3, Frame DEF SchedInv

LEMMA SchedInvStep ==
    ASSUME SchedInv, [SchedNext]_allVars
    PROVE  SchedInv'
  <1>0. TypeOK'
    BY PoolTyped
  <1>1. CASE UNCHANGED allVars
    BY <1>0, <1>1, ElsewhereKeeps DEF allVars, vars
  <1>2. CASE SchedNext
    <2>1. CASE PoolStep
      <3>1. UNCHANGED <<client, schedVars>>
        BY <2>1 DEF PoolStep, Expire, DestroyDying, ShutdownWarmContainersFor,
                    DeleteExpiredContainer
      <3> QED
        BY <1>0, <3>1, ElsewhereKeeps
    <2>2. ASSUME NEW r \in Clients, NEW d \in Descs, NEW k \in Kinds,
                 Invoke(r, d, k.async, k.offload)
          PROVE  SchedInv'
      <3>1. k.async \in BOOLEAN /\ k.offload \in BOOLEAN
        BY SchedAssumption
      <3> QED
        BY <1>0, <2>2, <3>1, InvokeStep
    <2> QED
      BY <1>0, <1>2, <2>1, <2>2, HandlerStepKeeps, ArrivalStepKeeps, LoopStepKeeps
      DEF SchedNext
  <1> QED
    BY <1>1, <1>2

(* The goroutines of every invocation agree, in every reachable state.     *)
THEOREM SchedulerKeepsAgreement == SchedSpec => []SchedInv
  <1>1. SchedInit => SchedInv
    BY SchedInvInit
  <1>2. SchedInv /\ [SchedNext]_allVars => SchedInv'
    BY SchedInvStep
  <1> QED
    BY <1>1, <1>2, PTL DEF SchedSpec

(* Types; and a decision channel never holds two decisions, more than the  *)
(* handler reads it for (scheduler.go:84-88, 158-169).                     *)
THEOREM SchedulerTypeCorrect == SchedSpec => []SchedTypeOK
  <1>1. SchedInv => SchedTypeOK
    BY SchedInvShows
  <1> QED
    BY <1>1, SchedulerKeepsAgreement, PTL

(* A container in use is with exactly one of: the decision channel, the    *)
(* execution, the channel completions (scheduler.go:65-66, 104-108, 167).  *)
THEOREM LeasesAreOnTheirWay == SchedSpec => []LeaseOnItsWay
  <1>1. SchedInv => LeaseOnItsWay
    BY SchedInvShows
  <1> QED
    BY <1>1, SchedulerKeepsAgreement, PTL

(* The queue has what waits, once each, and nothing else.                  *)
THEOREM QueueStaysConsistent == SchedSpec => []QueueConsistent
  <1>1. SchedInv => QueueConsistent
    BY SchedInvShows
  <1> QED
    BY <1>1, SchedulerKeepsAgreement, PTL

(* Whoever waits for a decision is still somebody's work: each way through *)
(* the policies, the queue and its cold starts ends in a decision          *)
(* (scheduler.go:68-79, 158-194, policy_default.go:21-68).                 *)
THEOREM NobodyStaysForgotten == SchedSpec => []NobodyIsForgotten
  <1>1. SchedInv => NobodyIsForgotten
    BY SchedInvShows
  <1> QED
    BY <1>1, SchedulerKeepsAgreement, PTL

(* The status of the answer to a synchronous invocation is what happened   *)
(* to it (scheduler.go:82-107, api.go:77-86), even when request objects    *)
(* are shared: the error that it depends on is a local variable.  Of the   *)
(* result that comes with the status this says nothing.                    *)
THEOREM AnswersStayTrue == SchedSpec => []AnswersAreTrue
  <1>1. SchedInv => AnswersAreTrue
    BY SchedInvShows
  <1> QED
    BY <1>1, SchedulerKeepsAgreement, PTL

-----------------------------------------------------------------------------
(* Each object has one user at a time: ~Recycle.                           *)

(* A goroutine may still read the object of r.                             *)
InUse(r) == handler[r] \notin {"idle", "done"} \/ r \in Range(completions)

(* While r uses its object, that names r and its function, so that no      *)
(* other uses it; r holds what it holds for its function; and no object is *)
(* named after an invocation that is still to come.                        *)
Own(r) ==
    /\ InUse(r) => Fun(r) = request[r].fun /\ ReqId(r) = r
    /\ client[r].st # "idle" => client[r].fun = request[r].fun
    /\ handler[r] # "idle" => handler[request[r].obj] # "idle"
    /\ r \in freed => handler[r] # "idle"

(* Where the handler of r is, and what r has been answered, agree.         *)
Answered(r) ==
    /\ handler[r] \in {"idle", "waiting", "executing", "offloading", "failure"} =>
          reply[r] = "none"
    /\ handler[r] = "success" =>
          reply[r] = "none" \/ (request[r].async /\ reply[r] = "failure")
    /\ handler[r] = "done" => reply[r] # "none" \/ outcome[r] = "remote"

(* The result of a successful execution, on its way to the answer: in the  *)
(* execution, in the object, in the answer.                                *)
Resulted(r) ==
    /\ handler[r] \in {"executing", "offloading"} => given[r] = r
    /\ handler[r] = "failure" => outcome[r] # "success"
    /\ handler[r] = "success" /\ outcome[r] = "success" =>
          report[request[r].obj] = r
    /\ reply[r] = "success" /\ outcome[r] = "success" => result[r] = r

OwnInv == \A r \in Clients : Own(r) /\ Answered(r) /\ Resulted(r)

(* r.Fun and r.ReqId are those of r.                                       *)
LEMMA OwnNames ==
    ASSUME OwnInv, NEW r \in Clients, InUse(r)
    PROVE  Fun(r) = request[r].fun /\ ReqId(r) = r
  BY DEF OwnInv, Own

(* Two invocations that use an object use two objects.                     *)
LEMMA OwnObjects ==
    ASSUME OwnInv, NEW r \in Clients, NEW s \in Clients, InUse(r), InUse(s), r # s
    PROVE  request[r].obj # request[s].obj
  BY OwnNames DEF ReqId

LEMMA OwnInit == SchedInit => OwnInv
  <1> SUFFICES ASSUME SchedInit, NEW r \in Clients
               PROVE  Own(r) /\ Answered(r) /\ Resulted(r)
    BY DEF OwnInv
  <1> QED
    BY EmptyRange DEF SchedInit, Init, NoClient, Own, InUse, Answered, Resulted

(* Whoever holds something goes on with what it held, or has acquired it   *)
(* for the function that its object names.                                 *)
LEMMA HoldsForFun ==
    ASSUME SchedInv, [SchedNext]_allVars, NEW s \in Clients, client'[s].st # "idle"
    PROVE  \/ client[s].st # "idle" /\ client'[s].fun = client[s].fun
           \/ arrival[s] \in {"warm", "cold", "queued"} /\ client'[s].fun = Fun(s)
  <1>0. TypeOK
    BY DEF SchedInv, SchedTypeOK
  <1>1. CASE client' = client
    BY <1>1
  <1>2. ASSUME NEW r \in Clients, arrival[r] \in {"warm", "cold", "queued"},
               \/ AcquireWarmContainer(r, Fun(r))
               \/ AcquireResources(r, Fun(r), "starting")
               \/ AcquireByDismissing(r, Fun(r), "starting")
        PROVE  (s = r /\ client'[s].fun = Fun(s)) \/ client'[s] = client[s]
    <2>1. Fun(r) \in Descs
      BY <1>2, SomeFunction
    <2>2. CASE AcquireWarmContainer(r, Fun(r))
      <3>1. PICK c \in Containers :
               client'[r] = [st |-> "running", fun |-> Fun(r), cont |-> c]
        BY <1>0, <2>1, <2>2, WarmEffect
      <3>2. s # r => client'[s] = client[s]
        BY <1>0, <2>1, <2>2, WarmEffect
      <3> QED
        BY <3>1, <3>2
    <2>3. CASE \/ AcquireResources(r, Fun(r), "starting")
               \/ AcquireByDismissing(r, Fun(r), "starting")
      <3>1. /\ client'[r] = [st |-> "starting", fun |-> Fun(r), cont |-> NoCont]
            /\ s # r => client'[s] = client[s]
        BY <1>0, <2>1, <2>3, BeginEffect
      <3> QED
        BY <3>1
    <2> QED
      BY <1>2, <2>2, <2>3
  <1>3. ASSUME NEW r \in Clients, ColdStart(r)
        PROVE  client[s].st # "idle" /\ client'[s].fun = client[s].fun
    <2>0. PICK c \in Containers :
             client'[r] = [st |-> "running", fun |-> client[r].fun, cont |-> c]
      BY <1>0, <1>3, StartedEffect
    <2>1. client'[r].fun = client[r].fun /\ client[r].st # "idle"
      BY <1>3, <2>0 DEF ColdStart
    <2>2. s # r => client'[s] = client[s]
      BY <1>0, <1>3, StartedEffect
    <2> QED
      BY <2>1, <2>2
  <1>4. ASSUME NEW r \in Clients,
               ColdStartFails(r) \/ \E d \in Descs : ReleaseContainer(r, d)
        PROVE  client'[s] = client[s]
    BY <1>0, <1>4, FailedEffect DEF NoClient
  <1>5. CASE UNCHANGED allVars
    BY <1>1, <1>5 DEF allVars, vars
  <1>6. ASSUME NEW r \in Clients, ArrivalStep(r)
        PROVE  \/ client' = client
               \/ ColdStart(r) \/ ColdStartFails(r)
               \/ /\ arrival[r] \in {"warm", "cold", "queued"}
                  /\ \/ AcquireWarmContainer(r, Fun(r))
                     \/ AcquireResources(r, Fun(r), "starting")
                     \/ AcquireByDismissing(r, Fun(r), "starting")
    BY <1>6 DEF ArrivalStep, TryWarm, TryCold, EndColdStart, PickEdgeNode, Enqueue,
                OffloadOrDrop, dropRequest, vars, AcquireWarmOutOfCPU, AcquireAborted
  <1>7. ASSUME CompletionWarm \/ CompletionCold
        PROVE  \/ client' = client
               \/ \E r \in Clients :
                     /\ arrival[r] \in {"warm", "cold", "queued"}
                     /\ \/ AcquireWarmContainer(r, Fun(r))
                        \/ AcquireResources(r, Fun(r), "starting")
                        \/ AcquireByDismissing(r, Fun(r), "starting")
    <2>1. queue # <<>>
      BY <1>7 DEF CompletionWarm, CompletionCold, SchedInv, Channels
    <2>2. PICK r \in Clients : r = Head(queue) /\ arrival[r] = "queued"
      BY <2>1, FrontWaits
    <2> QED
      BY <1>7, <2>2 DEF CompletionWarm, CompletionCold, vars, AcquireWarmOutOfCPU,
                        AcquireAborted
  <1>8. ASSUME TakeCompletion
        PROVE  \E r \in Clients : \E d \in Descs : ReleaseContainer(r, d)
    BY <1>8, FrontRuns DEF TakeCompletion
  <1>9. ASSUME \/ CompletionIdle \/ PoolStep
               \/ \E r \in Clients : HandlerStep(r) \/ TakeRequest(r)
               \/ \E r \in Clients, d \in Descs, k \in Kinds :
                     Invoke(r, d, k.async, k.offload)
        PROVE  client' = client
    BY <1>9 DEF CompletionIdle, PoolStep, HandlerStep, TakeRequest, Invoke,
                InvokeWith, ReceiveDecision, Execute, Respond, PublishResult, Offload,
                OffloadAsync, Expire, DestroyDying, ShutdownWarmContainersFor,
                DeleteExpiredContainer, vars
  <1>10. CASE \E r \in Clients : ArrivalStep(r)
    BY <1>1, <1>2, <1>3, <1>4, <1>6, <1>10
  <1>11. CASE CompletionWarm \/ CompletionCold
    BY <1>1, <1>2, <1>7, <1>11
  <1>12. CASE TakeCompletion
    BY <1>4, <1>8, <1>12
  <1> QED
    BY <1>1, <1>5, <1>9, <1>10, <1>11, <1>12 DEF SchedNext, LoopStep

(* What r holds is for its function, through every step that names the     *)
(* same invocations as before.                                             *)
LEMMA HoldsOwn ==
    ASSUME SchedInv, OwnInv, [SchedNext]_allVars, NEW s \in Clients,
           UNCHANGED request
    PROVE  client'[s].st # "idle" => client'[s].fun = request'[s].fun
  <1>1. Own(s) /\ Consistent(s)
    BY DEF OwnInv, SchedInv
  <1>2. arrival[s] \in {"warm", "cold", "queued"} => InUse(s)
    BY <1>1 DEF Consistent, Undecided, InUse
  <1> QED
    BY <1>1, <1>2, HoldsForFun DEF Own

(* Nothing that invocation s knows of itself is touched.                   *)
Apart(s) ==
    /\ request'[s] = request[s] /\ handler'[s] = handler[s]
    /\ InUse(s)' => InUse(s)
    /\ InUse(s) => /\ object'[request[s].obj].fun = Fun(s)
                   /\ object'[request[s].obj].id = ReqId(s)
                   /\ report'[request[s].obj] = report[request[s].obj]
    /\ given'[s] = given[s] /\ outcome'[s] = outcome[s]
    /\ reply'[s] = reply[s] /\ result'[s] = result[s]

LEMMA ApartKeeps ==
    ASSUME SchedInv, OwnInv, NEW s \in Clients, Apart(s),
           client'[s].st # "idle" => client'[s].fun = request'[s].fun,
           \A o \in Clients : handler[o] # "idle" => handler'[o] # "idle",
           s \in freed' => handler'[s] # "idle"
    PROVE  Own(s)' /\ Answered(s)' /\ Resulted(s)'
  <1>1. Own(s) /\ Answered(s) /\ Resulted(s)
    BY DEF OwnInv
  <1>2. handler[s] # "idle" => request[s].obj \in Clients
    BY DEF SchedInv, Objects
  <1>3. (InUse(s)' => Fun(s)' = request'[s].fun /\ ReqId(s)' = s)
    BY <1>1 DEF Own, Apart, Fun, ReqId
  <1>4. Own(s)'
    BY <1>1, <1>2, <1>3 DEF Own, Apart
  <1>5. Answered(s)'
    BY <1>1 DEF Answered, Apart
  <1>6. Resulted(s)'
    BY <1>1 DEF Resulted, Apart, InUse
  <1> QED
    BY <1>4, <1>5, <1>6

(* An invocation begins, with an object that nobody uses.                  *)
LEMMA InvokeOwns ==
    ASSUME ~Recycle, SchedInv, OwnInv, [SchedNext]_allVars,
           NEW r \in Clients, NEW d \in Descs, NEW k \in Kinds,
           Invoke(r, d, k.async, k.offload), NEW s \in Clients
    PROVE  Own(s)' /\ Answered(s)' /\ Resulted(s)'
  <1>1. PICK o \in {r} \cup Reusable : InvokeWith(r, o, d, k.async, k.offload)
    BY DEF Invoke
  <1>2. /\ o \in Clients
        /\ o # r => handler[o] # "idle"
        /\ \A t \in Clients : InUse(t) => request[t].obj # o
    <2>1. ASSUME NEW t \in Clients, InUse(t), o = r
          PROVE  request[t].obj # o
      <3>1. handler[t] # "idle"
        BY <2>1 DEF SchedInv, Consistent, InUse
      <3> QED
        BY <1>1, <2>1, <3>1 DEF OwnInv, Own, InvokeWith
    <2>2. CASE o = r
      BY <2>1, <2>2
    <2>3. CASE o # r
      <3>1. /\ o \in freed
            /\ \A t \in Clients : request[t].obj = o =>
                  handler[t] = "done" /\ t \notin Range(completions)
        BY <1>1, <2>3 DEF Reusable
      <3> QED
        BY <3>1 DEF SchedInv, SchedTypeOK, OwnInv, Own, InUse
    <2> QED
      BY <2>2, <2>3
  <1>3. /\ handler[r] = "idle"
        /\ request' = [request EXCEPT ![r] = [fun |-> d, obj |-> o, async |-> k.async]]
        /\ object' = [object EXCEPT ![o] = [fun |-> d, id |-> r, offload |-> k.offload]]
        /\ handler' = [handler EXCEPT ![r] = "waiting"]
        /\ freed' \subseteq freed \cup {o}
        /\ UNCHANGED <<client, completions, report, given, result, outcome, reply>>
    BY <1>1 DEF InvokeWith, vars, resultVars
  <1>4. /\ handler'[r] = "waiting"
        /\ request'[r] = [fun |-> d, obj |-> o, async |-> k.async]
        /\ \A t \in Clients \ {r} : handler'[t] = handler[t] /\ request'[t] = request[t]
        /\ object'[o].fun = d /\ object'[o].id = r
        /\ \A p \in Clients \ {o} : object'[p] = object[p]
    BY <1>2, <1>3 DEF SchedInv, SchedTypeOK
  <1>5. \A p \in Clients : handler[p] # "idle" => handler'[p] # "idle"
    BY <1>4
  <1>6. s \in freed' => handler'[s] # "idle"
    BY <1>2, <1>3, <1>4, <1>5 DEF OwnInv, Own
  <1>7. CASE s = r
    <2>1. arrival[r] = "idle" /\ client[r].st \in Stages /\ outcome[r] = "none"
      BY <1>3 DEF SchedInv, Consistent, Truthful, SchedTypeOK, TypeOK
    <2>2. client'[r].st = "idle"
      BY <1>3, <2>1 DEF SchedInv, Consistent, Stages, Undecided, Waits
    <2>3. reply[r] = "none"
      BY <1>3 DEF OwnInv, Answered
    <2>4. Own(r)'
      BY <1>2, <1>4, <1>5, <1>6, <1>7, <2>2 DEF Own, Fun, ReqId
    <2> QED
      BY <1>3, <1>4, <1>7, <2>3, <2>4 DEF Answered, Resulted
  <1>8. CASE s # r
    <2>1. Apart(s)
      <3>1. InUse(s) => request[s].obj \in Clients \ {o}
        BY <1>2 DEF SchedInv, Objects, Consistent, InUse
      <3>2. InUse(s)' => InUse(s)
        BY <1>3, <1>4, <1>8 DEF InUse
      <3> QED
        BY <1>3, <1>4, <1>8, <3>1, <3>2 DEF Apart, Fun, ReqId
    <2>2. client'[s].st # "idle" => client'[s].fun = request'[s].fun
      BY <1>3, <1>4, <1>8 DEF OwnInv, Own
    <2> QED
      BY <1>5, <1>6, <2>1, <2>2, ApartKeeps
  <1> QED
    BY <1>7, <1>8

(* A step of the handler of r leaves the others alone.                     *)
LEMMA HandlerApart ==
    ASSUME SchedInv, OwnInv, NEW r \in Clients, HandlerStep(r)
    PROVE  /\ InUse(r) /\ handler'[r] # "idle" /\ (InUse(r)' => InUse(r))
           /\ UNCHANGED <<request, object, client>>
           /\ freed' \subseteq freed \cup {request[r].obj}
           /\ \A s \in Clients \ {r} : Apart(s)
  <1>1. InUse(r) /\ UNCHANGED <<request, object, client>>
    BY DEF HandlerStep, ReceiveDecision, Execute, Respond, PublishResult, Offload,
           OffloadAsync, requestVars, vars, InUse
  <1>2. ReqId(r) = r
    BY <1>1, OwnNames
  <1>3. /\ \E h : h # "idle" /\ handler' = [handler EXCEPT ![r] = h]
        /\ freed' \subseteq freed \cup {request[r].obj}
        /\ \/ UNCHANGED <<reply, result>>
           \/ \E v : reply' = [reply EXCEPT ![r] = v] /\ UNCHANGED result
           \/ \E v : \E w : /\ reply' = [reply EXCEPT ![r] = v]
                            /\ result' = [result EXCEPT ![r] = w]
    <2>1. CASE ReceiveDecision(r)
      <3>1. PICK h \in {"executing", "offloading", "done"} :
               /\ handler' = [handler EXCEPT ![r] = h]
               /\ \/ UNCHANGED <<reply, result, freed>>
                  \/ Publish(r, "failure", "done")
                  \/ Answer(r, "overload")
        BY <2>1, Received
      <3>2. h # "idle"
        OBVIOUS
      <3>3. CASE UNCHANGED <<reply, result, freed>>
        BY <3>1, <3>2, <3>3
      <3>4. CASE Publish(r, "failure", "done")
        BY <1>2, <3>1, <3>2, <3>4 DEF Publish
      <3>5. CASE Answer(r, "overload")
        BY <3>1, <3>2, <3>5 DEF Answer
      <3> QED
        BY <3>1, <3>3, <3>4, <3>5
    <2>2. CASE Execute(r) \/ Offload(r)
      BY <2>2 DEF Execute, Offload, requestVars, resultVars
    <2>3. CASE Respond(r)
      BY <2>3 DEF Respond, Answer
    <2>4. CASE PublishResult(r) \/ OffloadAsync(r)
      BY <1>2, <2>4 DEF PublishResult, OffloadAsync, Publish
    <2> QED
      BY <2>1, <2>2, <2>3, <2>4 DEF HandlerStep
  <1>4. /\ \/ UNCHANGED given
           \/ \E v : given' = [given EXCEPT ![r] = v]
        /\ \/ UNCHANGED outcome
           \/ \E v : outcome' = [outcome EXCEPT ![r] = v]
        /\ \/ UNCHANGED report
           \/ \E v : report' = [report EXCEPT ![request[r].obj] = v]
        /\ completions' \in {completions, Append(completions, r)}
    <2>1. CASE ReceiveDecision(r)
      <3>1. UNCHANGED given \/ given' = [given EXCEPT ![r] = ReqId(r)]
        BY <2>1, Received
      <3> QED
        BY <2>1, <3>1 DEF ReceiveDecision
    <2>2. CASE Execute(r) \/ Offload(r)
      BY <2>2 DEF Execute, Offload, SetReport
    <2>3. CASE Respond(r) \/ PublishResult(r) \/ OffloadAsync(r)
      BY <2>3 DEF Respond, PublishResult, OffloadAsync
    <2> QED
      BY <2>1, <2>2, <2>3 DEF HandlerStep
  <1>5. \A s \in Clients \ {r} : s \in Range(completions') => s \in Range(completions)
    <2>1. CASE UNCHANGED completions
      BY <2>1
    <2>2. CASE Execute(r)
      <3>1. r \notin Range(completions)
        BY <2>2 DEF Execute, SchedInv, Consistent
      <3> QED
        BY <1>4, <3>1, AppendNew DEF SchedInv, Channels
    <2> QED
      BY <2>1, <2>2 DEF HandlerStep, ReceiveDecision, Respond, PublishResult, Offload,
                        OffloadAsync
  <1>6. ASSUME NEW s \in Clients \ {r}
        PROVE  Apart(s)
    <2>1. InUse(s) => /\ request[s].obj \in Clients /\ request[r].obj # request[s].obj
      BY <1>1, OwnObjects DEF SchedInv, Objects, Consistent, InUse
    <2>2. InUse(s) => report'[request[s].obj] = report[request[s].obj]
      BY <1>4, <2>1 DEF SchedInv, SchedTypeOK
    <2>3. /\ handler'[s] = handler[s] /\ given'[s] = given[s]
          /\ outcome'[s] = outcome[s]
      BY <1>3, <1>4 DEF SchedInv, SchedTypeOK
    <2>4. reply'[s] = reply[s] /\ result'[s] = result[s]
      BY <1>3 DEF SchedInv, SchedTypeOK
    <2> QED
      BY <1>1, <1>5, <2>2, <2>3, <2>4 DEF Apart, InUse, Fun, ReqId
  <1>7. handler'[r] # "idle"
    BY <1>3 DEF SchedInv, SchedTypeOK
  <1> QED
    BY <1>1, <1>3, <1>6, <1>7

(* A step of the handler of r, seen from the answers.                      *)
LEMMA HandlerAnswers ==
    ASSUME SchedInv, OwnInv, NEW r \in Clients, HandlerStep(r)
    PROVE  /\ Answered(r)' /\ Resulted(r)'
           /\ reply[r] # "none" => \/ reply'[r] = reply[r]
                                   \/ /\ request[r].async /\ reply[r] = "failure"
                                      /\ reply'[r] = "success"
  <1>0. /\ Answered(r) /\ Resulted(r) /\ Truthful(r)
        /\ reply \in [Clients -> {"none", "success", "failure", "overload"}]
        /\ outcome \in [Clients -> {"none", "success", "failure", "overload", "remote"}]
        /\ handler \in [Clients -> {"idle", "waiting", "executing", "offloading",
                                    "success", "failure", "overload", "done"}]
        /\ report \in [Clients -> Clients \cup {NoCont}]
        /\ given \in [Clients -> Clients \cup {NoCont}]
        /\ result \in [Clients -> Clients \cup {NoCont}]
    BY DEF OwnInv, SchedInv, SchedTypeOK
  <1>1. /\ ReqId(r) = r /\ request[r].obj \in Clients /\ UNCHANGED request
    <2>1. InUse(r) /\ UNCHANGED request
      BY HandlerApart
    <2> QED
      BY <2>1, OwnNames DEF SchedInv, Objects, Consistent, InUse
  <1>2. CASE ReceiveDecision(r)
    <2>1. PICK h \in {"executing", "offloading", "done"} :
             /\ handler' = [handler EXCEPT ![r] = h]
             /\ \/ UNCHANGED <<reply, result, freed>> /\ h # "done"
                \/ Publish(r, "failure", "done") /\ request[r].async /\ h = "done"
                \/ Answer(r, "overload") /\ ~request[r].async /\ h = "done"
             /\ given' = IF h = "done" THEN given
                                      ELSE [given EXCEPT ![r] = ReqId(r)]
      BY <1>2, Received
    <2>2. UNCHANGED <<outcome, request>> /\ handler[r] = "waiting"
      BY <1>2 DEF ReceiveDecision
    <2>3. h = "done" => \/ reply' = [reply EXCEPT ![r] = "failure"]
                        \/ reply' = [reply EXCEPT ![r] = "overload"]
      BY <1>1, <2>1, <2>2 DEF Publish, Answer
    <2>4. outcome[r] = "none" /\ reply[r] = "none"
      BY <1>0, <2>2 DEF Truthful, Answered
    <2>5. Answered(r)'
      BY <1>0, <2>1, <2>2, <2>3 DEF Answered
    <2>6. Resulted(r)'
      BY <1>0, <1>1, <2>1, <2>2, <2>4 DEF Resulted
    <2> QED
      BY <2>4, <2>5, <2>6
  <1>3. CASE Execute(r) \/ Offload(r)
    <2>1. PICK o \in {"success", "overload", "failure"} :
             /\ outcome' = [outcome EXCEPT ![r] = o]
             /\ handler' = [handler EXCEPT ![r] = o]
             /\ SetReport(r, o)
      BY <1>3 DEF Execute, Offload
    <2>2. UNCHANGED <<reply, result, given>> /\ handler[r] \in {"executing", "offloading"}
      BY <1>3 DEF Execute, Offload
    <2>3. reply[r] = "none" /\ given[r] = r
      BY <1>0, <2>2 DEF Answered, Resulted
    <2>4. handler'[r] = o /\ outcome'[r] = o
      BY <1>0, <2>1
    <2>5. o = "success" => report'[request'[r].obj] = r
      BY <1>0, <1>1, <2>1, <2>3 DEF SetReport
    <2> QED
      BY <2>2, <2>3, <2>4, <2>5 DEF Answered, Resulted
  <1>4. CASE Respond(r)
    <2>1. /\ handler[r] \in {"success", "failure", "overload"} /\ ~request[r].async
          /\ Answer(r, handler[r]) /\ UNCHANGED outcome
      BY <1>4 DEF Respond
    <2>2. reply[r] = "none" /\ handler'[r] = "done" /\ reply'[r] = handler[r]
      BY <1>0, <2>1 DEF Truthful, Answer
    <2>3. handler[r] = "success" => result'[r] = report[request[r].obj]
      BY <1>0, <2>1 DEF Answer
    <2> QED
      BY <1>0, <2>1, <2>2, <2>3 DEF Answered, Resulted
  <1>5. CASE PublishResult(r)
    <2>1. /\ request[r].async /\ UNCHANGED <<outcome, report>>
          /\ \/ handler[r] = "failure" /\ Publish(r, "failure", "success")
             \/ handler[r] = "success" /\ Publish(r, "success", "done")
      BY <1>5 DEF PublishResult
    <2>2. CASE handler[r] = "failure"
      <3>1. /\ reply[r] = "none" /\ outcome[r] # "success"
            /\ handler'[r] = "success" /\ reply'[r] = "failure"
        BY <1>0, <1>1, <2>1, <2>2 DEF Answered, Resulted, Publish
      <3> QED
        BY <1>1, <2>1, <3>1 DEF Answered, Resulted
    <2>3. CASE handler[r] = "success"
      <3>1. /\ reply[r] \in {"none", "failure"}
            /\ handler'[r] = "done" /\ reply'[r] = "success"
            /\ result'[r] = report[request[r].obj]
        BY <1>0, <1>1, <2>1, <2>3 DEF Answered, Publish
      <3> QED
        BY <1>0, <2>1, <2>3, <3>1 DEF Answered, Resulted
    <2> QED
      BY <2>1, <2>2, <2>3
  <1>7. CASE OffloadAsync(r)
    <2>1. handler[r] = "offloading" /\ request[r].async
      BY <1>7 DEF OffloadAsync
    <2>2. reply[r] = "none" /\ outcome[r] = "none"
      BY <1>0, <2>1 DEF Answered, Truthful
    <2>3. /\ handler'[r] = "done"
          /\ \/ reply'[r] = "failure" /\ outcome' = outcome
             \/ reply' = reply /\ outcome'[r] = "remote"
      BY <1>0, <1>1, <1>7, <2>1 DEF OffloadAsync, Publish
    <2> QED
      BY <2>2, <2>3 DEF Answered, Resulted
  <1> QED
    BY <1>2, <1>3, <1>4, <1>5, <1>7 DEF HandlerStep

(* The other steps answer nobody, and name what was named.                 *)
LEMMA OthersApart ==
    ASSUME SchedInv, OwnInv,
           \/ \E r \in Clients : ArrivalStep(r)
           \/ LoopStep \/ PoolStep \/ UNCHANGED allVars,
           NEW s \in Clients
    PROVE  Apart(s) /\ UNCHANGED <<request, handler, freed, reply>>
  <1>1. /\ UNCHANGED <<request, handler, freed, outcome, reply, report, given, result>>
        /\ completions' \in {completions, Tail(completions)}
        /\ completions = <<>> => UNCHANGED completions
        /\ \/ UNCHANGED object
           \/ \E r \in Clients :
                 object' = [object EXCEPT ![request[r].obj].offload = FALSE]
    <2>1. ASSUME NEW r \in Clients, ArrivalStep(r)
          PROVE  /\ UNCHANGED <<request, handler, freed, outcome, reply, report,
                                given, result, completions>>
                 /\ \/ UNCHANGED object
                    \/ object' = [object EXCEPT ![request[r].obj].offload = FALSE]
      BY <2>1 DEF ArrivalStep, TryWarm, TryCold, EndColdStart, PickEdgeNode, Enqueue,
                  OffloadOrDrop, dropRequest, handleOffload, requestVars, resultVars
    <2>2. ASSUME LoopStep \/ PoolStep \/ UNCHANGED allVars
          PROVE  /\ UNCHANGED <<request, handler, freed, outcome, reply, report,
                                given, result, object>>
                 /\ completions' \in {completions, Tail(completions)}
                 /\ completions = <<>> => UNCHANGED completions
      BY <2>2 DEF LoopStep, PoolStep, TakeRequest, TakeCompletion, CompletionIdle,
                  CompletionWarm, CompletionCold, requestVars, resultVars, schedVars,
                  allVars
    <2> QED
      BY <2>1, <2>2
  <1>2. SameObjects
    <2>1. ASSUME NEW r \in Clients,
                 object' = [object EXCEPT ![request[r].obj].offload = FALSE]
          PROVE  SameObjects
      BY <2>1 DEF SchedInv, SchedTypeOK, SameObjects
    <2> QED
      BY <1>1, <2>1, UnchangedObjects
  <1>3. s \in Range(completions') => s \in Range(completions)
    BY <1>1, TailLeaves DEF SchedInv, Channels
  <1>4. InUse(s) => request[s].obj \in Clients
    BY DEF SchedInv, Objects, Consistent, InUse
  <1> QED
    BY <1>1, <1>2, <1>3, <1>4 DEF Apart, InUse, SameObjects, Fun, ReqId

(* The second invariant is kept, and an answer is final.                   *)
LEMMA OwnInvStep ==
    ASSUME ~Recycle, SchedInv, OwnInv, [SchedNext]_allVars, NEW s \in Clients
    PROVE  /\ Own(s)' /\ Answered(s)' /\ Resulted(s)'
           /\ reply[s] # "none" => \/ reply'[s] = reply[s]
                                   \/ /\ request[s].async /\ reply[s] = "failure"
                                      /\ reply'[s] = "success"
  <1>1. ASSUME NEW r \in Clients, HandlerStep(r)
        PROVE  /\ Own(s)' /\ Answered(s)' /\ Resulted(s)'
               /\ reply[s] # "none" => \/ reply'[s] = reply[s]
                                       \/ /\ request[s].async /\ reply[s] = "failure"
                                          /\ reply'[s] = "success"
    <2>1. /\ InUse(r) /\ handler'[r] # "idle"
          /\ UNCHANGED <<request, object, client>>
          /\ freed' \subseteq freed \cup {request[r].obj}
          /\ \A t \in Clients \ {r} : Apart(t)
      BY <1>1, HandlerApart
    <2>2. \A o \in Clients : handler[o] # "idle" => handler'[o] # "idle"
      BY <2>1 DEF Apart
    <2>3. handler[r] # "idle" /\ handler[request[r].obj] # "idle"
      BY <2>1 DEF SchedInv, Consistent, InUse, OwnInv, Own
    <2>4. s \in freed' => handler'[s] # "idle"
      BY <2>1, <2>2, <2>3 DEF OwnInv, Own
    <2>5. client'[s].st # "idle" => client'[s].fun = request'[s].fun
      BY <2>1 DEF OwnInv, Own
    <2>6. CASE s = r
      <3>1. Own(r) /\ request[r].obj \in Clients
        BY <2>3 DEF OwnInv, SchedInv, Objects
      <3>2. Own(r)'
        BY <2>1, <2>2, <2>3, <2>4, <2>5, <2>6, <3>1 DEF Own, Fun, ReqId
      <3> QED
        BY <1>1, <2>6, <3>2, HandlerAnswers
    <2>7. CASE s # r
      <3>1. Apart(s)
        BY <2>1, <2>7
      <3> QED
        BY <2>2, <2>4, <2>5, <3>1, ApartKeeps DEF Apart
    <2> QED
      BY <2>6, <2>7
  <1>2. ASSUME NEW r \in Clients, NEW d \in Descs, NEW k \in Kinds,
               Invoke(r, d, k.async, k.offload)
        PROVE  Own(s)' /\ Answered(s)' /\ Resulted(s)' /\ reply'[s] = reply[s]
    BY <1>2, InvokeOwns DEF Invoke, InvokeWith
  <1>3. ASSUME \/ \E r \in Clients : ArrivalStep(r)
               \/ LoopStep \/ PoolStep \/ UNCHANGED allVars
        PROVE  Own(s)' /\ Answered(s)' /\ Resulted(s)' /\ reply'[s] = reply[s]
    <2>1. Apart(s) /\ UNCHANGED <<request, handler, freed, reply>>
      BY <1>3, OthersApart
    <2>2. s \in freed' => handler'[s] # "idle"
      BY <2>1 DEF OwnInv, Own
    <2>3. client'[s].st # "idle" => client'[s].fun = request'[s].fun
      BY <2>1, HoldsOwn
    <2> QED
      BY <2>1, <2>2, <2>3, ApartKeeps
  <1> QED
    BY <1>1, <1>2, <1>3 DEF SchedNext

LEMMA OwnInvHolds ==
    ASSUME ~Recycle
    PROVE  SchedSpec => []OwnInv
  <1>1. SchedInit => OwnInv
    BY OwnInit
  <1>2. SchedInv /\ OwnInv /\ [SchedNext]_allVars => OwnInv'
    BY OwnInvStep DEF OwnInv
  <1> QED
    BY <1>1, <1>2, SchedulerKeepsAgreement, PTL DEF SchedSpec

(* What is answered stays answered, unless a success follows the failure   *)
(* of the same asynchronous invocation (scheduler.go:123-139, api.go:77-86).*)
THEOREM AnswersStayFinal ==
    ASSUME ~Recycle
    PROVE  SchedSpec => AnswersAreFinal
  <1>1. SchedInv /\ OwnInv /\ [SchedNext]_allVars =>
          [\A r \in Clients : reply[r] # "none" =>
             \/ reply'[r] = reply[r]
             \/ request[r].async /\ reply[r] = "failure" /\ reply'[r] = "success"]_allVars
    BY OwnInvStep
  <1> QED
    BY <1>1, SchedulerKeepsAgreement, OwnInvHolds, PTL DEF SchedSpec, AnswersAreFinal

(* No goroutine ends before its invocation is answered, or accepted by     *)
(* another node (scheduler.go:82-141).                                     *)
THEOREM AllAreAnsweredWhenDone ==
    ASSUME ~Recycle
    PROVE  SchedSpec => []AnsweredWhenDone
  <1>1. OwnInv => AnsweredWhenDone
    BY DEF OwnInv, Answered, AnsweredWhenDone
  <1> QED
    BY <1>1, OwnInvHolds, PTL

(* The scheduler uses the pool as the pool expects: every theorem of       *)
(* ContainerPoolProofs holds of the scheduler's pool.                      *)
THEOREM SchedulerUsesPool ==
    ASSUME ~Recycle
    PROVE  SchedSpec => PoolSpec
  <1>1. SchedInit => Init
    BY DEF SchedInit
  <1>2. SchedInv /\ OwnInv /\ [SchedNext]_allVars => [Next]_vars
    <2> SUFFICES ASSUME SchedInv, OwnInv, [SchedNext]_allVars PROVE [Next]_vars
      OBVIOUS
    <2>1. CASE UNCHANGED allVars
      BY <2>1 DEF allVars
    <2>2. ASSUME NEW r \in Clients, r \in Range(completions),
                 ReleaseContainer(r, Fun(r))
          PROVE  Next
      <3>1. client[r].st # "idle" /\ Fun(r) = request[r].fun
        BY <2>2, OwnNames DEF ReleaseContainer, InUse
      <3>2. Fun(r) = client[r].fun
        BY <3>1 DEF OwnInv, Own
      <3> QED
        BY <2>2, <3>2 DEF Next
    <2> QED
      BY <2>1, <2>2, PoolUsed
  <1> QED
    BY <1>1, <1>2, SchedulerKeepsAgreement, OwnInvHolds, PTL
    DEF SchedSpec, PoolSpec, Spec

(* The result that a successful invocation is answered with, or that is    *)
(* published for it, is of its own Params (execution.go:20-30, 49-56,      *)
(* api.go:85, scheduler.go:139), if no request object is handed out while  *)
(* it is in use; the objects themselves are used many times.               *)
THEOREM AnswersCarryOwnResult ==
    ASSUME ~Recycle
    PROVE  SchedSpec => []ResultsAreOwn
  <1>1. OwnInv => ResultsAreOwn
    BY DEF OwnInv, Resulted, ResultsAreOwn
  <1> QED
    BY <1>1, OwnInvHolds, PTL
=============================================================================
