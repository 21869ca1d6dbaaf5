--------------------------- MODULE ExecutorProofs ---------------------------
(***************************************************************************)
(* Executor, for any invocations, time limits and faults: types and        *)
(* bounds, one execution for each invocation, and own results as long as   *)
(* no invocation was given up while its handler ran.                       *)
(***************************************************************************)
EXTENDS Executor, TLAPS

(* Inductive: who may still post has not yet waited for the whole time.    *)
Patient ==
    /\ ExecTypeOK
    /\ \A r \in Invocations : client[r] # "done" => wait[r] < TimeoutMillis

LEMMA PatientInit == ExecInit => Patient
  <1> SUFFICES ASSUME ExecInit PROVE Patient
    OBVIOUS
  <1>1. /\ 0 \in 0 .. TimeoutMillis + MaxBackoff - 1
        /\ 0 < TimeoutMillis
        /\ FirstBackoff \in 1 .. MaxBackoff
    BY ExecutorAssumption
  <1>2. wait \in [Invocations -> 0 .. TimeoutMillis + MaxBackoff - 1]
    BY <1>1 DEF ExecInit
  <1>3. backoff \in [Invocations -> 1 .. MaxBackoff]
    BY <1>1 DEF ExecInit
  <1>4. \A r \in Invocations : wait[r] < TimeoutMillis /\ client[r] = "idle"
    BY <1>1 DEF ExecInit
  <1> QED
    BY <1>2, <1>3, <1>4, ExecutorAssumption
    DEF ExecInit, Patient, ExecTypeOK, Inputs

(* What the node keeps of an invocation has its types.                     *)
NodeTyped ==
    /\ holder \in Invocations \cup {NoInv}
    /\ client \in [Invocations -> {"idle", "post", "sent", "done"}]
    /\ wait \in [Invocations -> 0 .. TimeoutMillis + MaxBackoff - 1]
    /\ backoff \in [Invocations -> 1 .. MaxBackoff]
    /\ response \in [Invocations ->
          [st : {"none", "error", "failure", "success"},
           result : Inputs \cup {NoFile}]]
    /\ \A r \in Invocations : client[r] \in {"post", "sent"} => holder = r
    /\ \A r \in Invocations : client[r] # "done" => wait[r] < TimeoutMillis

(* A retry is in time, or Execute gives up with an error; the answer that  *)
(* there may be is not touched.                                            *)
LEMMA RetryTyped ==
    ASSUME NodeTyped, NEW r \in Invocations, client[r] \in {"post", "sent"},
           Retry(r)
    PROVE  /\ NodeTyped'
           /\ client'[r] \in {"post", "done"}
           /\ \A i \in Invocations : response'[i].st = "success" =>
                 /\ response[i].st = "success"
                 /\ response'[i].result = response[i].result
  <1> USE ExecutorAssumption DEF NodeTyped, Retry
  <1>1. wait[r] \in Nat /\ backoff[r] \in 1 .. MaxBackoff /\ wait[r] < TimeoutMillis
    OBVIOUS
  <1>2. wait' \in [Invocations -> 0 .. TimeoutMillis + MaxBackoff - 1]
    BY <1>1
  <1>3. backoff' \in [Invocations -> 1 .. MaxBackoff]
    BY <1>1
  <1>4. CASE wait'[r] < TimeoutMillis
    <2>1. client' = [client EXCEPT ![r] = "post"] /\ UNCHANGED <<holder, response>>
      BY <1>4
    <2> QED
      BY <1>2, <1>3, <1>4, <2>1
  <1>5. CASE ~(wait'[r] < TimeoutMillis)
    <2>1. /\ client' = [client EXCEPT ![r] = "done"]
          /\ response' = [response EXCEPT ![r].st = "error"]
          /\ UNCHANGED holder
      BY <1>5
    <2>2. response' \in [Invocations ->
             [st : {"none", "error", "failure", "success"},
              result : Inputs \cup {NoFile}]]
      BY <2>1
    <2>3. \A i \in Invocations : i # r => response'[i] = response[i]
      BY <2>1
    <2>4. response'[r].st = "error"
      BY <2>1
    <2>5. \A i \in Invocations \ {r} : client'[i] = client[i] /\ wait'[i] = wait[i]
      BY <2>1
    <2>6. client'[r] = "done"
      BY <2>1
    <2> QED
      BY <1>2, <1>3, <2>1, <2>2, <2>3, <2>4, <2>5, <2>6
  <1> QED
    BY <1>4, <1>5

(* Execute returns one answer and leaves the others alone.                 *)
LEMMA ReturnTyped ==
    ASSUME NodeTyped, NEW r \in Invocations,
           NEW st \in {"error", "failure", "success"},
           NEW result \in Inputs \cup {NoFile}, Return(r, st, result)
    PROVE  /\ NodeTyped'
           /\ response'[r] = [st |-> st, result |-> result]
           /\ \A i \in Invocations \ {r} : response'[i] = response[i]
  <1> USE DEF NodeTyped, Return
  <1>1. response' \in [Invocations ->
           [st : {"none", "error", "failure", "success"},
            result : Inputs \cup {NoFile}]]
    OBVIOUS
  <1> QED
    BY <1>1

(* The same of the container.                                              *)
ContainerTyped ==
    /\ body \in [Invocations -> BOOLEAN]
    /\ server \in {"booting", "up", "gone"}
    /\ command \in BOOLEAN
    /\ paramsVar \in {"", "file"}
    /\ paramsFile \in Invocations \cup {NoFile}
    /\ resultFile \in Inputs \cup {NoFile}
    /\ handler \in [Invocations -> {"none", "decoded", "written", "set",
                                    "started", "reading", "exited", "failed"}]
    /\ source \in [Invocations -> {"", "file"}]
    /\ input \in [Invocations -> Inputs \cup {NoFile}]
    /\ executions \in [Invocations -> Nat]
    /\ abandoned \in BOOLEAN /\ silent \in BOOLEAN

LEMMA PatientParts == Patient <=> NodeTyped /\ ContainerTyped
  BY DEF Patient, ExecTypeOK, NodeTyped, ContainerTyped

(* An answer, to whoever listens, ends a handler.                          *)
LEMMA AnswersTyped ==
    ASSUME NodeTyped, ContainerTyped, NEW r \in Invocations,
           NEW st \in {"error", "failure", "success"},
           NEW result \in Inputs \cup {NoFile}, Answers(r, st, result)
    PROVE  /\ NodeTyped'
           /\ body' = body
           /\ handler' = [handler EXCEPT ![r] = "none"]
           /\ \/ response'[r] = [st |-> st, result |-> result]
              \/ response'[r] = response[r]
           /\ \A i \in Invocations \ {r} : response'[i] = response[i]
  <1>1. CASE client[r] = "sent"
    <2>1. Return(r, st, result)
      BY <1>1 DEF Answers
    <2> QED
      BY <2>1, ReturnTyped DEF Answers, Return
  <1>2. CASE client[r] # "sent"
    BY <1>2 DEF Answers, NodeTyped, nodeVars
  <1> QED
    BY <1>1, <1>2

LEMMA PatientStep == Patient /\ [ExecNext]_execVars => Patient'
  <1> SUFFICES ASSUME NodeTyped, ContainerTyped, [ExecNext]_execVars
               PROVE  NodeTyped' /\ ContainerTyped'
    BY PatientParts DEF NodeTyped, ContainerTyped, Patient, ExecTypeOK, Inputs
  <1>1. ASSUME NEW r \in Invocations, Execute(r)
        PROVE  NodeTyped' /\ ContainerTyped'
    BY <1>1, ExecutorAssumption
    DEF Execute, NodeTyped, ContainerTyped, fileVars, handlerVars, Inputs
  <1>2. ASSUME NEW r \in Invocations, Refused(r)
        PROVE  NodeTyped' /\ ContainerTyped'
    <2>1. NodeTyped'
      BY <1>2, RetryTyped DEF Refused
    <2> QED
      BY <1>2, <2>1
      DEF Refused, ContainerTyped, fileVars, handlerVars, Inputs
  <1>3. ASSUME NEW r \in Invocations, Post(r)
        PROVE  NodeTyped' /\ ContainerTyped'
    <2>1. CASE body[r]
      BY <1>3, <2>1
      DEF Post, Return, NodeTyped, ContainerTyped, fileVars, Inputs
    <2>2. CASE ~body[r]
      <3>1. NodeTyped'
        BY <1>3, <2>2, ReturnTyped DEF Post
      <3> QED
        BY <1>3, <2>2, <3>1 DEF Post, Return, ContainerTyped, fileVars, Inputs
    <2> QED
      BY <2>1, <2>2
  <1>4. ASSUME NEW r \in Invocations, ConnectionBreaks(r)
        PROVE  NodeTyped' /\ ContainerTyped'
    <2>1. NodeTyped'
      BY <1>4, RetryTyped DEF ConnectionBreaks
    <2> QED
      BY <1>4, <2>1
      DEF ConnectionBreaks, ContainerTyped, fileVars, handlerVars, Inputs
  <1>5. ASSUME NEW r \in Invocations, Release(r)
        PROVE  NodeTyped' /\ ContainerTyped'
    BY <1>5 DEF Release, NodeTyped, ContainerTyped, fileVars, handlerVars, Inputs
  <1>6. ASSUME NEW r \in Invocations, WriteParams(r)
        PROVE  NodeTyped' /\ ContainerTyped'
    <2>1. CASE /\ paramsFile' = r
               /\ handler' = [handler EXCEPT ![r] = "written"]
               /\ UNCHANGED nodeVars
      BY <1>6, <2>1
      DEF WriteParams, NodeTyped, ContainerTyped, nodeVars, Inputs
    <2>2. CASE Answers(r, "error", NoFile) /\ UNCHANGED paramsFile
      <3>1. NodeTyped' /\ body' = body /\ handler' = [handler EXCEPT ![r] = "none"]
        BY <2>2, AnswersTyped
      <3> QED
        BY <1>6, <2>2, <3>1 DEF WriteParams, ContainerTyped, Inputs
    <2> QED
      BY <1>6, <2>1, <2>2 DEF WriteParams
  <1>7. ASSUME NEW r \in Invocations, SetEnv(r)
        PROVE  NodeTyped' /\ ContainerTyped'
    BY <1>7 DEF SetEnv, NodeTyped, ContainerTyped, nodeVars, Inputs
  <1>8. ASSUME NEW r \in Invocations, StartProcess(r)
        PROVE  NodeTyped' /\ ContainerTyped'
    <2>1. NodeTyped' /\ body' = body
      <3>1. CASE UNCHANGED nodeVars
        BY <3>1 DEF NodeTyped, nodeVars
      <3>2. CASE client[r] = "sent" /\ Retry(r) /\ UNCHANGED body
        BY <3>2, RetryTyped
      <3> QED
        BY <1>8, <3>1, <3>2 DEF StartProcess
    <2>2. /\ handler' \in {[handler EXCEPT ![r] = "started"],
                           [handler EXCEPT ![r] = "none"]}
          /\ source' \in {source, [source EXCEPT ![r] = paramsVar]}
          /\ executions' \in {executions, [executions EXCEPT ![r] = @ + 1]}
      BY <1>8 DEF StartProcess
    <2>3. source' \in [Invocations -> {"", "file"}]
      BY <2>2 DEF ContainerTyped
    <2>4. executions' \in [Invocations -> Nat]
      <3>1. executions \in [Invocations -> Nat]
        BY DEF ContainerTyped
      <3>2. executions[r] \in Nat
        BY <3>1
      <3>3. executions[r] + 1 \in Nat
        BY <3>2
      <3> QED
        BY <2>2, <3>1, <3>3
    <2> QED
      BY <1>8, <2>1, <2>2, <2>3, <2>4 DEF StartProcess, ContainerTyped, fileVars, Inputs
  <1>9. ASSUME NEW r \in Invocations, ReadParams(r)
        PROVE  NodeTyped' /\ ContainerTyped'
    BY <1>9 DEF ReadParams, NodeTyped, ContainerTyped, nodeVars, fileVars, Inputs
  <1>10. ASSUME NEW r \in Invocations, EndProcess(r)
         PROVE  NodeTyped' /\ ContainerTyped'
    BY <1>10 DEF EndProcess, NodeTyped, ContainerTyped, nodeVars, Inputs
  <1>11. ASSUME NEW r \in Invocations, Reply(r)
         PROVE  NodeTyped' /\ ContainerTyped'
    <2>1. /\ NodeTyped' /\ body' = body
          /\ handler' = [handler EXCEPT ![r] = "none"]
      <3>1. CASE Answers(r, "success", resultFile)
        BY <3>1, AnswersTyped DEF ContainerTyped
      <3>2. CASE Answers(r, "failure", NoFile)
        BY <3>2, AnswersTyped
      <3> QED
        BY <1>11, <3>1, <3>2 DEF Reply
    <2> QED
      BY <1>11, <2>1 DEF Reply, ContainerTyped, fileVars, Inputs
  <1>12. CASE Boot
    BY <1>12
    DEF Boot, NodeTyped, ContainerTyped, nodeVars, fileVars, handlerVars, Inputs
  <1>13. CASE ExecutorExits
    <2>1. NodeTyped' /\ body' = body
      <3>1. CASE UNCHANGED nodeVars
        BY <3>1 DEF NodeTyped, nodeVars
      <3>2. CASE holder # NoInv /\ client[holder] = "sent" /\ Retry(holder)
                 /\ UNCHANGED body
        <4>1. holder \in Invocations
          BY <3>2 DEF NodeTyped
        <4> QED
          BY <3>2, <4>1, RetryTyped
      <3> QED
        BY <1>13, <3>1, <3>2 DEF ExecutorExits
    <2> QED
      BY <1>13, <2>1 DEF ExecutorExits, ContainerTyped, fileVars, Inputs
  <1>14. CASE UNCHANGED execVars
    BY <1>14 DEF execVars, NodeTyped, ContainerTyped, nodeVars, fileVars,
                 handlerVars, Inputs
  <1> QED
    BY <1>1, <1>2, <1>3, <1>4, <1>5, <1>6, <1>7, <1>8, <1>9, <1>10, <1>11,
       <1>12, <1>13, <1>14 DEF ExecNext, InvokeHandler

(* Types, and that whoever is between lease and answer holds the lease and *)
(* has waited within its bound (container.go:90-107).                      *)
THEOREM ExecutorTypeCorrect == ExecSpec => []ExecTypeOK
  <1>1. Patient => ExecTypeOK
    BY DEF Patient
  <1> QED
    BY PatientInit, PatientStep, <1>1, PTL DEF ExecSpec

-----------------------------------------------------------------------------
(* Inductive: the body of a request is consumed before its handler starts  *)
(* a process, and is never full again.                                     *)
Consumed ==
    \A r \in Invocations :
       /\ executions[r] \in Nat
       /\ body[r] => handler[r] = "none" /\ executions[r] = 0
       /\ handler[r] \in {"decoded", "written", "set"} => executions[r] = 0
       /\ executions[r] <= 1

(* A step that moves no handler into its first stages, starts no process   *)
(* and fills no body keeps it.                                             *)
LEMMA StaysConsumed ==
    ASSUME Consumed, UNCHANGED executions,
           \A r \in Invocations :
              /\ body'[r] => body[r] /\ handler'[r] = handler[r]
              /\ handler'[r] \in {"decoded", "written", "set"} =>
                    handler[r] \in {"decoded", "written", "set"}
    PROVE  Consumed'
  BY DEF Consumed

LEMMA ConsumedStep ==
    ASSUME Patient, Consumed, [ExecNext]_execVars
    PROVE  Consumed'
  <1>a. 0 + 1 = 1 /\ 1 \in Nat /\ 1 <= 1
    OBVIOUS
  <1> USE PatientParts DEF ContainerTyped
  <1>1. ASSUME NEW r \in Invocations,
               \/ Execute(r) \/ Refused(r) \/ Release(r) \/ ReadParams(r)
               \/ ConnectionBreaks(r) \/ SetEnv(r)
        PROVE  Consumed'
    BY <1>1, StaysConsumed
    DEF Execute, Refused, Release, ReadParams, ConnectionBreaks, SetEnv,
        Consumed, nodeVars, handlerVars
  <1>2. ASSUME NEW r \in Invocations, Post(r)
        PROVE  Consumed'
    <2>1. CASE body[r]
      BY <1>2, <2>1 DEF Post, Return, Consumed
    <2>2. CASE ~body[r]
      BY <1>2, <2>2, StaysConsumed DEF Post, Return
    <2> QED
      BY <2>1, <2>2
  <1>3. ASSUME NEW r \in Invocations, WriteParams(r) \/ Reply(r)
        PROVE  Consumed'
    <2>1. body' = body
      BY <1>3 DEF WriteParams, Reply, Answers, Return, nodeVars
    <2>2. /\ handler[r] # "none"
          /\ \/ handler[r] = "decoded" /\ handler' = [handler EXCEPT ![r] = "written"]
             \/ handler' = [handler EXCEPT ![r] = "none"]
      BY <1>3 DEF WriteParams, Reply, Answers
    <2>3. UNCHANGED executions
      BY <1>3 DEF WriteParams, Reply
    <2> QED
      BY <2>1, <2>2, <2>3, StaysConsumed DEF Consumed
  <1>4. ASSUME NEW r \in Invocations, StartProcess(r)
        PROVE  Consumed'
    <2>1. body' = body /\ handler[r] = "set"
      BY <1>4 DEF StartProcess, nodeVars
    <2>2. CASE /\ handler' = [handler EXCEPT ![r] = "started"]
               /\ executions' = [executions EXCEPT ![r] = @ + 1]
      <3>1. executions[r] = 0 /\ ~body[r]
        BY <2>1 DEF Consumed
      <3>3. /\ executions'[r] = 1 /\ handler'[r] = "started"
            /\ \A i \in Invocations \ {r} : /\ executions'[i] = executions[i]
                                            /\ handler'[i] = handler[i]
        BY <1>a, <2>2, <3>1
      <3> QED
        BY <1>a, <2>1, <3>1, <3>3 DEF Consumed
    <2>3. CASE /\ handler' = [handler EXCEPT ![r] = "none"]
               /\ UNCHANGED executions
      BY <2>1, <2>3, StaysConsumed DEF Consumed
    <2> QED
      BY <1>4, <2>2, <2>3 DEF StartProcess
  <1>5. ASSUME NEW r \in Invocations, EndProcess(r)
        PROVE  Consumed'
    BY <1>5, StaysConsumed DEF EndProcess, Consumed, nodeVars
  <1>6. CASE Boot \/ UNCHANGED execVars
    BY <1>6, StaysConsumed DEF Boot, execVars, nodeVars, handlerVars
  <1>7. CASE ExecutorExits
    <2>1. body' = body /\ UNCHANGED executions
      BY <1>7 DEF ExecutorExits, nodeVars
    <2>2. \A r \in Invocations : handler'[r] = "none"
      BY <1>7 DEF ExecutorExits
    <2> QED
      BY <2>1, <2>2 DEF Consumed
  <1> QED
    BY <1>1, <1>2, <1>3, <1>4, <1>5, <1>6, <1>7 DEF ExecNext, InvokeHandler

(* However often a request is sent, its function runs once at most         *)
(* (container.go:90-107).                                                  *)
THEOREM ExecutedOnce == ExecSpec => []FunctionRunsOnce
  <1>1. ExecInit => Consumed
    <2>1. ExecInit => \A r \in Invocations : /\ handler[r] = "none"
                                            /\ executions[r] = 0
      BY DEF ExecInit
    <2> QED
      BY <2>1 DEF Consumed
  <1>2. Consumed => FunctionRunsOnce
    BY DEF Consumed, FunctionRunsOnce
  <1> QED
    BY PatientInit, PatientStep, <1>1, ConsumedStep, <1>2, PTL DEF ExecSpec

-----------------------------------------------------------------------------
(* Inductive: as long as no invocation was given up with its handler       *)
(* running, the only handler is that of the lease, and each of its stages  *)
(* finds in the container what the one before it has left there.           *)
Undisturbed(r) ==
    /\ handler[r] # "none" => holder = r
    /\ handler[r] = "written" => paramsFile = r /\ r \in WithParams
    /\ handler[r] = "set" =>
          IF r \in WithParams THEN paramsVar = "file" /\ paramsFile = r
                              ELSE paramsVar = ""
    /\ handler[r] = "started" =>
          IF r \in WithParams THEN source[r] = "file" /\ paramsFile = r
                              ELSE source[r] = ""
    /\ handler[r] = "reading" => input[r] = Params(r)
    /\ handler[r] = "exited" => resultFile = Params(r)

OwnResults ==
    \/ abandoned \/ silent
    \/ ResultIsOwn /\ \A r \in Invocations : Undisturbed(r)

(* An answer other than a success, or of what an undisturbed handler has.  *)
LEMMA OwnAnswer ==
    ASSUME Patient, ResultIsOwn, NEW r \in Invocations,
           NEW st \in {"error", "failure", "success"},
           NEW result \in Inputs \cup {NoFile},
           st = "success" => result = Params(r), Answers(r, st, result)
    PROVE  ResultIsOwn' /\ UNCHANGED holder
  <1>1. /\ \/ response'[r] = [st |-> st, result |-> result]
           \/ response'[r] = response[r]
        /\ \A i \in Invocations \ {r} : response'[i] = response[i]
    BY AnswersTyped, PatientParts
  <1>2. UNCHANGED holder
    BY DEF Answers, Return, nodeVars
  <1> QED
    BY <1>1, <1>2 DEF ResultIsOwn, Params

(* A retry adds no success.                                                *)
LEMMA OwnRetry ==
    ASSUME Patient, ResultIsOwn, NEW r \in Invocations,
           client[r] \in {"post", "sent"}, Retry(r)
    PROVE  ResultIsOwn' /\ UNCHANGED holder
  <1>1. \A i \in Invocations : response'[i].st = "success" =>
           response[i].st = "success" /\ response'[i].result = response[i].result
    BY RetryTyped, PatientParts
  <1> QED
    BY <1>1 DEF ResultIsOwn, Params, Retry

LEMMA OwnResultsStep ==
    ASSUME Patient, OwnResults, [ExecNext]_execVars
    PROVE  OwnResults'
  <1> SUFFICES ASSUME ~abandoned, ~silent, ~abandoned', ~silent',
                      ResultIsOwn, \A r \in Invocations : Undisturbed(r)
               PROVE  ResultIsOwn' /\ \A r \in Invocations : Undisturbed(r)'
    <2>1. abandoned => abandoned'
      BY DEF ExecNext, InvokeHandler, Execute, Refused, Post, ConnectionBreaks,
             Release, WriteParams, SetEnv, StartProcess, ReadParams, EndProcess,
             Reply, Boot, ExecutorExits, execVars
    <2>2. silent => silent'
      BY DEF ExecNext, InvokeHandler, Execute, Refused, Post, ConnectionBreaks,
             Release, WriteParams, SetEnv, StartProcess, ReadParams, EndProcess,
             Reply, Boot, ExecutorExits, execVars
    <2> QED
      BY <2>1, <2>2 DEF OwnResults
  <1> USE PatientParts DEF ContainerTyped
  <1>1. ASSUME NEW r \in Invocations, Execute(r)
        PROVE  ResultIsOwn' /\ \A i \in Invocations : Undisturbed(i)'
    <2>1. \A i \in Invocations : handler[i] = "none"
      BY <1>1, ExecutorAssumption DEF Execute, Undisturbed
    <2> QED
      BY <1>1, <2>1
      DEF Execute, ResultIsOwn, Params, Undisturbed, fileVars, handlerVars
  <1>2. ASSUME NEW r \in Invocations, Refused(r) \/ ConnectionBreaks(r)
        PROVE  ResultIsOwn' /\ \A i \in Invocations : Undisturbed(i)'
    <2>1. ResultIsOwn' /\ UNCHANGED holder
      BY <1>2, OwnRetry DEF Refused, ConnectionBreaks
    <2>2. UNCHANGED <<fileVars, handlerVars>>
      BY <1>2 DEF Refused, ConnectionBreaks
    <2> QED
      BY <2>1, <2>2 DEF Undisturbed, Params, fileVars, handlerVars
  <1>3. ASSUME NEW r \in Invocations, Post(r)
        PROVE  ResultIsOwn' /\ \A i \in Invocations : Undisturbed(i)'
    <2>1. holder = r /\ UNCHANGED <<holder, fileVars, source, input>>
      BY <1>3 DEF Post, Return, NodeTyped
    <2>2. ResultIsOwn'
      <3>1. UNCHANGED response
               \/ response' = [response EXCEPT
                                 ![r] = [st |-> "error", result |-> NoFile]]
        BY <1>3 DEF Post, Return
      <3>2. DOMAIN response = Invocations
        BY DEF NodeTyped
      <3>3. \/ response'[r] = response[r]
            \/ response'[r] = [st |-> "error", result |-> NoFile]
        BY <3>1, <3>2
      <3>4. response'[r].st = "success" => response'[r] = response[r]
        <4>1. [st |-> "error", result |-> NoFile].st # "success"
          OBVIOUS
        <4> QED
          BY <3>3, <4>1
      <3>5. \A i \in Invocations \ {r} : response'[i] = response[i]
        BY <3>1, <3>2
      <3> QED
        BY <3>4, <3>5 DEF ResultIsOwn, Params
    <2>3. \A i \in Invocations :
             handler'[i] = handler[i] \/ (i = r /\ handler'[i] = "decoded")
      BY <1>3 DEF Post
    <2>4. ASSUME NEW i \in Invocations PROVE Undisturbed(i)'
      BY <2>1, <2>3 DEF Undisturbed, Params, fileVars
    <2> QED
      BY <2>2, <2>4
  <1>4. ASSUME NEW r \in Invocations, Release(r)
        PROVE  ResultIsOwn' /\ \A i \in Invocations : Undisturbed(i)'
    <2>1. \A i \in Invocations : handler[i] = "none"
      BY <1>4 DEF Release, Undisturbed
    <2> QED
      BY <1>4, <2>1
      DEF Release, ResultIsOwn, Params, Undisturbed, fileVars, handlerVars
  <1>5. ASSUME NEW r \in Invocations, WriteParams(r)
        PROVE  ResultIsOwn' /\ \A i \in Invocations : Undisturbed(i)'
    <2>1. holder = r
      BY <1>5 DEF WriteParams, Undisturbed
    <2>2. \A i \in Invocations \ {r} : handler[i] = "none"
      BY <2>1 DEF Undisturbed
    <2>3. CASE /\ paramsFile' = r
               /\ handler' = [handler EXCEPT ![r] = "written"]
               /\ UNCHANGED nodeVars
      BY <1>5, <2>1, <2>2, <2>3
      DEF WriteParams, ResultIsOwn, Params, Undisturbed, nodeVars
    <2>4. CASE Answers(r, "error", NoFile)
      <3>1. ResultIsOwn' /\ UNCHANGED holder
        BY <2>4, OwnAnswer
      <3>2. \A i \in Invocations : handler'[i] = "none"
        BY <2>2, <2>4 DEF Answers
      <3> QED
        BY <3>1, <3>2 DEF Undisturbed
    <2> QED
      BY <1>5, <2>3, <2>4 DEF WriteParams
  <1>6. ASSUME NEW r \in Invocations, SetEnv(r) \/ ReadParams(r) \/ EndProcess(r)
        PROVE  ResultIsOwn' /\ \A i \in Invocations : Undisturbed(i)'
    <2>1. holder = r
      BY <1>6 DEF SetEnv, ReadParams, EndProcess, Undisturbed
    <2>2. \A i \in Invocations \ {r} : handler[i] = "none" /\ handler'[i] = "none"
      BY <1>6, <2>1 DEF SetEnv, ReadParams, EndProcess, Undisturbed
    <2>3. ResultIsOwn' /\ UNCHANGED holder
      BY <1>6 DEF SetEnv, ReadParams, EndProcess, nodeVars, ResultIsOwn, Params
    <2>4. Undisturbed(r)'
      <3>1. CASE SetEnv(r)
        BY <2>1, <2>3, <3>1 DEF SetEnv, Undisturbed
      <3>2. CASE ReadParams(r)
        BY <2>1, <2>3, <3>2 DEF ReadParams, Undisturbed, Params, fileVars
      <3>3. CASE EndProcess(r)
        BY <2>1, <2>3, <3>3 DEF EndProcess, Undisturbed, Params
      <3> QED
        BY <1>6, <3>1, <3>2, <3>3
    <2> QED
      BY <2>2, <2>3, <2>4 DEF Undisturbed
  <1>7. ASSUME NEW r \in Invocations, StartProcess(r)
        PROVE  ResultIsOwn' /\ \A i \in Invocations : Undisturbed(i)'
    <2>1. holder = r
      BY <1>7 DEF StartProcess, Undisturbed
    <2>2. \A i \in Invocations \ {r} : handler[i] = "none" /\ handler'[i] = "none"
      BY <1>7, <2>1 DEF StartProcess, Undisturbed
    <2>3. ResultIsOwn' /\ UNCHANGED holder
      <3>1. CASE UNCHANGED nodeVars
        BY <3>1 DEF nodeVars, ResultIsOwn, Params
      <3>2. CASE client[r] = "sent" /\ Retry(r)
        BY <3>2, OwnRetry
      <3> QED
        BY <1>7, <3>1, <3>2 DEF StartProcess
    <2>4. Undisturbed(r)'
      BY <1>7, <2>1, <2>3 DEF StartProcess, Undisturbed, fileVars
    <2> QED
      BY <2>2, <2>3, <2>4 DEF Undisturbed
  <1>8. ASSUME NEW r \in Invocations, Reply(r)
        PROVE  ResultIsOwn' /\ \A i \in Invocations : Undisturbed(i)'
    <2>1. holder = r
      BY <1>8 DEF Reply, Undisturbed
    <2>2. \A i \in Invocations : handler'[i] = "none"
      BY <1>8, <2>1 DEF Reply, Answers, Undisturbed
    <2>3. ResultIsOwn'
      <3>1. CASE handler[r] = "exited" /\ Answers(r, "success", resultFile)
        BY <3>1, OwnAnswer DEF Undisturbed
      <3>2. CASE Answers(r, "failure", NoFile)
        BY <3>2, OwnAnswer
      <3> QED
        BY <1>8, <3>1, <3>2 DEF Reply
    <2> QED
      BY <2>2, <2>3 DEF Undisturbed
  <1>9. CASE Boot \/ UNCHANGED execVars
    <2>1. UNCHANGED <<nodeVars, fileVars, handlerVars>>
      BY <1>9 DEF Boot, execVars
    <2> QED
      BY <2>1 DEF nodeVars, fileVars, handlerVars, ResultIsOwn, Params,
                  Undisturbed
  <1>10. CASE ExecutorExits
    <2>1. \A i \in Invocations : handler'[i] = "none"
      BY <1>10 DEF ExecutorExits
    <2>2. ResultIsOwn'
      <3>1. CASE UNCHANGED nodeVars
        BY <3>1 DEF nodeVars, ResultIsOwn, Params
      <3>2. CASE holder # NoInv /\ client[holder] = "sent" /\ Retry(holder)
        <4>1. holder \in Invocations
          BY <3>2 DEF NodeTyped
        <4> QED
          BY <3>2, <4>1, OwnRetry
      <3> QED
        BY <1>10, <3>1, <3>2 DEF ExecutorExits
    <2> QED
      BY <2>1, <2>2 DEF Undisturbed
  <1> QED
    BY <1>1, <1>2, <1>3, <1>4, <1>5, <1>6, <1>7, <1>8, <1>9, <1>10
    DEF ExecNext, InvokeHandler

(* A result is made from the parameters of its own invocation, if each     *)
(* function writes one and no invocation was given up while its handler    *)
(* ran (server.go:36-51, 83): the lease is all the files need.             *)
THEOREM ResultsAreOwn == ExecSpec => []OwnUnlessAbandoned
  <1>1. ExecInit => OwnResults
    <2> SUFFICES ASSUME ExecInit
                 PROVE  /\ \A r \in Invocations : response[r].st # "success"
                        /\ \A r \in Invocations : handler[r] = "none"
      BY DEF OwnResults, ResultIsOwn, Undisturbed
    <2> QED
      BY DEF ExecInit
  <1>2. OwnResults => OwnUnlessAbandoned
    BY DEF OwnResults, OwnUnlessAbandoned
  <1> QED
    BY PatientInit, PatientStep, <1>1, OwnResultsStep, <1>2, PTL DEF ExecSpec
=============================================================================
