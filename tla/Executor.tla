------------------------------ MODULE Executor ------------------------------
(***************************************************************************)
(* The execution of invocations in one container: container.Execute on the *)
(* node (internal/container/container.go), which posts the invocation and  *)
(* retries, the Executor in the container (internal/executor/server.go),   *)
(* which has one handler per request, and the process that a handler runs, *)
(* for which examples/c++/function.cpp is the sample.                      *)
(*                                                                         *)
(* The handlers share the environment of the Executor's process and two    *)
(* files.  What a function makes of its parameters is named by whose       *)
(* parameters they are; NoInv stands for none.                             *)
(***************************************************************************)
EXTENDS Naturals, FiniteSets

CONSTANTS
    Invocations,
    WithParams,      \* the invocations that have parameters
    NoInv, NoFile,   \* no invocation; no such file
    TimeoutMillis,   \* TIMEOUT_MILLIS
    FirstBackoff,    \* the initial backoffMillis
    MaxBackoff,      \* MAX_BACKOFF_MILLIS
    Commands,        \* {TRUE}: there is a command; {FALSE}: an image without
                     \* CUSTOM_CMD
    Faults           \* "reset": a connection breaks; "exit": the Executor
                     \* ends; "write": a file cannot be written; "silent": a
                     \* function succeeds without writing a result

ASSUME ExecutorAssumption ==
    /\ WithParams \subseteq Invocations
    /\ NoInv \notin Invocations /\ NoFile \notin Invocations \cup {NoInv}
    /\ TimeoutMillis \in Nat \ {0}
    /\ FirstBackoff \in Nat \ {0} /\ MaxBackoff \in Nat
    /\ FirstBackoff <= MaxBackoff
    /\ Commands \subseteq BOOLEAN

VARIABLES
    holder,       \* the invocation that the container is leased to
    client,       \* where container.Execute of each invocation is
    body,         \* whether the buffer with the request is still full
    wait,         \* totalWaitMillis
    backoff,      \* backoffMillis
    response,     \* what Execute returned
    server,       \* the Executor's process
    command,      \* whether there is a command to run
    paramsVar,    \* PARAMS_FILE: the file's name, or the empty string
    paramsFile,   \* whose parameters are in the file
    resultFile,   \* what the result in the file was made from
    handler,      \* where the handler of each invocation is
    source,       \* PARAMS_FILE in the environment of its process
    input,        \* what its process has read
    executions,   \* (history) how often its process was started
    abandoned,    \* (history) Execute returned, and left a handler behind
    silent        \* (history) a function did not write its result

nodeVars == <<holder, client, body, wait, backoff, response>>
fileVars == <<paramsVar, paramsFile, resultFile>>
handlerVars == <<handler, source, input, executions>>
execVars == <<nodeVars, server, command, fileVars, handlerVars, abandoned,
              silent>>

Params(r) == IF r \in WithParams THEN r ELSE NoInv
Inputs == Invocations \cup {NoInv}

ExecInit ==
    /\ holder = NoInv
    /\ client = [r \in Invocations |-> "idle"]
    /\ body = [r \in Invocations |-> TRUE]
    /\ wait = [r \in Invocations |-> 0]
    /\ backoff = [r \in Invocations |-> FirstBackoff]
    /\ response = [r \in Invocations |-> [st |-> "none", result |-> NoFile]]
    /\ server = "booting"
    /\ command \in Commands
    /\ paramsVar = "" /\ paramsFile = NoFile /\ resultFile = NoFile
    /\ handler = [r \in Invocations |-> "none"]
    /\ source = [r \in Invocations |-> ""]
    /\ input = [r \in Invocations |-> NoInv]
    /\ executions = [r \in Invocations |-> 0]
    /\ abandoned = FALSE /\ silent = FALSE

-----------------------------------------------------------------------------
(* On the node.                                                            *)

\* Execute returns.
Return(r, st, result) ==
    /\ client' = [client EXCEPT ![r] = "done"]
    /\ response' = [response EXCEPT ![r] = [st |-> st, result |-> result]]
    /\ UNCHANGED <<holder, body, wait, backoff>>

\* Fault for ExecTypeOK: the time that is left is not asked for.
RetryUnbounded(r) ==
    /\ wait' = [wait EXCEPT ![r] = @ + backoff[r]]
    /\ backoff' = [backoff EXCEPT ![r] = IF 2 * @ <= MaxBackoff
                                         THEN 2 * @ ELSE MaxBackoff]
    /\ client' = [client EXCEPT ![r] = "post"]
    /\ UNCHANGED <<holder, response>>

\* http.Post returned an error: wait, and try again while there is time.
Retry(r) ==
    /\ wait' = [wait EXCEPT ![r] = @ + backoff[r]]
    /\ backoff' = [backoff EXCEPT ![r] = IF 2 * @ <= MaxBackoff
                                         THEN 2 * @ ELSE MaxBackoff]
    /\ IF wait'[r] < TimeoutMillis
       THEN /\ client' = [client EXCEPT ![r] = "post"]
            /\ UNCHANGED response
       ELSE /\ client' = [client EXCEPT ![r] = "done"]
            /\ response' = [response EXCEPT ![r].st = "error"]
    /\ UNCHANGED holder

\* The scheduler executes r in the container, which is leased to nobody else.
Execute(r) ==
    /\ client[r] = "idle"
    /\ holder = NoInv
    /\ holder' = r
    /\ client' = [client EXCEPT ![r] = "post"]
    /\ UNCHANGED <<body, wait, backoff, response, server, command, fileVars,
                   handlerVars, abandoned, silent>>

\* Nobody listens: the body of the request is not touched.
Refused(r) ==
    /\ client[r] = "post"
    /\ server # "up"
    /\ Retry(r)
    /\ UNCHANGED <<body, server, command, fileVars, handlerVars, abandoned,
                   silent>>

\* Fault for FunctionRunsOnce: each attempt has a body of its own.
PostFresh(r) ==
    /\ client[r] = "post"
    /\ server = "up"
    /\ handler' = [handler EXCEPT ![r] = "decoded"]
    /\ client' = [client EXCEPT ![r] = "sent"]
    /\ UNCHANGED <<holder, body, wait, backoff, response, server, command,
                   fileVars, source, input, executions, abandoned, silent>>

\* The request is sent, and its body is consumed.  A retry sends an empty body,
\* which the Executor cannot decode: its answer, a text, is an error to Execute.
Post(r) ==
    /\ client[r] = "post"
    /\ server = "up"
    /\ \/ /\ body[r]
          /\ body' = [body EXCEPT ![r] = FALSE]
          /\ handler' = [handler EXCEPT ![r] = "decoded"]
          /\ client' = [client EXCEPT ![r] = "sent"]
          /\ UNCHANGED <<holder, wait, backoff, response>>
       \/ /\ ~body[r]
          /\ Return(r, "error", NoFile)
          /\ UNCHANGED handler
    /\ UNCHANGED <<server, command, fileVars, source, input, executions,
                   abandoned, silent>>

\* Fault for ExecuteReturns: the waits are not summed up.
ConnectionBreaksUncounted(r) ==
    /\ "reset" \in Faults
    /\ client[r] = "sent"
    /\ client' = [client EXCEPT ![r] = "post"]
    /\ body' = [body EXCEPT ![r] = TRUE]
    /\ UNCHANGED <<holder, wait, backoff, response, server, command, fileVars,
                   handlerVars, abandoned, silent>>

\* The connection breaks: before the Executor has the request, which is lost
\* with the body, or while the handler runs, which goes on.
ConnectionBreaks(r) ==
    /\ "reset" \in Faults
    /\ \/ client[r] = "sent"
       \/ client[r] = "post" /\ server = "up" /\ body[r]
    /\ body' = [body EXCEPT ![r] = FALSE]
    /\ Retry(r)
    /\ UNCHANGED <<server, command, fileVars, handlerVars, abandoned, silent>>

\* The completion of r: the container goes back to the pool.
Release(r) ==
    /\ client[r] = "done"
    /\ holder = r
    /\ holder' = NoInv
    /\ abandoned' = (abandoned \/ handler[r] # "none")
    /\ UNCHANGED <<client, body, wait, backoff, response, server, command,
                   fileVars, handlerVars, silent>>

-----------------------------------------------------------------------------
(* In the container.                                                       *)

Boot ==
    /\ server = "booting"
    /\ server' = "up"
    /\ UNCHANGED <<nodeVars, command, fileVars, handlerVars, abandoned, silent>>

\* The Executor's process ends, and its handlers and connections with it.
ExecutorExits ==
    /\ "exit" \in Faults
    /\ server = "up"
    /\ server' = "gone"
    /\ handler' = [r \in Invocations |-> "none"]
    /\ IF holder # NoInv /\ client[holder] = "sent"
       THEN Retry(holder) /\ UNCHANGED body
       ELSE UNCHANGED nodeVars
    /\ UNCHANGED <<command, fileVars, source, input, executions, abandoned,
                   silent>>

\* A handler answers, or its connection is closed; nobody may be listening.
Answers(r, st, result) ==
    /\ handler' = [handler EXCEPT ![r] = "none"]
    /\ IF client[r] = "sent" THEN Return(r, st, result) ELSE UNCHANGED nodeVars

\* The parameters are written to the file.
WriteParams(r) ==
    /\ handler[r] = "decoded"
    /\ r \in WithParams
    /\ \/ /\ paramsFile' = r
          /\ handler' = [handler EXCEPT ![r] = "written"]
          /\ UNCHANGED nodeVars
       \/ /\ "write" \in Faults
          /\ Answers(r, "error", NoFile)
          /\ UNCHANGED paramsFile
    /\ UNCHANGED <<server, command, paramsVar, resultFile, source, input,
                   executions, abandoned, silent>>

\* Fault for OwnUnlessAbandoned: the variable keeps its value if there are no
\* parameters.
SetEnvOnlyParams(r) ==
    /\ \/ handler[r] = "written" /\ paramsVar' = "file"
       \/ /\ handler[r] = "decoded" /\ r \notin WithParams
          /\ UNCHANGED paramsVar
    /\ handler' = [handler EXCEPT ![r] = "set"]
    /\ UNCHANGED <<nodeVars, server, command, paramsFile, resultFile, source,
                   input, executions, abandoned, silent>>

\* PARAMS_FILE is set, in the environment of the Executor.
SetEnv(r) ==
    /\ \/ handler[r] = "written" /\ paramsVar' = "file"
       \/ handler[r] = "decoded" /\ r \notin WithParams /\ paramsVar' = ""
    /\ handler' = [handler EXCEPT ![r] = "set"]
    /\ UNCHANGED <<nodeVars, server, command, paramsFile, resultFile, source,
                   input, executions, abandoned, silent>>

\* The process is started, with a copy of the environment.  Without a command
\* the handler dereferences a nil error: its connection is closed.
StartProcess(r) ==
    /\ handler[r] = "set"
    /\ \/ /\ command
          /\ handler' = [handler EXCEPT ![r] = "started"]
          /\ source' = [source EXCEPT ![r] = paramsVar]
          /\ executions' = [executions EXCEPT ![r] = @ + 1]
          /\ UNCHANGED nodeVars
       \/ /\ ~command
          /\ handler' = [handler EXCEPT ![r] = "none"]
          /\ IF client[r] = "sent" THEN Retry(r) /\ UNCHANGED body
                                   ELSE UNCHANGED nodeVars
          /\ UNCHANGED <<source, executions>>
    /\ UNCHANGED <<server, command, fileVars, input, abandoned, silent>>

\* The function reads its parameters.
ReadParams(r) ==
    /\ handler[r] = "started"
    /\ input' = [input EXCEPT ![r] = IF source[r] = "" THEN NoInv
                                                       ELSE paramsFile]
    /\ handler' = [handler EXCEPT ![r] = "reading"]
    /\ UNCHANGED <<nodeVars, server, command, fileVars, source, executions,
                   abandoned, silent>>

\* It writes its result and returns 0, or it does not and returns something
\* else; or it returns 0 without a result.
EndProcess(r) ==
    /\ handler[r] = "reading"
    /\ \/ /\ resultFile' = input[r]
          /\ handler' = [handler EXCEPT ![r] = "exited"]
          /\ UNCHANGED silent
       \/ /\ handler' = [handler EXCEPT ![r] = "failed"]
          /\ UNCHANGED <<resultFile, silent>>
       \/ /\ "silent" \in Faults
          /\ handler' = [handler EXCEPT ![r] = "exited"]
          /\ silent' = TRUE
          /\ UNCHANGED resultFile
    /\ UNCHANGED <<nodeVars, server, command, paramsVar, paramsFile, source,
                   input, executions, abandoned>>

\* readExecutionResult, and the answer.
Reply(r) ==
    /\ \/ handler[r] = "exited" /\ Answers(r, "success", resultFile)
       \/ handler[r] = "failed" /\ Answers(r, "failure", NoFile)
    /\ UNCHANGED <<server, command, fileVars, source, input, executions,
                   abandoned, silent>>

InvokeHandler(r) ==
    \/ WriteParams(r) \/ SetEnv(r) \/ StartProcess(r)
    \/ ReadParams(r) \/ EndProcess(r) \/ Reply(r)

ExecNext ==
    \/ \E r \in Invocations : \/ Execute(r) \/ Refused(r) \/ Post(r)
                              \/ ConnectionBreaks(r) \/ Release(r)
                              \/ InvokeHandler(r)
    \/ Boot
    \/ ExecutorExits

ExecSpec == ExecInit /\ [][ExecNext]_execVars

(* Functions end, and goroutines run; the Executor need not ever listen.   *)
ExecFairness ==
    \A r \in Invocations :
       /\ WF_execVars(Refused(r) \/ Post(r))
       /\ WF_execVars(InvokeHandler(r))
       /\ WF_execVars(Release(r))

ExecFairSpec == ExecSpec /\ ExecFairness

-----------------------------------------------------------------------------
(* Properties.                                                             *)

(* Types; one invocation at a time is between the lease and the answer,    *)
(* and it waits at most for TIMEOUT_MILLIS and one wait more.              *)
ExecTypeOK ==
    /\ holder \in Invocations \cup {NoInv}
    /\ client \in [Invocations -> {"idle", "post", "sent", "done"}]
    /\ body \in [Invocations -> BOOLEAN]
    /\ wait \in [Invocations -> 0 .. TimeoutMillis + MaxBackoff - 1]
    /\ backoff \in [Invocations -> 1 .. MaxBackoff]
    /\ response \in [Invocations ->
          [st : {"none", "error", "failure", "success"},
           result : Inputs \cup {NoFile}]]
    /\ server \in {"booting", "up", "gone"}
    /\ command \in BOOLEAN
    /\ paramsVar \in {"", "file"}
    /\ paramsFile \in Invocations \cup {NoFile}
    /\ resultFile \in Inputs \cup {NoFile}
    /\ handler \in [Invocations -> {"none", "decoded", "written", "set",
                                    "started", "reading", "exited", "failed"}]
    /\ source \in [Invocations -> {"", "file"}]
    /\ input \in [Invocations -> Inputs \cup {NoFile}]
    /\ executions \in [Invocations -> Nat]
    /\ abandoned \in BOOLEAN /\ silent \in BOOLEAN
    /\ \A r \in Invocations : client[r] \in {"post", "sent"} => holder = r

(* container.go:90-107: a function is executed at most once for each       *)
(* invocation, however often the request is sent.                          *)
FunctionRunsOnce == \A r \in Invocations : executions[r] <= 1

(* docs/executor.md, Result: what the function returned.                   *)
ResultIsOwn ==
    \A r \in Invocations :
       response[r].st = "success" => response[r].result = Params(r)

(* The same, unless a function did not write a result, which               *)
(* docs/custom_runtime.md demands, or an invocation was given up while its *)
(* handler ran: files and environment need nothing but the lease.          *)
OwnUnlessAbandoned == abandoned \/ silent \/ ResultIsOwn

(* container.go:90: Execute returns, whether the Executor listens or not.  *)
ExecuteReturns ==
    \A r \in Invocations : client[r] = "post" ~> client[r] = "done"
=============================================================================
