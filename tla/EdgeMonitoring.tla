--------------------------- MODULE EdgeMonitoring ---------------------------
(***************************************************************************)
(* The monitoring of an edge area by one of its nodes, Self                *)
(* (internal/registration/registryLog.go, edgeNetUDPDiscovery.go), and the *)
(* reading of its outcome by the offloading policies.                      *)
(*                                                                         *)
(* The goroutine runMonitor alternates phases of two kinds.  monitoring    *)
(* reads the registrations, asks each server for its status over UDP,      *)
(* forgets the servers that are registered no more, and ranks the others.  *)
(* nearbyMonitoring asks the neighbours only, and at the first that does   *)
(* not answer it triggers a complete phase.                                *)
(*                                                                         *)
(* A status is abstracted to the fact that there is one, or that it cannot *)
(* be had although the process of its node runs: that depends on the       *)
(* network and on the node (mute), which the monitor does not control.     *)
(* The map with the entry of the empty key, whose status is nil, contains  *)
(* NoKey.                                                                  *)
(***************************************************************************)
EXTENDS Registration

CONSTANTS
    Self,         \* the node that monitors
    Rank,         \* the argument of getRank
    Mutable,      \* the nodes whose status may be out of reach
    MaxTriggers   \* with so many goroutines waiting for etcdCh, the nearby
                  \* ticker is not served before one of them

ASSUME MonitoringAssumption ==
    /\ Self \in EdgeNodes
    /\ Mutable \subseteq EdgeNodes
    /\ Rank \in Nat \ {0}
    /\ MaxTriggers \in Nat

VARIABLES
    servers,      \* the keys of serversMap
    nearby,       \* the keys of NearbyServersMap
    monitor,      \* where the goroutine of the monitor is
    snapshot,     \* etcdServerMap of a complete phase
    todo,         \* the keys that the phase has still to visit
    triggers,     \* the goroutines that wait to send on etcdCh
    mute          \* the nodes whose status cannot be had for now

netVars == <<regVars, mute>>
monVars == <<servers, nearby, monitor, snapshot, todo, triggers>>

MonInit ==
    /\ servers = {} /\ nearby = {}
    /\ monitor = "off"
    /\ snapshot = {} /\ todo = {}
    /\ triggers = 0
    /\ mute = {}

\* The end of Self's process.
MonitorEnds ==
    /\ servers' = {} /\ nearby' = {}
    /\ monitor' = "off"
    /\ snapshot' = {} /\ todo' = {}
    /\ triggers' = 0

\* InitEdgeMonitoring: empty maps, and the first phase is due at once.
InitEdgeMonitoring ==
    /\ servers' = {} /\ nearby' = {}
    /\ monitor' = "due"
    /\ snapshot' = {} /\ todo' = {}
    /\ triggers' = 0

\* What happens to the processes, Self's among them.
NodeStep ==
    /\ RegNext /\ UNCHANGED mute
    /\ \/ running'[Self] = running[Self] /\ UNCHANGED monVars
       \/ running'[Self] # running[Self] /\ ~Up(Self)' /\ MonitorEnds
       \/ running'[Self] # running[Self] /\ Up(Self)' /\ InitEdgeMonitoring

\* Self's process panics.
Panic ==
    /\ Crash(Self) /\ UNCHANGED mute
    /\ MonitorEnds

-----------------------------------------------------------------------------
(* statusInfoRequest.  A process that runs answers, Self's own included; a *)
(* host without one refuses.  The status of a process that runs may be out *)
(* of reach all the same: resolve, dial, write and read fail, the server   *)
(* could not make its status up and sends nothing, or its JSON, which      *)
(* grows with the functions that have warm containers, does not fit the    *)
(* 1024 bytes of the buffer and cannot be decoded.  The socket has no      *)
(* deadline: if the question or the answer is lost, the caller waits for   *)
(* ever, under the lock.                                                   *)

\* The status of a node gets out of reach, or within reach again.
StatusChanges(n) ==
    /\ Up(n)
    /\ mute' = IF n \in mute THEN mute \ {n} ELSE mute \cup {n}
    /\ UNCHANGED <<regVars, monVars>>

\* The server at the address of k is asked, and there is a status.
Answers(k) == Up(NodeOf[k]) /\ NodeOf[k] \notin mute

Lost ==
    /\ "loss" \in Faults
    /\ monitor' = "blocked"
    /\ UNCHANGED <<servers, nearby, snapshot, todo, triggers>>

Idle(stage) ==
    /\ monitor' = stage
    /\ snapshot' = {} /\ todo' = {}

-----------------------------------------------------------------------------
(* monitoring.                                                             *)

\* select: a tick, or a trigger.
Wake ==
    /\ monitor = "idle"
    /\ monitor' = "due"
    /\ triggers' \in {triggers, triggers - 1} \cap Nat
    /\ UNCHANGED <<netVars, servers, nearby, snapshot, todo>>

\* Fault for AnsweringAreKept: the phase goes on after an error of etcd.
ReadRegistrationsUnchecked ==
    /\ monitor = "due"
    /\ \E answer \in {GetAll \ {running[Self]}}
                     \cup (IF "etcd" \in Faults THEN {{}} ELSE {}) :
          /\ snapshot' = answer
          /\ todo' = answer
    /\ monitor' = "probing"
    /\ UNCHANGED <<netVars, servers, nearby, triggers>>

ReadRegistrations ==
    /\ monitor = "due"
    /\ \/ /\ snapshot' = GetAll \ {running[Self]}
          /\ todo' = snapshot'
          /\ monitor' = "probing"
       \/ /\ "etcd" \in Faults
          /\ Idle("idle")
    /\ UNCHANGED <<netVars, servers, nearby, triggers>>

\* Fault for DeadAreForgotten: an unreachable server is skipped only.
ProbeKeepsUnreachable(k) ==
    /\ monitor = "probing" /\ k \in todo
    /\ \/ /\ Answers(k)
          /\ servers' = servers \cup {k}
          /\ \/ todo' = todo \ {k} /\ UNCHANGED <<monitor, snapshot>>
             \/ "update" \in Faults /\ Idle("idle")
          /\ UNCHANGED <<nearby, triggers>>
       \/ /\ ~Answers(k)
          /\ todo' = todo \ {k}
          /\ UNCHANGED <<servers, monitor, snapshot, nearby, triggers>>
       \/ Lost
    /\ UNCHANGED netVars

\* Fault for NewcomersAreFound: only what is in the map is updated.
ProbeKnownOnly(k) ==
    /\ monitor = "probing" /\ k \in todo
    /\ \/ /\ Answers(k)
          /\ todo' = todo \ {k}
          /\ UNCHANGED servers
       \/ /\ ~Answers(k)
          /\ servers' = servers \ {k}
          /\ todo' = todo \ {k}
    /\ UNCHANGED <<netVars, monitor, snapshot, nearby, triggers>>

\* One iteration of the loop.  An error of the coordinates' client ends the
\* phase before the servers are ranked.
Probe(k) ==
    /\ monitor = "probing" /\ k \in todo
    /\ \/ /\ Answers(k)
          /\ servers' = servers \cup {k}
          /\ \/ todo' = todo \ {k} /\ UNCHANGED <<monitor, snapshot>>
             \/ "update" \in Faults /\ Idle("idle")
          /\ UNCHANGED <<nearby, triggers>>
       \/ /\ ~Answers(k)
          /\ servers' = servers \ {k}
          /\ todo' = todo \ {k}
          /\ UNCHANGED <<monitor, snapshot, nearby, triggers>>
       \/ Lost
    /\ UNCHANGED netVars

\* The servers that are registered no more are deleted, and the neighbours are
\* an empty map, which getRank is about to fill.
ForgetUnregistered ==
    /\ monitor = "probing" /\ todo = {}
    /\ servers' = servers \cap snapshot
    /\ nearby' = {}
    /\ monitor' = "ranking"
    /\ UNCHANGED <<netVars, snapshot, todo, triggers>>

\* getRank.  distanceBuf has one zero entry, with the empty key, for each
\* server before the servers are appended.  No distance is less than zero, so
\* the first Rank entries of the sorted buffer are zero entries.
Ranked(S) == IF Rank > Cardinality(S) THEN S ELSE {NoKey}

getRank ==
    /\ monitor = "ranking"
    /\ nearby' = Ranked(servers)
    /\ Idle("idle")
    /\ UNCHANGED <<netVars, servers, triggers>>

-----------------------------------------------------------------------------
(* nearbyMonitoring.                                                       *)

WakeNearby ==
    /\ monitor = "idle"
    /\ triggers < MaxTriggers
    /\ monitor' = "near"
    /\ todo' = nearby
    /\ UNCHANGED <<netVars, servers, nearby, snapshot, triggers>>

\* Fault for MonitorStopsOnlyOnLoss: the trigger is sent by the monitor's own
\* goroutine, which is the only one that receives it.
ProbeNearbySends(k) ==
    /\ monitor = "near" /\ k \in todo
    /\ monitor' = IF k # NoKey /\ ~Answers(k) THEN "sending" ELSE "near"
    /\ todo' = todo \ {k}
    /\ UNCHANGED <<netVars, servers, nearby, snapshot, triggers>>

\* One iteration.  The nil status of the empty key is dereferenced.
ProbeNearby(k) ==
    /\ monitor = "near" /\ k \in todo
    /\ \/ k = NoKey /\ Panic
       \/ /\ k # NoKey /\ Answers(k)
          /\ servers' = servers \cup {k}
          /\ todo' = todo \ {k}
          /\ UNCHANGED <<netVars, nearby, monitor, snapshot, triggers>>
       \/ /\ k # NoKey /\ ~Answers(k)
          /\ servers' = servers \ {k}
          /\ triggers' = triggers + 1
          /\ Idle("idle")
          /\ UNCHANGED <<netVars, nearby>>
       \/ /\ k # NoKey /\ Lost
          /\ UNCHANGED netVars

NearbyDone ==
    /\ monitor = "near" /\ todo = {}
    /\ Idle("idle")
    /\ UNCHANGED <<netVars, servers, nearby, triggers>>

-----------------------------------------------------------------------------
(* pickEdgeNodeForOffloading reads NearbyServersMap without the lock.  It  *)
(* ends the process if it meets a nil status, and it may if getRank writes *)
(* in the map that it iterates over; otherwise it changes nothing.         *)
PickEdgeNode ==
    /\ NoKey \in nearby \/ (monitor = "ranking" /\ servers # {})
    /\ Panic

-----------------------------------------------------------------------------
MonitorStep ==
    \/ Wake \/ WakeNearby
    \/ ReadRegistrations
    \/ \E k \in Keys : Probe(k)
    \/ ForgetUnregistered
    \/ getRank
    \/ \E k \in Keys \cup {NoKey} : ProbeNearby(k)
    \/ NearbyDone

-----------------------------------------------------------------------------
(* Properties.                                                             *)

(* Types, and what each place of the monitor's goroutine implies.          *)
MonTypeOK ==
    /\ members \subseteq Nodes
    /\ running \in [Nodes -> Keys \cup {NoKey}]
    /\ \A n \in Nodes : Up(n) => NodeOf[running[n]] = n
    /\ registered \subseteq used /\ used \subseteq Keys
    /\ servers \subseteq Keys
    /\ nearby \subseteq Keys \cup {NoKey}
    /\ monitor \in {"off", "idle", "due", "probing", "ranking", "near",
                    "blocked"}
    /\ monitor = "off" <=> ~Up(Self)
    /\ snapshot \subseteq Keys
    /\ todo \subseteq Keys \cup {NoKey}
    /\ triggers \in 0 .. MaxTriggers
    /\ mute \subseteq Mutable

(* registryLog.go:60-64, 74-78, 90-95, 142-144: a server that is           *)
(* registered leaves the map of servers only at a phase that asks for its  *)
(* status and gets none: not by an error of etcd, nor because the          *)
(* registrations changed since a phase read them.  It need not be dead:    *)
(* that its status does not fit the buffer is enough.                      *)
AnsweringAreKept ==
    [][\A k \in servers \ servers' :
          \/ k \notin registered
          \/ ~Answers(k) /\ monitor \in {"probing", "near"}
          \/ running'[Self] # running[Self]]_<<netVars, monVars>>

PhasesComplete == []<>(monitor = "ranking")

(* registryLog.go:74-78, 98: as long as phases complete, a server that is  *)
(* dead for good, or whose status is out of reach for good, is no          *)
(* neighbour for ever.                                                     *)
DeadAreForgotten ==
    \A k \in Keys :
       (PhasesComplete /\ <>[]~Answers(k)) => <>[](k \notin nearby)

(* registryLog.go:68-81: as long as phases complete, a server that stays   *)
(* registered and whose status can be had from some moment on is found,    *)
(* however often it was dropped before.  One whose status never fits the   *)
(* buffer is not, and nothing says that it should be.                      *)
NewcomersAreFound ==
    \A k \in Keys :
       (PhasesComplete /\ <>[](k \in GetAll /\ Answers(k)
                                            /\ running[Self] # k))
       => <>[](k \in servers)

(* registryLog.go:146-148: nothing but a lost datagram keeps the monitor   *)
(* from its next phase, not even a trigger that it waits for itself.       *)
MonitorStopsOnlyOnLoss ==
    []<>(monitor \in {"idle", "off"}) \/ <>[](monitor = "blocked")
=============================================================================
