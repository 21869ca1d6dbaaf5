--------------------------- MODULE ContainerLease ---------------------------
(***************************************************************************)
(* What the container pool of a node promises to those that use it, with   *)
(* no lists and no resources: a container is leased to one activity at a   *)
(* time, a leased container is not taken from its holder, and a container  *)
(* that is given up is destroyed.                                          *)
(***************************************************************************)
CONSTANTS Containers, Clients

VARIABLES
    phase,    \* the phase of each container
    holder    \* the set of the activities that hold it: empty or a singleton

vars == <<phase, holder>>

Init ==
    /\ phase = [c \in Containers |-> "absent"]
    /\ holder = [c \in Containers |-> {}]

\* The members of S go to phase p; nobody holds them.
Move(S, p) == [c \in Containers |-> IF c \in S THEN p ELSE phase[c]]

\* A cold start, or a warm one.
Grant(c, w) ==
    /\ phase[c] \in {"absent", "idle"}
    /\ \A b \in Containers : w \notin holder[b]
    /\ phase' = [phase EXCEPT ![c] = "leased"]
    /\ holder' = [holder EXCEPT ![c] = {w}]

Return(c) ==
    /\ phase[c] = "leased"
    /\ phase' = [phase EXCEPT ![c] = "idle"]
    /\ holder' = [holder EXCEPT ![c] = {}]

\* Idle containers are destroyed (D) or lost from sight while they run (L).
Evict(D, L) ==
    /\ \A c \in D \cup L : phase[c] = "idle"
    /\ phase' = [c \in Containers |-> IF c \in D THEN "absent"
                                      ELSE IF c \in L THEN "stranded"
                                      ELSE phase[c]]
    /\ UNCHANGED holder

\* Idle containers are given to somebody to destroy.
Doom(S) ==
    /\ \A c \in S : phase[c] = "idle"
    /\ phase' = Move(S, "doomed")
    /\ UNCHANGED holder

Bury(c) ==
    /\ phase[c] = "doomed"
    /\ \E p \in {"absent", "stranded"} : phase' = Move({c}, p)
    /\ UNCHANGED holder

\* A container is started that no activity holds.
Strand(c) ==
    /\ phase[c] = "absent"
    /\ phase' = Move({c}, "stranded")
    /\ UNCHANGED holder

Next ==
    \/ \E c \in Containers :
          \/ \E w \in Clients : Grant(c, w)
          \/ Return(c)
          \/ Bury(c)
          \/ Strand(c)
    \/ \E D, L \in SUBSET Containers : D \cap L = {} /\ Evict(D, L)
    \/ \E S \in SUBSET Containers : Doom(S)

Spec == Init /\ [][Next]_vars
=============================================================================
