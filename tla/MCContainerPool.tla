-------------------------- MODULE MCContainerPool --------------------------
(* Small instances of ContainerPool for TLC. *)
EXTENDS ContainerPool, TLC

CONSTANTS c1, c2, c3, c4, w1, w2, w3, f, g

\* Function f is created twice with different demands, g once.
MCDescs == {"f1", "f2", "g1"}
MCNameOf == [d \in MCDescs |-> IF d = "g1" THEN g ELSE f]
MCMemOf == [d \in MCDescs |-> IF d = "f1" THEN 1 ELSE 2]
MCCpuOf == [d \in MCDescs |-> IF d = "f2" THEN 2 ELSE 1]

Symmetry == Permutations(Containers) \cup Permutations(Clients)
=============================================================================
