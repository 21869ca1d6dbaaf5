------------------------ MODULE MCFunctionRegistry ------------------------
(* Small instances of FunctionRegistry for TLC. *)
EXTENDS FunctionRegistry

CONSTANTS k1, k2, k3, d1, d2, h1, h2

\* Two handlers race for k1; one of them has other functions cached, too.
Races == {[op |-> "use", name |-> k1, def |-> Nothing],
          [op |-> "create", name |-> k1, def |-> d1],
          [op |-> "delete", name |-> k1, def |-> Nothing]}
Uses == {[op |-> "use", name |-> k, def |-> Nothing] : k \in {k2, k3}}
MCRequests == [h \in Handlers |-> IF h = h1 THEN Races \cup Uses ELSE Races]
=============================================================================
