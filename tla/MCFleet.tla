------------------------------ MODULE MCFleet -------------------------------
(* Small instances of Fleet for TLC.                                       *)
EXTENDS Fleet, TLC

CONSTANTS e, f, c, d, p, e1, e2, f1, f2, c1, c2, d1

MCNodeOf == e1 :> e @@ e2 :> e @@ f1 :> f @@ f2 :> f
            @@ c1 :> c @@ c2 :> c @@ d1 :> d
=============================================================================
