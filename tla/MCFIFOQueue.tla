---------------------------- MODULE MCFIFOQueue ----------------------------
(* A small instance of FIFOQueue for TLC. *)
EXTENDS FIFOQueue

CONSTANTS r1, r2, r3
=============================================================================
