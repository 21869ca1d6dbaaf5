----------------------------- MODULE MCExecutor -----------------------------
(* Small instances of Executor for TLC.                                    *)
EXTENDS Executor, TLC

CONSTANTS r1, r2
=============================================================================
