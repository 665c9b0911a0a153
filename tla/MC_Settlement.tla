---------------------------- MODULE MC_Settlement ----------------------------
(* Two trades share the worker.                                               *)
EXTENDS Settlement

CONSTANTS t1, t2, a1, a2
=============================================================================
