----------------------------- MODULE MCRecovery -----------------------------
(* Recovery for TLC.                                                       *)
EXTENDS Recovery

CONSTANTS a, b
=============================================================================
