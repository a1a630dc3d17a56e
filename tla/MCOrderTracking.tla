-------------------------- MODULE MCOrderTracking --------------------------
(* Finite instances of OrderTracking for TLC.                               *)
EXTENDS OrderTracking

CONSTANTS v1, v2
=============================================================================
