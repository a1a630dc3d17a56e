----------------------------- MODULE MCSessions -----------------------------
(* Finite instances of Sessions for TLC.                                     *)
EXTENDS Sessions
=============================================================================
