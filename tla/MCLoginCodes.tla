---------------------------- MODULE MCLoginCodes ----------------------------
(* Finite instances of LoginCodes for TLC.                                  *)
EXTENDS LoginCodes, TLC

Symmetric == Permutations(Requests) \cup Permutations(Verifications)
=============================================================================
