----------------------------- MODULE MCOutbox -----------------------------
(* Finite instances of Outbox for TLC.                                      *)
EXTENDS Outbox, TLC

Symmetry == Permutations(Messages) \cup Permutations(Workers)
=============================================================================
