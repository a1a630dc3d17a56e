--------------------------- MODULE MCCatalogCache ---------------------------
(* Finite instances of CatalogCache for TLC.                                *)
EXTENDS CatalogCache, TLC

CONSTANTS r1, r2, r3

Symmetric == Permutations({r1, r2, r3})
=============================================================================
