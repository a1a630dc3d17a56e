---------------------------- MODULE MCShopLookups ----------------------------
(* Finite instances of ShopLookups for TLC.                                  *)
EXTENDS ShopLookups
=============================================================================
