---------------------------- MODULE MCCheckout ----------------------------
(* Finite instances of Checkout for TLC.  Requests r1 and r2 are one        *)
(* client's request and its retry; r3 comes with a key of its own.          *)
EXTENDS Checkout, TLC

CONSTANTS r1, r2, r3, alice, bob, k1, k2, c1, c2

\* r3 is the same customer's second order, on a product of its own, and names
\* the coupons in the other order.
OneCustomer == r1 :> alice @@ r2 :> alice @@ r3 :> alice
TwoCustomers == r1 :> alice @@ r2 :> alice @@ r3 :> bob
Keys == r1 :> k1 @@ r2 :> k1 @@ r3 :> k2
ApartBaskets == r1 :> {1} @@ r2 :> {1} @@ r3 :> {2}
SharedBaskets == r1 :> {1, 2} @@ r2 :> {1, 2} @@ r3 :> {1, 2}
CrossedCodes == r1 :> <<c1, c2>> @@ r2 :> <<c1, c2>> @@ r3 :> <<c2, c1>>
OneCode == r1 :> <<c1>> @@ r2 :> <<c1>> @@ r3 :> <<c1>>

\* c1 may be spent once, c2 once per customer.
ScarceTotal == c1 :> 1 @@ c2 :> 2
ScarceEach == c1 :> 2 @@ c2 :> 1
Plenty == c1 :> 3 @@ c2 :> 3
=============================================================================
