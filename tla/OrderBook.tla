----------------------------- MODULE OrderBook -----------------------------
(***************************************************************************)
(* What checkout promises, with no transactions, locks or retries in       *)
(* sight: a request places at most one order per idempotency key of its    *)
(* customer, an order spends the coupons it is granted at once and none    *)
(* beyond its limits, and whatever order a request is answered with is the *)
(* one booked under its key.  The answer of a placed order may be lost.    *)
(***************************************************************************)
EXTENDS Naturals, FiniteSets

CONSTANTS
  Requests,
  Slot,            (* the customer and idempotency key of a request        *)
  Customer,        (* the customer of a request                            *)
  Coupons,
  Spendings,       (* the sets of coupons a request may be granted         *)
  TotalLimit, CustomerLimit

VARIABLES
  book,            (* the requests whose order is placed                   *)
  spent,           (* the coupons each placed order spent                  *)
  reply            (* the order a request was answered with, if any        *)

vars == <<book, spent, reply>>

\* The orders of a book that spend a coupon are within its limits.
WithinLimits(orders, spending, c) ==
  LET spenders == {r \in orders : c \in spending[r]} IN
  /\ Cardinality(spenders) <= TotalLimit[c]
  /\ \A r \in orders :
       Cardinality({s \in spenders : Customer[s] = Customer[r]})
         <= CustomerLimit[c]

Init ==
  /\ book = {}
  /\ spent = [r \in Requests |-> {}]
  /\ reply = [r \in Requests |-> {}]

Place(r) ==
  /\ \A s \in book : Slot[s] # Slot[r]
  /\ book' = book \cup {r}
  /\ \E coupons \in Spendings[r] :
       /\ spent' = [spent EXCEPT ![r] = coupons]
       /\ \A c \in coupons : WithinLimits(book', spent', c)
  /\ reply' = reply \/ reply' = [reply EXCEPT ![r] = {r}]

Replay(r, s) ==
  /\ reply[r] = {}
  /\ Slot[s] = Slot[r]
  /\ reply' = [reply EXCEPT ![r] = {s}]
  /\ UNCHANGED <<book, spent>>

Next == \E r \in Requests : Place(r) \/ \E s \in book : Replay(r, s)

Spec == Init /\ [][Next]_vars
=============================================================================
