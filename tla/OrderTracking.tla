--------------------------- MODULE OrderTracking ---------------------------
(***************************************************************************)
(* Order history with the courier's status pulled into it.                 *)
(*                                                                         *)
(* A view of the order page (GET /storefront/orders or one order of it)    *)
(* reads the orders, asks the courier about every order that is not at its *)
(* end and has a tracking token, all at the same time, and when the last   *)
(* answer is in writes the statuses that are an upgrade over what it READ, *)
(* one autocommitted UPDATE after the other.  The UPDATE does not look at  *)
(* the status it overwrites.  Other views, the shop and the courier go on  *)
(* meanwhile.                                                              *)
(***************************************************************************)
EXTENDS Naturals, FiniteSets

CONSTANTS
  Orders,      (* the orders of one customer, numbered as they are listed  *)
  Tracked,     (* the orders with a tracking token                         *)
  ListCap,     (* the most orders a list may hold (100 in the code)        *)
  Viewers,     (* requests that may be under way at the same time          *)
  FaultBudget  (* bound on how many fetches and updates fail               *)

ASSUME OrderTrackingAssumption ==
  /\ Orders \subseteq Nat
  /\ Tracked \subseteq Orders
  /\ ListCap \in Nat \ {0}
  /\ FaultBudget \in Nat

VARIABLES
  status,      (* orders.status                                            *)
  courier,     (* where the courier is with an order                       *)
  said,        (* statuses the shop or the courier ever stood for          *)
  viewing,     (* viewers with a view under way                            *)
  read,        (* the status a view read of each order it asks about       *)
  waiting,     (* orders a view still waits for an answer about            *)
  upgrade,     (* the status a view is going to write, if any              *)
  faultsLeft

view == <<viewing, read, waiting, upgrade>>
vars == <<status, courier, said, viewing, read, waiting, upgrade, faultsLeft>>

Statuses == {"pending", "accepted", "picking", "ready", "out_for_delivery",
             "delivered", "cancelled", "rejected"}
Stations == {"waiting", "moving", "delivered", "cancelled"}

NoStatus == [o \in Orders |-> "none"]

Init ==
  /\ status = [o \in Orders |-> "pending"]
  /\ courier = [o \in Orders |-> "waiting"]
  /\ said = [o \in Orders |-> {"pending"}]
  /\ viewing = {}
  /\ read = [v \in Viewers |-> NoStatus]
  /\ waiting = [v \in Viewers |-> {}]
  /\ upgrade = [v \in Viewers |-> NoStatus]
  /\ faultsLeft = FaultBudget

-----------------------------------------------------------------------------
(* Statuses: ORDER_STATUS_TRANSITIONS of the domain, TERMINAL and           *)
(* STATUS_RANK of the sync.                                                 *)

Transitions(from) ==
  CASE from = "pending"          -> {"accepted", "rejected", "cancelled"}
    [] from = "accepted"         -> {"picking", "cancelled"}
    [] from = "picking"          -> {"ready"}
    [] from = "ready"            -> {"out_for_delivery", "cancelled"}
    [] from = "out_for_delivery" -> {"delivered"}
    [] OTHER                     -> {}

Final == {s \in Statuses : Transitions(s) = {}}

\* Mutant: a rejected order is asked about.
RejectedForgotten == {"delivered", "cancelled"}

Terminal == {"delivered", "cancelled", "rejected"}

Rank == [pending |-> 0, accepted |-> 1, picking |-> 2, ready |-> 3,
         out_for_delivery |-> 4, delivered |-> 5]

\* Mutant: "out for delivery" contains "deliver".
DeliverFirst(o) ==
  CASE courier[o] = "waiting"   -> "none"
    [] courier[o] = "cancelled" -> "cancelled"
    [] OTHER                    -> "delivered"

\* What the courier's answer means for orders.status.
Mapped(o) ==
  CASE courier[o] = "waiting"   -> "none"
    [] courier[o] = "moving"    -> "out_for_delivery"
    [] courier[o] = "delivered" -> "delivered"
    [] courier[o] = "cancelled" -> "cancelled"

\* Mutant: an upgrade goes one step at a time.
OneStepUp(from, to) ==
  /\ to # "none" /\ from # to /\ from \notin Terminal
  /\ to = "cancelled" \/ /\ {from, to} \subseteq DOMAIN Rank
                         /\ Rank[to] = Rank[from] + 1

ShouldUpgrade(from, to) ==
  /\ to # "none" /\ from # to /\ from \notin Terminal
  /\ to = "cancelled" \/ /\ {from, to} \subseteq DOMAIN Rank
                         /\ Rank[to] > Rank[from]

-----------------------------------------------------------------------------
(* A view.                                                                  *)

Strikes == faultsLeft > 0 /\ faultsLeft' = faultsLeft - 1

Candidates(S) == {o \in S \cap Tracked : status[o] \notin Terminal}

\* A view of the orders S.
StartView(v, S) ==
  /\ v \notin viewing
  /\ Candidates(S) # {}
  /\ viewing' = viewing \cup {v}
  /\ waiting' = [waiting EXCEPT ![v] = Candidates(S)]
  /\ read' = [read EXCEPT ![v] =
                [o \in Orders |-> IF o \in Candidates(S) THEN status[o] ELSE "none"]]
  /\ UNCHANGED <<status, courier, said, upgrade, faultsLeft>>

Newest(limit) == {o \in Orders : Cardinality({p \in Orders : p < o}) < limit}

\* The list is of the newest orders, as many as the client asks for up to the
\* cap; the detail page is of any one.
ListOrders(v) == \E limit \in 1 .. ListCap : StartView(v, Newest(limit))
OpenOrder(v) == \E o \in Orders : StartView(v, {o})

Resolve(v, o) ==
  IF ShouldUpgrade(read[v][o], Mapped(o)) THEN Mapped(o) ELSE "none"

\* The fetches run in parallel: their answers come in any order.
Fetch(v, o) ==
  /\ o \in waiting[v]
  /\ waiting' = [waiting EXCEPT ![v] = @ \ {o}]
  /\ upgrade' = [upgrade EXCEPT ![v][o] = Resolve(v, o)]
  /\ UNCHANGED <<status, courier, said, viewing, read, faultsLeft>>

\* A timeout, an error or a malformed answer: nothing to apply.
FetchFails(v, o) ==
  /\ o \in waiting[v]
  /\ Strikes
  /\ waiting' = [waiting EXCEPT ![v] = @ \ {o}]
  /\ UNCHANGED <<status, courier, said, viewing, read, upgrade>>

Pending(v) == {o \in Orders : upgrade[v][o] # "none"}

NextPending(v) == {o \in Pending(v) : \A p \in Pending(v) : o <= p}

\* UPDATE orders SET status = $3 WHERE id = $1, whatever it was.
Update(v, o) ==
  /\ v \in viewing /\ waiting[v] = {} /\ o \in NextPending(v)
  /\ status' = [status EXCEPT ![o] = upgrade[v][o]]
  /\ upgrade' = [upgrade EXCEPT ![v][o] = "none"]
  /\ UNCHANGED <<courier, said, viewing, read, waiting, faultsLeft>>

Leave(v) ==
  /\ viewing' = viewing \ {v}
  /\ read' = [read EXCEPT ![v] = NoStatus]
  /\ upgrade' = [upgrade EXCEPT ![v] = NoStatus]
  /\ UNCHANGED <<status, courier, said, waiting>>

EndView(v) ==
  /\ v \in viewing /\ waiting[v] = {} /\ Pending(v) = {}
  /\ Leave(v)
  /\ UNCHANGED faultsLeft

\* The request fails; the orders it has already written stay written.
UpdateFails(v) ==
  /\ v \in viewing /\ waiting[v] = {} /\ Pending(v) # {}
  /\ Strikes
  /\ Leave(v)

-----------------------------------------------------------------------------
(* The shop's backend and the courier.                                      *)

ShopMoves(o) ==
  /\ \E to \in Transitions(status[o]) :
       /\ status' = [status EXCEPT ![o] = to]
       /\ said' = [said EXCEPT ![o] = @ \cup {to}]
  /\ UNCHANGED <<courier, view, faultsLeft>>

CourierMoves(o) ==
  /\ o \in Tracked
  /\ \/ courier[o] = "waiting" /\ courier' = [courier EXCEPT ![o] = "moving"]
     \/ courier[o] = "moving" /\ courier' = [courier EXCEPT ![o] = "delivered"]
     \/ /\ courier[o] \in {"waiting", "moving"}
        /\ courier' = [courier EXCEPT ![o] = "cancelled"]
  /\ said' = [said EXCEPT ![o] = @ \cup
                {CASE courier'[o] = "moving"    -> "out_for_delivery"
                   [] courier'[o] = "delivered" -> "delivered"
                   [] courier'[o] = "cancelled" -> "cancelled"}]
  /\ UNCHANGED <<status, view, faultsLeft>>

-----------------------------------------------------------------------------
\* What a view under way does by itself.
ViewStep(v) == EndView(v) \/ \E o \in Orders : Fetch(v, o) \/ Update(v, o)

Next ==
  \/ \E v \in Viewers :
       \/ ViewStep(v)
       \/ ListOrders(v) \/ OpenOrder(v)
       \/ \E o \in Orders : FetchFails(v, o)
       \/ UpdateFails(v)
  \/ \E o \in Orders : ShopMoves(o) \/ CourierMoves(o)

Spec == Init /\ [][Next]_vars

\* A fetch answers within its timeout and the database answers queries; the
\* open order page polls with the highest limit.
Fairness == \A v \in Viewers : /\ WF_vars(ViewStep(v))
                               /\ WF_vars(StartView(v, Newest(ListCap)))

FairSpec == Spec /\ Fairness

-----------------------------------------------------------------------------
TypeOK ==
  /\ status \in [Orders -> Statuses]
  /\ courier \in [Orders -> Stations]
  /\ said \in [Orders -> SUBSET Statuses]
  /\ viewing \subseteq Viewers
  /\ read \in [Viewers -> [Orders -> Statuses \cup {"none"}]]
  /\ waiting \in [Viewers -> SUBSET Orders]
  /\ upgrade \in [Viewers -> [Orders -> Statuses \cup {"none"}]]
  /\ faultsLeft \in 0 .. FaultBudget

(* However views, shop and courier interleave, an order only ever has a     *)
(* status that the shop gave it or its courier stood for: none is made up   *)
(* by mapYaadroOrderStatusToEcommerce or carried over from another order.   *)
StatusJustified == \A o \in Orders : status[o] \in said[o]

(* An order at its end is only ever moved by a view that read it before its *)
(* end: no new view takes it up again (TERMINAL in the sync against the     *)
(* empty lists of ORDER_STATUS_TRANSITIONS).                                *)
EndLostOnlyToStaleViews ==
  [][\A o \in Orders :
       status[o] \in Final /\ status'[o] # status[o] =>
         \E v \in viewing : /\ read[v][o] \in Statuses \ Final
                            /\ status'[o] = upgrade[v][o]]_vars

(* When the courier has delivered an order the list can hold, it ends, and  *)
(* stale views still under way do not keep it from its end for ever.        *)
DeliveryArrives ==
  \A o \in Newest(ListCap) :
    [](courier[o] = "delivered" => <>[](status[o] \in Final))

=============================================================================
