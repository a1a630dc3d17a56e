----------------------------- MODULE Checkout -----------------------------
(***************************************************************************)
(* POST /storefront/checkout: one READ COMMITTED transaction per request.  *)
(*                                                                         *)
(* A request validates its customer, takes an advisory lock on its         *)
(* idempotency key and looks for an order placed under that key; if there  *)
(* is none it locks the products of its basket, prices them, checks its    *)
(* coupons, inserts the order, redeems the coupons one by one under row    *)
(* locks, records the key, deletes a leftover cart in Redis, announces the *)
(* order to the shop, and commits.  Every error rolls back, and every lock *)
(* is held to the end of the transaction.                                  *)
(*                                                                         *)
(* Rows are known by the request that wrote them, and an order by the      *)
(* request that placed it: a row is seen by another request once its       *)
(* writer is in "committed".                                               *)
(***************************************************************************)
EXTENDS Naturals, FiniteSets, Sequences

CONSTANTS
  Requests,       (* checkout requests, a client's retries included        *)
  Products,       (* ids of shop_products, in the order ids sort           *)
  Coupons,
  Customer,       (* the customer of a request                             *)
  Key,            (* the Idempotency-Key of a request                      *)
  Basket,         (* the products of a request                             *)
  Prices,         (* the prices a product may have                         *)
  Codes,          (* the coupons of a request, in the order given          *)
  TotalLimit,     (* max_redemptions_total of a coupon                     *)
  CustomerLimit,  (* max_redemptions_per_customer                          *)
  FirstOrderOnly, (* the coupons for a customer's first order              *)
  Allowances,     (* how many codes the shop's settings may let an order   *)
                  (* use: max_coupons_per_order, 0 when promotions are     *)
                  (* paused                                                *)
  FaultBudget     (* bound on how many faults strike in one behaviour      *)

\* The codes that are tried when n are allowed: the others are dropped, and
\* nobody is told.
CodesToTry(r, n) == {i \in 1 .. Len(Codes[r]) : i <= n}
CouponsOf(r, n) == {Codes[r][i] : i \in CodesToTry(r, n)}

ASSUME CheckoutAssumption ==
  /\ IsFiniteSet(Requests)
  /\ Products \subseteq Nat
  /\ Customer = [r \in Requests |-> Customer[r]]
  /\ Key = [r \in Requests |-> Key[r]]
  /\ Basket \in [Requests -> SUBSET Products]
  /\ Prices # {}
  /\ Codes \in [Requests -> Seq(Coupons)]
  /\ \A r \in Requests :
       /\ Basket[r] # {}
       /\ \A i, j \in 1 .. Len(Codes[r]) : Codes[r][i] = Codes[r][j] => i = j
  /\ TotalLimit \in [Coupons -> Nat]
  /\ CustomerLimit \in [Coupons -> Nat]
  /\ FirstOrderOnly \subseteq Coupons
  /\ Allowances \subseteq Nat
  /\ Allowances # {}
  /\ FaultBudget \in Nat

VARIABLES
  pc,          (* how far each request is                                  *)
  keyed,       (* requests that hold the advisory lock of their key        *)
  products,    (* product rows each request has locked                     *)
  coupons,     (* coupon rows each request has locked                      *)
  next,        (* index in Codes of the coupon a request is at             *)
  ordersSeen,  (* whether the customer had an order when it was priced     *)
  allowed,     (* the number of codes allowed when it was priced           *)
  quoted,      (* the prices an order is built from                        *)
  wrote,       (* rows written: order, event, key, retry                   *)
  redeemed,    (* coupons each request wrote a redemption row for          *)
  committed,   (* requests whose transaction committed                     *)
  cancelled,   (* orders the shop cancelled or rejected                    *)
  price,       (* current price of each product                            *)
  cart,        (* customers with a leftover cart in Redis                  *)
  announced,   (* requests whose order.placed went out                     *)
  found,       (* the order a request is about to be answered with         *)
  outcome,     (* how each request was answered                            *)
  faultsLeft

locks == <<keyed, products, coupons>>
shop  == <<cancelled, price>>
rows  == <<wrote, redeemed, committed>>
vars  == <<pc, keyed, products, coupons, next, ordersSeen, allowed, quoted,
           wrote, redeemed, committed, cancelled, price, cart, announced,
           found, outcome, faultsLeft>>

Customers == {Customer[r] : r \in Requests}
Stages == {"new", "validating", "keying", "looking", "locking", "pricing",
           "checking", "ordering", "redeeming", "clearing", "announcing",
           "committing", "done"}

Init ==
  /\ pc = [r \in Requests |-> "new"]
  /\ keyed = {}
  /\ products = [r \in Requests |-> {}]
  /\ coupons = [r \in Requests |-> {}]
  /\ next = [r \in Requests |-> 1]
  /\ ordersSeen = [r \in Requests |-> FALSE]
  /\ allowed = [r \in Requests |-> CHOOSE n \in Allowances : TRUE]
  /\ wrote = [r \in Requests |-> {}]
  /\ redeemed = [r \in Requests |-> {}]
  /\ committed = {}
  /\ cancelled = {}
  /\ price = [p \in Products |-> CHOOSE cost \in Prices : TRUE]
  /\ quoted = [r \in Requests |-> price]
  /\ cart = Customers
  /\ announced = {}
  /\ found = [r \in Requests |-> {}]
  /\ outcome = [r \in Requests |-> "none"]
  /\ faultsLeft = FaultBudget

SameKey(r, s) == Customer[r] = Customer[s] /\ Key[r] = Key[s]
Orders == {r \in committed : "order" \in wrote[r]}

-----------------------------------------------------------------------------
(* The end of a transaction.                                                *)

Release(r) ==
  /\ keyed' = keyed \ {r}
  /\ products' = [products EXCEPT ![r] = {}]
  /\ coupons' = [coupons EXCEPT ![r] = {}]

Answer(r, how) ==
  /\ pc' = [pc EXCEPT ![r] = "done"]
  /\ outcome' = [outcome EXCEPT ![r] = how]

\* Mutant: the error leaves the transaction open on its connection.
NoRollBack(r, how) ==
  /\ Answer(r, how)
  /\ UNCHANGED <<locks, next, ordersSeen, allowed, quoted, rows, shop, cart,
                 announced, found>>

\* ROLLBACK undoes rows: neither the deleted cart nor an announcement.
RollBack(r, how) ==
  /\ Release(r)
  /\ wrote' = [wrote EXCEPT ![r] = {}]
  /\ redeemed' = [redeemed EXCEPT ![r] = {}]
  /\ found' = [found EXCEPT ![r] = {}]
  /\ Answer(r, how)
  /\ UNCHANGED <<next, ordersSeen, allowed, quoted, committed, shop, cart,
                 announced>>

CommitRows(r) ==
  /\ pc[r] = "committing"
  /\ committed' = committed \cup {r}
  /\ Release(r)
  /\ UNCHANGED <<next, ordersSeen, allowed, quoted, wrote, redeemed, shop,
                 cart, announced, found>>

Commit(r) == CommitRows(r) /\ Answer(r, "ok") /\ UNCHANGED faultsLeft

-----------------------------------------------------------------------------
(* Validation and replay.                                                   *)

GoTo(r, stage) == pc' = [pc EXCEPT ![r] = stage]

Begin(r) ==
  /\ pc[r] = "new"
  /\ GoTo(r, "validating")
  /\ UNCHANGED <<locks, next, ordersSeen, allowed, quoted, rows, shop, cart,
                 announced, found, outcome, faultsLeft>>

\* Membership, profile, address and service area are in order.
Validate(r) ==
  /\ pc[r] = "validating"
  /\ GoTo(r, "keying")
  /\ UNCHANGED <<locks, next, ordersSeen, allowed, quoted, rows, shop, cart,
                 announced, found, outcome, faultsLeft>>

\* Mutant: the request looks for its key without the advisory lock.
LookWithoutLock(r) ==
  /\ pc[r] = "keying"
  /\ keyed' = keyed \cup {r}
  /\ GoTo(r, "looking")
  /\ UNCHANGED <<products, coupons, next, ordersSeen, allowed, quoted, rows,
                 shop, cart, announced, found, outcome, faultsLeft>>

LockKey(r) ==
  /\ pc[r] = "keying"
  /\ \A s \in keyed : ~ SameKey(r, s)
  /\ keyed' = keyed \cup {r}
  /\ GoTo(r, "looking")
  /\ UNCHANGED <<products, coupons, next, ordersSeen, allowed, quoted, rows,
                 shop, cart, announced, found, outcome, faultsLeft>>

Existing(r) == {s \in committed : "key" \in wrote[s] /\ SameKey(r, s)}

Replay(r) ==
  /\ pc[r] = "looking"
  /\ \E s \in Existing(r) : found' = [found EXCEPT ![r] = {s}]
  /\ GoTo(r, "committing")
  /\ UNCHANGED <<locks, next, ordersSeen, allowed, quoted, rows, shop, cart,
                 announced, outcome, faultsLeft>>

NoReplay(r) ==
  /\ pc[r] = "looking"
  /\ Existing(r) = {}
  /\ GoTo(r, "locking")
  /\ UNCHANGED <<locks, next, ordersSeen, allowed, quoted, rows, shop, cart,
                 announced, found, outcome, faultsLeft>>

-----------------------------------------------------------------------------
(* Products and prices.                                                     *)

\* Mutant: the rows are locked in any order.
AnyProduct(r) == Basket[r] \ products[r]

\* SELECT ... ORDER BY sp.id FOR UPDATE locks the rows one after the other.
NextProduct(r) ==
  LET left == Basket[r] \ products[r]
  IN  {p \in left : \A q \in left : p <= q}

LockProduct(r) ==
  /\ pc[r] = "locking"
  /\ \E p \in NextProduct(r) :
       /\ \A s \in Requests : p \notin products[s]
       /\ products' = [products EXCEPT ![r] = @ \cup {p}]
  /\ UNCHANGED <<pc, keyed, coupons, next, ordersSeen, allowed, quoted,
                 rows, shop, cart, announced, found, outcome, faultsLeft>>

\* Mutant: the rows are locked outside the transaction.
ProductLocksDropped(r) ==
  /\ pc[r] = "locking"
  /\ NextProduct(r) = {}
  /\ GoTo(r, "pricing")
  /\ products' = [products EXCEPT ![r] = {}]
  /\ UNCHANGED <<keyed, coupons, next, ordersSeen, allowed, quoted, rows,
                 shop, cart, announced, found, outcome, faultsLeft>>

ProductsLocked(r) ==
  /\ pc[r] = "locking"
  /\ NextProduct(r) = {}
  /\ GoTo(r, "pricing")
  /\ UNCHANGED <<locks, next, ordersSeen, allowed, quoted, rows, shop, cart,
                 announced, found, outcome, faultsLeft>>

HasOrder(customer) ==
  \E s \in Orders \ cancelled : Customer[s] = customer

\* Live prices, the count of the customer's orders, and the shop's promotion
\* settings, which may be edited between any two requests: each is read once.
Price(r) ==
  /\ pc[r] = "pricing"
  /\ \E n \in Allowances : allowed' = [allowed EXCEPT ![r] = n]
  /\ quoted' = [quoted EXCEPT ![r] =
                  [p \in Products |-> IF p \in Basket[r] THEN price[p] ELSE @[p]]]
  /\ ordersSeen' = [ordersSeen EXCEPT ![r] = HasOrder(Customer[r])]
  /\ GoTo(r, "checking")
  /\ UNCHANGED <<locks, next, rows, shop, cart, announced, found, outcome,
                 faultsLeft>>

-----------------------------------------------------------------------------
(* Coupons: checked without a lock while pricing, redeemed under one.       *)

Redemptions(r, c) == {s \in committed \cup {r} : c \in redeemed[s]}

\* Mutant: one redemption too many.
ExhaustedLate(r, c) ==
  \/ Cardinality(Redemptions(r, c)) > TotalLimit[c]
  \/ Cardinality({s \in Redemptions(r, c) : Customer[s] = Customer[r]})
       > CustomerLimit[c]

Exhausted(r, c) ==
  \/ Cardinality(Redemptions(r, c)) >= TotalLimit[c]
  \/ Cardinality({s \in Redemptions(r, c) : Customer[s] = Customer[r]})
       >= CustomerLimit[c]

MoreCodes(r) == next[r] \in CodesToTry(r, allowed[r])
Code(r) == Codes[r][next[r]]

CheckCoupon(r) ==
  /\ pc[r] = "checking"
  /\ MoreCodes(r)
  /\ ~ Exhausted(r, Code(r))
  /\ Code(r) \in FirstOrderOnly => ~ ordersSeen[r]
  /\ next' = [next EXCEPT ![r] = @ + 1]
  /\ UNCHANGED <<pc, locks, ordersSeen, allowed, quoted, rows, shop, cart,
                 announced, found, outcome, faultsLeft>>

CouponsChecked(r) ==
  /\ pc[r] = "checking"
  /\ ~ MoreCodes(r)
  /\ GoTo(r, "ordering")
  /\ UNCHANGED <<locks, next, ordersSeen, allowed, quoted, rows, shop, cart,
                 announced, found, outcome, faultsLeft>>

\* Mutant: the order is announced as soon as its rows are written.
InsertAnnounced(r) ==
  /\ pc[r] = "ordering"
  /\ wrote' = [wrote EXCEPT ![r] = {"order", "event"}]
  /\ next' = [next EXCEPT ![r] = 1]
  /\ announced' = announced \cup {r}
  /\ GoTo(r, "redeeming")
  /\ UNCHANGED <<locks, ordersSeen, allowed, quoted, redeemed, committed,
                 shop, cart, found, outcome, faultsLeft>>

\* The orders row, its items and its 'order.created' outbox row.
InsertOrder(r) ==
  /\ pc[r] = "ordering"
  /\ wrote' = [wrote EXCEPT ![r] = {"order", "event"}]
  /\ next' = [next EXCEPT ![r] = 1]
  /\ GoTo(r, "redeeming")
  /\ UNCHANGED <<locks, ordersSeen, allowed, quoted, redeemed, committed,
                 shop, cart, announced, found, outcome, faultsLeft>>

\* Mutant: the coupon is read without FOR UPDATE.
ReadCoupon(r) ==
  /\ pc[r] = "redeeming"
  /\ MoreCodes(r)
  /\ coupons' = [coupons EXCEPT ![r] = @ \cup {Code(r)}]
  /\ UNCHANGED <<pc, keyed, products, next, ordersSeen, allowed, quoted,
                 rows, shop, cart, announced, found, outcome, faultsLeft>>

LockCoupon(r) ==
  /\ pc[r] = "redeeming"
  /\ MoreCodes(r)
  /\ \A s \in Requests : Code(r) \notin coupons[s]
  /\ coupons' = [coupons EXCEPT ![r] = @ \cup {Code(r)}]
  /\ UNCHANGED <<pc, keyed, products, next, ordersSeen, allowed, quoted,
                 rows, shop, cart, announced, found, outcome, faultsLeft>>

AtCoupon(r) == pc[r] = "redeeming" /\ MoreCodes(r) /\ Code(r) \in coupons[r]

Redeem(r) ==
  /\ AtCoupon(r)
  /\ ~ Exhausted(r, Code(r))
  /\ redeemed' = [redeemed EXCEPT ![r] = @ \cup {Code(r)}]
  /\ next' = [next EXCEPT ![r] = @ + 1]
  /\ UNCHANGED <<pc, locks, ordersSeen, allowed, quoted, wrote, committed,
                 shop, cart, announced, found, outcome, faultsLeft>>

\* Mutant: a coupon exhausted since it was priced is skipped, not refused.
SkipExhausted(r) ==
  /\ AtCoupon(r)
  /\ Exhausted(r, Code(r))
  /\ next' = [next EXCEPT ![r] = @ + 1]
  /\ UNCHANGED <<pc, locks, ordersSeen, allowed, quoted, rows, shop, cart,
                 announced, found, outcome, faultsLeft>>

CouponExhausted(r) ==
  /\ AtCoupon(r)
  /\ Exhausted(r, Code(r))
  /\ RollBack(r, "refused")
  /\ UNCHANGED faultsLeft

\* An invalid customer or address, an empty cart, an unavailable product, a
\* coupon that does not apply or was deleted, a subtotal below the minimum.
Refuse(r) ==
  /\ \/ pc[r] \in {"validating", "pricing", "checking", "ordering"}
     \/ pc[r] = "looking" /\ Existing(r) = {}
     \/ AtCoupon(r)
  /\ RollBack(r, "refused")
  /\ UNCHANGED faultsLeft

-----------------------------------------------------------------------------
(* The key, the cart, the announcement.                                     *)

HasKeyRow(s) == "key" \in wrote[s]
RivalKeys(r) == {s \in Requests \ {r} : HasKeyRow(s) /\ SameKey(r, s)}

\* The primary key makes the INSERT wait for a rival's transaction, and fail
\* if the rival committed.
RecordKey(r) ==
  /\ pc[r] = "redeeming"
  /\ ~ MoreCodes(r)
  /\ RivalKeys(r) \subseteq committed
  /\ IF RivalKeys(r) = {}
     THEN /\ wrote' = [wrote EXCEPT ![r] = @ \cup {"key"}]
          /\ GoTo(r, "clearing")
          /\ UNCHANGED <<locks, next, ordersSeen, allowed, quoted, redeemed,
                         committed, shop, cart, announced, found, outcome>>
     ELSE RollBack(r, "conflict")
  /\ UNCHANGED faultsLeft

ClearCart(r) ==
  /\ pc[r] = "clearing"
  /\ cart' = cart \ {Customer[r]}
  /\ GoTo(r, "announcing")
  /\ UNCHANGED <<locks, next, ordersSeen, allowed, quoted, rows, shop,
                 announced, found, outcome, faultsLeft>>

Announce(r) ==
  /\ pc[r] = "announcing"
  /\ announced' = announced \cup {r}
  /\ found' = [found EXCEPT ![r] = {r}]
  /\ GoTo(r, "committing")
  /\ UNCHANGED <<locks, next, ordersSeen, allowed, quoted, rows, shop, cart,
                 outcome, faultsLeft>>

\* emitOrderPlaced throws: an ORDER_PLACED_REALTIME outbox row instead.
AnnounceThrows(r) ==
  /\ pc[r] = "announcing"
  /\ wrote' = [wrote EXCEPT ![r] = @ \cup {"retry"}]
  /\ found' = [found EXCEPT ![r] = {r}]
  /\ GoTo(r, "committing")
  /\ UNCHANGED <<locks, next, ordersSeen, allowed, quoted, redeemed,
                 committed, shop, cart, announced, outcome, faultsLeft>>

-----------------------------------------------------------------------------
(* Failures, waiting, and the rest of the shop.                             *)

Running(r) == pc[r] \notin {"new", "done"}

Strikes == faultsLeft > 0 /\ faultsLeft' = faultsLeft - 1

\* A query or the COMMIT fails, or the process dies: the database rolls back.
Fail(r) ==
  /\ Running(r)
  /\ Strikes
  /\ RollBack(r, "error")

CommitAnswerLost(r) ==
  /\ CommitRows(r)
  /\ Strikes
  /\ Answer(r, "error")

WaitsForKey(r, s)     == pc[r] = "keying" /\ s \in keyed /\ SameKey(r, s)
WaitsForProduct(r, s) == /\ pc[r] = "locking"
                         /\ NextProduct(r) \cap products[s] # {}
WaitsForCoupon(r, s)  == /\ pc[r] = "redeeming"
                         /\ MoreCodes(r)
                         /\ Code(r) \in coupons[s]
WaitsFor(r, s) ==
  /\ r # s
  /\ WaitsForKey(r, s) \/ WaitsForProduct(r, s) \/ WaitsForCoupon(r, s)

Deadlocked(r) ==
  \E S \in SUBSET Requests :
    /\ r \in S
    /\ \A x \in S : /\ \E y \in S : WaitsFor(x, y)
                    /\ \E y \in S : WaitsFor(y, x)

\* The deadlock detector of the database makes one query of a cycle fail.
DeadlockAbort(r) ==
  /\ Deadlocked(r)
  /\ RollBack(r, "error")
  /\ UNCHANGED faultsLeft

\* The shop's side edits a price unless the row is locked, and cancels orders.
ChangePrice(p) ==
  /\ \A r \in Requests : p \notin products[r]
  /\ \E cost \in Prices : price' = [price EXCEPT ![p] = cost]
  /\ UNCHANGED <<pc, locks, next, ordersSeen, allowed, quoted, rows,
                 cancelled, cart, announced, found, outcome, faultsLeft>>

CancelOrder(r) ==
  /\ r \in Orders \ cancelled
  /\ cancelled' = cancelled \cup {r}
  /\ UNCHANGED <<pc, locks, next, ordersSeen, allowed, quoted, rows, price,
                 cart, announced, found, outcome, faultsLeft>>

-----------------------------------------------------------------------------
\* What the handler of a request in progress does by itself.
RequestStep(r) ==
  \/ Validate(r) \/ LockKey(r) \/ Replay(r) \/ NoReplay(r)
  \/ LockProduct(r) \/ ProductsLocked(r) \/ Price(r)
  \/ CheckCoupon(r) \/ CouponsChecked(r) \/ InsertOrder(r)
  \/ LockCoupon(r) \/ Redeem(r) \/ CouponExhausted(r)
  \/ RecordKey(r) \/ ClearCart(r) \/ Announce(r) \/ AnnounceThrows(r) \/ Commit(r)
  \/ Refuse(r) \/ DeadlockAbort(r)

Next ==
  \/ \E r \in Requests :
       \/ Begin(r) \/ RequestStep(r) \/ Fail(r) \/ CommitAnswerLost(r)
       \/ CancelOrder(r)
  \/ \E p \in Products : ChangePrice(p)

Spec == Init /\ [][Next]_vars

\* The driver answers every query and the database grants free locks.
Fairness == \A r \in Requests : WF_vars(RequestStep(r))

FairSpec == Spec /\ Fairness

-----------------------------------------------------------------------------
TypeOK ==
  /\ pc \in [Requests -> Stages]
  /\ keyed \subseteq Requests
  /\ products \in [Requests -> SUBSET Products]
  /\ coupons \in [Requests -> SUBSET Coupons]
  /\ next \in [Requests -> Nat \ {0}]
  /\ ordersSeen \in [Requests -> BOOLEAN]
  /\ allowed \in [Requests -> Allowances]
  /\ quoted \in [Requests -> [Products -> Prices]]
  /\ wrote \in [Requests -> SUBSET {"order", "event", "key", "retry"}]
  /\ redeemed \in [Requests -> SUBSET Coupons]
  /\ committed \subseteq Requests
  /\ cancelled \subseteq Requests
  /\ price \in [Products -> Prices]
  /\ cart \subseteq Customers
  /\ announced \subseteq Requests
  /\ found \in [Requests -> SUBSET Requests]
  /\ outcome \in [Requests -> {"none", "ok", "refused", "conflict", "error"}]
  /\ faultsLeft \in 0 .. FaultBudget

(* However often a client repeats a request, in parallel or after an error, *)
(* one order exists under its key (tryCheckoutIdempotentReplay and the      *)
(* primary key of checkout_idempotency).                                    *)
OneOrderPerKey ==
  \A r, s \in Orders : SameKey(r, s) => r = s

(* The advisory lock makes the primary key a second line of defence: no     *)
(* request ever fails on it, a repeated request is answered with the order. *)
RepeatsNeverConflict ==
  \A r \in Requests : outcome[r] # "conflict"

(* The limits of a coupon hold over the orders that are really placed, when *)
(* several checkouts pass the unlocked check at the same time.              *)
CouponWithinLimits ==
  \A c \in Coupons :
    LET spent == {r \in Orders : c \in redeemed[r]} IN
    /\ Cardinality(spent) <= TotalLimit[c]
    /\ \A k \in Customers :
         Cardinality({r \in spent : Customer[r] = k}) <= CustomerLimit[c]

(* A placed order comes with its outbox event, its key, an announcement or  *)
(* a row to retry it, and a redemption of every coupon in its price: of the *)
(* codes it names as many as the shop allowed when it was priced, none      *)
(* while promotions were paused.  No coupon is taken off the price and then *)
(* left unspent, however the checkouts and the settings interleave.         *)
OrderComplete ==
  \A r \in Orders :
    /\ {"event", "key"} \subseteq wrote[r]
    /\ redeemed[r] = CouponsOf(r, allowed[r])
    /\ r \in announced \/ "retry" \in wrote[r]

(* The prices an order is built from are the current ones when it commits,  *)
(* whatever the shop edits meanwhile (FOR UPDATE OF sp).                    *)
PricesHeld ==
  \A r \in Requests :
    pc[r] \in {"checking", "ordering", "redeeming", "clearing", "announcing"}
      => \A p \in Basket[r] : quoted[r][p] = price[p]

(* Checkouts deadlock only on coupons, which are locked in the order the    *)
(* client gave them: never on keys or products.                             *)
OnlyCouponDeadlocks ==
  \A r \in Requests :
    Deadlocked(r) => pc[r] = "redeeming"

(* Every request is answered, provided the database answers its queries and *)
(* breaks deadlocks.                                                        *)
AllAnswered ==
  \A r \in Requests : pc[r] = "validating" ~> pc[r] = "done"

\* The request has cleared the cart and has only the COMMIT before it.
Finishing(r) ==
  \/ pc[r] = "announcing"
  \/ pc[r] = "committing" /\ wrote[r] # {}

NoPhantoms ==
  faultsLeft = FaultBudget =>
    \A r \in announced : pc[r] = "done" => r \in Orders

CartsGoWithOrders ==
  faultsLeft = FaultBudget =>
    \A k \in Customers \ cart : \E r \in Requests :
      Customer[r] = k /\ (Finishing(r) \/ r \in Orders)

(* The order is announced, and the cart in Redis deleted, before the        *)
(* COMMIT, but once nothing of its own can stop it any more: only a failing *)
(* COMMIT leaves the shop with an order that does not exist or a customer   *)
(* without a cart, never a refused coupon, a replay or a deadlock.          *)
PhantomsOnlyByFailure == NoPhantoms /\ CartsGoWithOrders

-----------------------------------------------------------------------------
Book == INSTANCE OrderBook WITH
          Slot <- [r \in Requests |-> <<Customer[r], Key[r]>>],
          Spendings <- [r \in Requests |->
                          {CouponsOf(r, n) : n \in Allowances}],
          book <- Orders,
          spent <- [r \in Requests |->
                      IF r \in Orders THEN redeemed[r] ELSE {}],
          reply <- [r \in Requests |->
                      IF outcome[r] = "ok" THEN found[r] ELSE {}]

(* The transactions of concurrent checkouts, with their locks, failures and *)
(* retries, amount to orders placed and replayed one at a time.             *)
ImplementsOrderBook == Book!Spec
=============================================================================
