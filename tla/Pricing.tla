------------------------------ MODULE Pricing ------------------------------
(***************************************************************************)
(* What a cart costs: its preview and its checkout.  Both hand the lines   *)
(* they make of the client's items to priceStorefrontLines; they differ in *)
(* what they do with items they cannot sell, and with a coupon that cannot *)
(* be used: a preview reports the first reason and goes on, a checkout     *)
(* stops.  A preview then suggests coupons, a checkout asks for the        *)
(* minimum purchase of the shop.                                           *)
(*                                                                         *)
(* A call reads the settings of the shop, the offers that run, the history *)
(* of the customer and one coupon after another, each in a statement of    *)
(* its own (or from Redis), and the shop and other customers go on in      *)
(* between.  The items, prices and rules stay as they are.                 *)
(***************************************************************************)
EXTENDS Baskets

CONSTANTS
  Calls,         (* calls for one and the same cart of one customer        *)
  Previews,      (* the calls with invalidCouponBehavior "omit"            *)
  Codes,         (* codes of coupons                                       *)
  Shops,         (* the shops, with their offers, coupons and a basket     *)
  ChangeBudget   (* bound on what shop and customers do in a behaviour     *)

ASSUME PricingAssumption ==
  /\ Previews \subseteq Calls
  /\ ChangeBudget \in Nat
  /\ CodesByName \in Seq(Codes) /\ Codes \subseteq ToSet(CodesByName)
  /\ \A s \in Shops :
       /\ s.basket # <<>>
       /\ s.couponsOnly \in BOOLEAN
       /\ s.codes \in Seq(Codes)
       /\ s.minimum \in Nat
       /\ s.maxCoupons \in Nat \ {0}
       /\ \A i, j \in DOMAIN s.codes : s.codes[i] = s.codes[j] => i = j
       /\ DOMAIN s.coupon = Codes
       /\ \A k \in Codes : s.coupon[k].campaign \in Campaigns
       \* Rules of a campaign with coupons are not automatic.
       /\ \A k \in Codes, i \in DOMAIN s.autos :
            s.autos[i].campaign # s.coupon[k].campaign

CartRule(r) ==
  /\ r.campaign \in Campaigns
  /\ {r.threshold, r.cap, r.bps, r.amount, r.priority, r.created, r.weekdayFirst} \subseteq Int

\* What the columns of the tables and the keys between them make sure of; the
\* price of a product is only known not to be negative, that of an offer on it
\* counts above zero.
ASSUME ShopsAssumption ==
  \A s \in Shops :
    /\ s.basket \in Seq(ToSet(s.basket))
    /\ \A item \in ToSet(s.basket) : item.product \in Products /\ item.ticks \in Nat
    /\ \A p \in Products : s.shelf[p].list \in Nat /\ s.shelf[p].offer \in Int
    /\ s.overlays \in Seq(ToSet(s.overlays))
    /\ \A o \in ToSet(s.overlays) :
         /\ o.campaign \in Campaigns /\ o.price \in Nat
         /\ {o.priority, o.created} \subseteq Int
         \* A campaign has one price for a product.
         /\ \A other \in ToSet(s.overlays) :
              o.campaign = other.campaign /\ o.product = other.product => o = other
    /\ s.bundles \in Seq(ToSet(s.bundles))
    /\ \A r \in ToSet(s.bundles) :
         /\ r.campaign \in Campaigns /\ {r.buy, r.get} \subseteq Nat \ {0}
         /\ r.scope \in {"same", "category", "cross"} /\ r.bps \in Int
         /\ r.scope = "cross" => r.rewarded \in Products
    /\ s.autos \in Seq(ToSet(s.autos))
    /\ \A r \in ToSet(s.autos) : CartRule(r)
    /\ \A k \in Codes :
         /\ s.coupon[k].rules \in Seq(ToSet(s.coupon[k].rules))
         /\ \A r \in ToSet(s.coupon[k].rules) : CartRule(r)
         /\ {s.coupon[k].minSubtotal, s.coupon[k].totalLimit, s.coupon[k].customerLimit,
             s.coupon[k].priority, s.coupon[k].created} \subseteq Int
         \* Whether a coupon stacks with sales is said of its campaign.
         /\ \A l \in Codes : s.coupon[k].campaign = s.coupon[l].campaign =>
                               s.coupon[k].stackSku = s.coupon[l].stackSku

VARIABLES
  shop,         (* one of Shops                                            *)
  paused,       (* promotions_paused                                       *)
  running,      (* whether the campaigns without coupons are on            *)
  redis,        (* paused, running and the live coupons as the cache of    *)
                (* promotions has them                                     *)
  live,         (* the coupons that are valid now                          *)
  usedByAll,    (* redemptions of each coupon                              *)
  usedByMe,     (* the customer's among them                               *)
  ordered,      (* whether the customer has placed an order                *)
  newcomer,     (* whether the customer is still a new one                 *)
  changesLeft,
  guests,       (* the previews without a customer                         *)
  pc,           (* how far each call is                                    *)
  sees,         (* what each call read, and whether it read bundles        *)
  bill,         (* what each call found so far                             *)
  at,           (* index in codes of the coupon each call is at            *)
  suggested     (* the coupons each preview suggests                       *)

customers == <<live, usedByAll, usedByMe, ordered, newcomer>>
world == <<shop, paused, running, redis, customers, changesLeft, guests>>
calls == <<pc, sees, bill, at, suggested>>
vars  == <<world, calls>>

Stages == {"new", "offers", "bundles", "rules", "customer", "coupons", "done",
           "answered", "refused"}
NoBill ==
  [lines |-> <<>>, onSale |-> FALSE, bundle |-> 0, auto |-> 0, afterAuto |-> 0,
   coupon |-> 0, remaining |-> 0, campaigns |-> {}, credit |-> Nothing,
   given |-> Nothing, told |-> {}, ahead |-> {},
   applied |-> <<>>, rejected |-> "none"]

Init ==
  /\ shop \in Shops
  /\ paused = FALSE /\ running = TRUE
  /\ live = {k \in Codes : shop.coupon[k].exists}
  /\ redis = [paused |-> FALSE, running |-> TRUE, live |-> live]
  /\ usedByAll = [k \in Codes |-> 0]
  /\ usedByMe = [k \in Codes |-> 0]
  /\ ordered = FALSE /\ newcomer = TRUE
  /\ changesLeft = ChangeBudget
  /\ guests \in SUBSET Previews
  /\ pc = [c \in Calls |-> "new"]
  /\ sees = [c \in Calls |-> [paused |-> FALSE, bundles |-> FALSE,
                              ordered |-> FALSE, newcomer |-> TRUE]]
  /\ bill = [c \in Calls |-> NoBill]
  /\ at = [c \in Calls |-> 1]
  /\ suggested = [c \in Calls |-> <<>>]

\* Codes beyond the shop's maximum are dropped, and nothing is said of it.
CodesToTry == SubSeq(shop.codes, 1, Least(Len(shop.codes), shop.maxCoupons))

-----------------------------------------------------------------------------
(* A call, up to the coupons.                                               *)

Cart(c) == IF c \in Previews THEN PreviewCart(shop.basket, shop.shelf)
           ELSE CheckoutCart(shop.basket, shop.shelf)

RefuseBasket(c) ==
  /\ pc[c] = "new" /\ c \notin Previews
  /\ BasketRefusal(shop.basket, shop.shelf) # "none"
  /\ pc' = [pc EXCEPT ![c] = "refused"]
  /\ bill' = [bill EXCEPT ![c].rejected = BasketRefusal(shop.basket, shop.shelf)]
  /\ UNCHANGED <<world, sees, at, suggested>>

\* Nothing of the basket can be sold: the preview of it is empty.
ShowNothing(c) ==
  /\ pc[c] = "new" /\ c \in Previews
  /\ Cart(c) = <<>>
  /\ pc' = [pc EXCEPT ![c] = "answered"]
  /\ UNCHANGED <<world, sees, bill, at, suggested>>

\* Settings and campaigns come from Redis or from the database.
ReadSettings(c) ==
  /\ pc[c] = "new"
  /\ IF c \in Previews THEN Cart(c) # <<>>
     ELSE BasketRefusal(shop.basket, shop.shelf) = "none"
  /\ \E p \in {redis.paused, paused} : sees' = [sees EXCEPT ![c].paused = p]
  /\ pc' = [pc EXCEPT ![c] = "offers"]
  /\ UNCHANGED <<world, bill, at, suggested>>

\* Lines of the cart, and rewards the cart lacks, if they can be sold.
LinesOf(cart, overlays, bundles) ==
  LET asked == [i \in DOMAIN cart |->
                  PricedLine(cart[i], shop.shelf[cart[i].product],
                             SaleOf(cart[i].product, overlays, shop.overlap))]
      rewards == MissingRewards(asked, bundles)
      missing == Those(rewards, {i \in DOMAIN rewards :
                                   /\ shop.shelf[rewards[i].product].sellable
                                   /\ shop.shelf[rewards[i].product].list > 0})
      added == [i \in DOMAIN missing |->
                  [PricedLine(missing[i], shop.shelf[missing[i].product],
                              IF \E j \in DOMAIN cart : cart[j].product = missing[i].product
                              THEN SaleOf(missing[i].product, overlays, shop.overlap)
                              ELSE {})
                     EXCEPT !.campaigns = {}, !.sale = 0]]
  IN asked \o added

RunningSales(on) == IF on THEN shop.overlays ELSE <<>>
RunningBundles(on) == IF on THEN shop.bundles ELSE <<>>

\* Sales and bundles are not even read while only coupons are on.
ReadOffers(c) ==
  /\ pc[c] = "offers"
  /\ \E sales, bundles \in {redis.running, running} :
       LET reads == ~shop.couponsOnly /\ ~sees[c].paused
       IN /\ sees' = [sees EXCEPT ![c].bundles = reads /\ bundles]
          /\ \E lines \in {LinesOf(Cart(c),
                                  RunningSales(reads /\ sales),
                                  RunningBundles(reads /\ bundles))} :
               LET campaigns == UNION {lines[i].campaigns : i \in DOMAIN lines}
               IN bill' = [bill EXCEPT ![c] =
                    [@ EXCEPT !.lines = lines,
                              !.onSale = campaigns # {},
                              !.campaigns = campaigns,
                              !.credit = SaleCredit(lines)]]
  /\ pc' = [pc EXCEPT ![c] = "bundles"]
  /\ UNCHANGED <<world, at, suggested>>

\* The bill with what bundles give.
WithGifts(b, given) ==
  [b EXCEPT !.lines = given.lines,
            !.bundle = given.discount,
            !.campaigns = @ \cup {k \in Campaigns : given.credit[k] > 0},
            !.credit = Plus(@, given.credit)]

GiveBundles(c) ==
  /\ pc[c] = "bundles"
  /\ \E given \in {EvaluateBundles(bill[c].lines,
                                  RunningBundles(sees[c].bundles),
                                  shop.combine)} :
       bill' = [bill EXCEPT ![c] = WithGifts(@, given)]
  /\ pc' = [pc EXCEPT ![c] = "rules"]
  /\ UNCHANGED <<world, sees, at, suggested>>

\* Beside a sale, an automatic rule applies if it stacks with sales.
Stacks(r) ==
  IF r.kind = "category_percent_off"
  THEN Flag(r.stackSkuCategory, shop.stackSkuCategory)
  ELSE Flag(r.stackSku, shop.stackSku)

Bxgy(b) == b.bundle > 0 \/ \E i \in DOMAIN b.lines : b.lines[i].free > 0

\* The bill with automatic offers, and what is told of them.
WithOffers(b, rules, winners) ==
  LET taken == EvaluateAutoCartRules(b, winners)
      lines == Amounts(b.lines)
      given == [k \in Campaigns |-> taken.credit[k] - b.credit[k]]
  IN [taken EXCEPT !.given = given,
                   !.told = OffersTold(rules, given, CartTotal(lines), lines),
                   !.ahead = OffersAhead(rules, given, CartTotal(lines), lines),
                   !.rejected = IF Bxgy(b) /\ CodesToTry # <<>>
                                THEN "COUPON_NOT_WITH_BUNDLE" ELSE @]

\* With a bundle in the cart no coupon is looked at.
ReadRules(c) ==
  /\ pc[c] = "rules"
  /\ \E fromRedis \in BOOLEAN :
       LET on == IF fromRedis THEN redis.running ELSE running
           rules == IF sees[c].paused \/ ~on THEN <<>> ELSE shop.autos
           usable == IF bill[c].onSale
                     THEN Those(rules, {i \in DOMAIN rules : Stacks(rules[i])}) ELSE rules
       IN \E winners \in {Winners(usable, Amounts(bill[c].lines), shop.combine, fromRedis)} :
            bill' = [bill EXCEPT ![c] = WithOffers(@, usable, winners)]
  /\ pc' = [pc EXCEPT ![c] =
       CASE CodesToTry = <<>> -> "done"
         [] CodesToTry # <<>> /\ Bxgy(bill[c]) -> IF c \in Previews THEN "done" ELSE "refused"
         [] CodesToTry # <<>> /\ ~Bxgy(bill[c]) /\ sees[c].paused -> "done"
         [] OTHER -> IF c \in guests THEN "coupons" ELSE "customer"]
  /\ UNCHANGED <<world, sees, at, suggested>>

ReadCustomer(c) ==
  /\ pc[c] = "customer"
  /\ sees' = [sees EXCEPT ![c].ordered = ordered, ![c].newcomer = newcomer]
  /\ pc' = [pc EXCEPT ![c] = "coupons"]
  /\ UNCHANGED <<world, bill, at, suggested>>

-----------------------------------------------------------------------------
(* The coupons, one by one.                                                 *)

\* One statement: the coupon if it is valid now, and how often it was used.
CouponRow(k) ==
  [coupon |-> shop.coupon[k], found |-> k \in live,
   total |-> usedByAll[k], mine |-> usedByMe[k]]

CouponDiscount(b, k) ==
  Least(RulesDiscount(shop.coupon[k].rules, b.remaining,
                      ScaleLinesToPayable(Amounts(b.lines), b.remaining)),
        b.remaining)

\* Mutant: the flag for sales and categories is looked at.
BesideOtherSaleByCategory(b, coupon) ==
  b.onSale /\ ~Flag(coupon.stackSku, shop.stackSkuCategory) /\ coupon.campaign \notin b.campaigns

BesideOtherSale(b, coupon) ==
  b.onSale /\ ~Flag(coupon.stackSku, shop.stackSku) /\ coupon.campaign \notin b.campaigns

\* The checks in their order, for the coupon k as it is now.
RefusalOn(c, b, k) ==
  LET row == CouponRow(k)
      coupon == row.coupon
      auto == b.auto > 0
      known == c \notin guests
      byCategory == \E i \in DOMAIN coupon.rules : coupon.rules[i].kind = "category_percent_off"
  IN FirstReason(<<
       <<"COUPON_NOT_AFTER_AUTO", auto /\ ~shop.couponAfterAuto>>,
       <<"COUPON_NOT_FOUND", ~row.found>>,
       <<"COUPON_NOT_APPLICABLE", coupon.hasProducts /\ coupon.rules = <<>>>>,
       <<"COUPON_NO_CART_BENEFIT", coupon.rules = <<>>>>,
       <<"COUPON_NOT_AFTER_AUTO", auto /\ ~Flag(coupon.afterAuto, shop.couponAfterAuto)>>,
       <<"COUPON_NOT_WITH_SKU", BesideOtherSale(b, coupon)>>,
       <<"FIRST_ORDER_ONLY_NOT_MET", known /\ coupon.firstOrderOnly /\ sees[c].ordered>>,
       <<"NEW_CUSTOMER_ONLY_NOT_MET", known /\ coupon.newCustomerOnly /\ ~sees[c].newcomer>>,
       <<"MIN_SUBTOTAL_NOT_MET", known /\ b.remaining < coupon.minSubtotal>>,
       <<"COUPON_EXHAUSTED", Given(coupon.totalLimit) /\ row.total >= coupon.totalLimit>>,
       <<"COUPON_EXHAUSTED", /\ known
                             /\ Given(coupon.customerLimit)
                             /\ row.mine >= coupon.customerLimit>>,
       <<"COUPON_NOT_WITH_AUTO_CART",
         auto /\ byCategory /\ ~Flag(coupon.stackCategory, shop.stackCategory)>>,
       <<ZeroDiscount(coupon.rules, b.remaining), CouponDiscount(b, k) <= 0>> >>)

Refusal(c, k) == RefusalOn(c, bill[c], k)
Code(c) == CodesToTry[at[c]]
Advance(c) ==
  /\ at' = [at EXCEPT ![c] = @ + 1]
  /\ pc' = [pc EXCEPT ![c] = IF at[c] < Len(CodesToTry) THEN @ ELSE "done"]

Redeemed(b, k) ==
  LET d == CouponDiscount(b, k)
      campaign == shop.coupon[k].campaign
  IN [b EXCEPT !.applied = Append(@, k),
               !.coupon = @ + d,
               !.remaining = NonNegative(@ - d),
               !.campaigns = @ \cup {campaign},
               !.credit = Plus(@, Only(campaign, d))]

ApplyCoupon(c) ==
  /\ pc[c] = "coupons"
  /\ Refusal(c, Code(c)) = "none"
  /\ bill' = [bill EXCEPT ![c] = Redeemed(@, Code(c))]
  /\ Advance(c)
  /\ UNCHANGED <<world, sees, suggested>>

\* Mutants: a checkout goes on without the coupon, as a preview does; the
\* last reason is kept.
RejectAndGoOn(c) ==
  /\ pc[c] = "coupons"
  /\ Refusal(c, Code(c)) # "none"
  /\ bill' = [bill EXCEPT ![c].rejected = IF @ = "none" THEN Refusal(c, Code(c)) ELSE @]
  /\ Advance(c)
  /\ UNCHANGED <<world, sees, suggested>>
RejectKeepingLast(c) ==
  /\ pc[c] = "coupons"
  /\ Refusal(c, Code(c)) # "none"
  /\ bill' = [bill EXCEPT ![c].rejected = Refusal(c, Code(c))]
  /\ IF c \in Previews THEN Advance(c)
     ELSE pc' = [pc EXCEPT ![c] = "refused"] /\ UNCHANGED at
  /\ UNCHANGED <<world, sees, suggested>>

\* A preview keeps the first reason.
RejectCoupon(c) ==
  /\ pc[c] = "coupons"
  /\ Refusal(c, Code(c)) # "none"
  /\ bill' = [bill EXCEPT ![c].rejected = IF @ = "none" THEN Refusal(c, Code(c)) ELSE @]
  /\ IF c \in Previews THEN Advance(c)
     ELSE pc' = [pc EXCEPT ![c] = "refused"] /\ UNCHANGED at
  /\ UNCHANGED <<world, sees, suggested>>

-----------------------------------------------------------------------------
(* What follows the price.                                                  *)

\* Mutant: what the customer redeemed already is not counted.
ApplicableAgain(c, k) ==
  LET row == shop.coupon[k]
      known == c \notin guests
  IN /\ Given(row.totalLimit) => usedByAll[k] < row.totalLimit
     /\ known /\ row.firstOrderOnly => ~ordered
     /\ known /\ row.newCustomerOnly => newcomer
     /\ bill[c].afterAuto >= row.minSubtotal

\* A coupon applies within its limits if its conditions hold; a guest is asked
\* for the subtotal only.
Applicable(c, k) ==
  LET row == shop.coupon[k]
      known == c \notin guests
  IN /\ Given(row.totalLimit) => usedByAll[k] < row.totalLimit
     /\ known /\ Given(row.customerLimit) => usedByMe[k] < row.customerLimit
     /\ known /\ row.firstOrderOnly => ~ordered
     /\ known /\ row.newCustomerOnly => newcomer
     /\ bill[c].afterAuto >= row.minSubtotal

\* Mutant: the first ones are kept before those that do not apply are dropped.
KeptFirst(c, valid) ==
  {k \in FirstListed(FirstListed(valid, shop.coupon, RowCap), shop.coupon, ListCap) :
     Applicable(c, k)}

\* What the listing gives of the valid coupons: it reads the first rows only,
\* and of those that apply it keeps the first ones.
Listed(c, valid) ==
  FirstListed({k \in FirstListed(valid, shop.coupon, RowCap) : Applicable(c, k)},
              shop.coupon, ListCap)

AsksForCoupons(c) == bill[c].afterAuto > 0 /\ ~sees[c].paused

\* The listing reads settings and coupons again, each from Redis or not.
Suggest(c) ==
  /\ pc[c] = "done" /\ c \in Previews
  /\ pc' = [pc EXCEPT ![c] = "answered"]
  /\ \E off \in {redis.paused, paused}, valid \in {redis.live, live} :
       LET codes == IF AsksForCoupons(c) /\ ~off THEN Listed(c, valid) ELSE {}
       IN suggested' = [suggested EXCEPT ![c] = Ranked(codes, shop.coupon, bill[c].afterAuto)]
  /\ UNCHANGED <<world, sees, bill, at>>

Subtotal(c) == NonNegative(bill[c].afterAuto - bill[c].coupon)

\* What a preview reports as min_purchase_remaining_minor.
MissingToMinimum(c) == NonNegative(shop.minimum - Subtotal(c))

AskMinimum(c) ==
  /\ pc[c] = "done" /\ c \notin Previews
  /\ IF MissingToMinimum(c) > 0
     THEN /\ pc' = [pc EXCEPT ![c] = "refused"]
          /\ bill' = [bill EXCEPT ![c].rejected = "MIN_PURCHASE_NOT_MET"]
     ELSE /\ pc' = [pc EXCEPT ![c] = "answered"]
          /\ UNCHANGED bill
  /\ UNCHANGED <<world, sees, at, suggested>>

\* The answer to a preview, and the order a checkout writes.
Answer(p) ==
  [rows |-> ShownRows(bill[p].lines, Cart(p)), subtotal |-> Subtotal(p),
   missing |-> MissingToMinimum(p),
   coupon |-> CouponBlock(CodesToTry, bill[p].applied, bill[p].rejected)]
Order(c) ==
  [rows |-> OrderRows(bill[c].lines, Cart(c)), subtotal |-> Subtotal(c),
   coupons |-> bill[c].applied]

-----------------------------------------------------------------------------
(* The shop, the customers and time.                                        *)

Change ==
  /\ changesLeft > 0
  /\ changesLeft' = changesLeft - 1
  /\ UNCHANGED <<shop, redis, guests, calls>>

PausePromotions ==
  /\ Change
  /\ paused' = ~paused
  /\ UNCHANGED <<running, customers>>
EndCampaigns ==
  /\ Change
  /\ running /\ running' = FALSE
  /\ UNCHANGED <<paused, customers>>
EndCoupon(k) ==
  /\ Change
  /\ k \in live /\ live' = live \ {k}
  /\ UNCHANGED <<paused, running, usedByAll, usedByMe, ordered, newcomer>>
OtherRedeems(k) ==
  /\ Change
  /\ shop.coupon[k].exists
  /\ usedByAll' = [usedByAll EXCEPT ![k] = @ + 1]
  /\ UNCHANGED <<paused, running, live, usedByMe, ordered, newcomer>>
CustomerOrders(k) ==
  /\ Change
  /\ shop.coupon[k].exists
  /\ ordered' = TRUE
  /\ usedByAll' = [usedByAll EXCEPT ![k] = @ + 1]
  /\ usedByMe' = [usedByMe EXCEPT ![k] = @ + 1]
  /\ UNCHANGED <<paused, running, live, newcomer>>
CustomerAges ==
  /\ Change
  /\ newcomer /\ newcomer' = FALSE
  /\ UNCHANGED <<paused, running, live, usedByAll, usedByMe, ordered>>
\* An entry of the cache runs out or is invalidated, and is read anew.
RefreshCache ==
  /\ redis' \in {[redis EXCEPT !.paused = paused], [redis EXCEPT !.running = running],
                 [redis EXCEPT !.live = live]}
  /\ redis' # redis
  /\ UNCHANGED <<shop, paused, running, customers, changesLeft, guests, calls>>

Next ==
  \/ \E c \in Calls :
       \/ RefuseBasket(c) \/ ShowNothing(c) \/ ReadSettings(c) \/ ReadOffers(c)
       \/ GiveBundles(c) \/ ReadRules(c) \/ ReadCustomer(c)
       \/ ApplyCoupon(c) \/ RejectCoupon(c) \/ Suggest(c) \/ AskMinimum(c)
  \/ PausePromotions \/ EndCampaigns \/ CustomerAges \/ RefreshCache
  \/ \E k \in Codes : EndCoupon(k) \/ OtherRedeems(k) \/ CustomerOrders(k)

Spec == Init /\ [][Next]_vars

-----------------------------------------------------------------------------
(* Properties.                                                              *)

Priced ==
  {c \in Calls : pc[c] \in {"customer", "coupons", "done", "answered", "refused"}}
Coupon(k) == shop.coupon[k]

\* What checkout writes to promotion_redemptions: a row per coupon, and one
\* for each other campaign (recordPromotionRedemptions).
LedgerTotal(b) ==
  b.coupon + SumFunctionOnSet(b.credit,
               Campaigns \ {Coupon(k).campaign : k \in ToSet(b.applied)})

TypeOK ==
  /\ shop \in Shops
  /\ {paused, running, ordered, newcomer} \subseteq BOOLEAN
  /\ redis \in [paused : BOOLEAN, running : BOOLEAN, live : SUBSET Codes]
  /\ live \subseteq Codes
  /\ usedByAll \in [Codes -> Nat] /\ usedByMe \in [Codes -> Nat]
  /\ changesLeft \in 0 .. ChangeBudget
  /\ guests \subseteq Previews
  /\ pc \in [Calls -> Stages]
  /\ sees \in [Calls -> [paused : BOOLEAN, bundles : BOOLEAN,
                        ordered : BOOLEAN, newcomer : BOOLEAN]]
  /\ \A c \in Calls :
       /\ {bill[c].afterAuto, bill[c].coupon, bill[c].remaining} \subseteq Nat
       /\ bill[c].applied \in Seq(Codes)
       /\ at[c] \in 1 .. Len(CodesToTry) + 1

(* A coupon takes its discount off the cart once, and no more than is left  *)
(* of the cart; none goes with "buy X get Y"; an order is not placed with   *)
(* one of its coupons left out (the loop over codesToTry), except that with *)
(* promotions paused all are, and that codes beyond max_coupons_per_order   *)
(* are not among them.                                                      *)
CouponsHonoured ==
  \A c \in Calls :
    LET b == bill[c]
    IN /\ b.coupon + b.remaining = b.afterAuto
       /\ \A i, j \in DOMAIN b.applied : b.applied[i] = b.applied[j] => i = j
       /\ b.applied # <<>> => ~Bxgy(b)
       /\ pc[c] \in {"done", "answered"} /\ c \notin Previews /\ ~sees[c].paused =>
            b.applied = CodesToTry

(* All that is taken off is accounted for, to the last minor unit: it is    *)
(* credited to campaigns (appliedPromotionDiscounts), and so is what the    *)
(* ledger gets while only coupons are on: the sale of a campaign whose      *)
(* coupon is used as well is left out of it.  And what a customer is shown  *)
(* adds up: all units at their price, less bundles, automatic offers and    *)
(* coupons, are the amount charged; this only for rewards that are free: a  *)
(* reward at a percentage off is not charged at all, and a weighed reward   *)
(* of an offer across products may be given in part                         *)
(* (refreshLinePayableTotals, discountForFreeUnits).                        *)
Accounted ==
  LET AllUnits(line) == Charge(line.unit, line.paid + line.free)
      whole(r) == /\ r.reward = "free"
                  /\ r.scope = "cross" => ~shop.shelf[r.rewarded].weighed
  IN \A c \in Priced :
       LET b == bill[c]
       IN /\ b.credit \in [Campaigns -> Nat]
          /\ SumFunction(b.credit) =
               SumFunction([i \in DOMAIN b.lines |-> b.lines[i].sale])
                 + b.bundle + b.auto + b.coupon
          /\ \A k \in Campaigns : b.credit[k] > 0 => k \in b.campaigns
          /\ shop.couponsOnly => LedgerTotal(b) = b.auto + b.coupon
          /\ (\A i \in DOMAIN shop.bundles : whole(shop.bundles[i])) =>
               Subtotal(c) = SumFunction([i \in DOMAIN b.lines |-> AllUnits(b.lines[i])])
                               - b.bundle - b.auto - b.coupon

(* A customer is told of every campaign that took something off by itself,  *)
(* or of a better one for the same category, of none that did not, and is   *)
(* not asked to buy more for an offer that took something off already: the  *)
(* offers are told from the rules (summarizeAutoCartOffers), the discounts  *)
(* come from campaigns that compete, share and are capped.                  *)
OffersToldTruly ==
  \A c \in Priced :
    LET b == bill[c]
        rulesOf(k) == {r \in ToSet(shop.autos) : r.campaign = k}
    IN /\ \A r \in b.told : b.given[r.campaign] > 0
       /\ \A k \in Campaigns : b.given[k] > 0 =>
            \E r \in b.told :
              \/ r.campaign = k
              \/ \E s \in rulesOf(k) : ForCategory(r) /\ ForCategory(s)
                                         /\ r.category = s.category
       /\ \A r \in b.ahead : rulesOf(r.campaign) = {r} => b.given[r.campaign] = 0

(* Offers meet only where the shop or the campaign lets them, by flags that *)
(* stay as they are while a cart is priced: a coupon and an automatic       *)
(* discount, a coupon for a category beside one, a coupon and the sale of   *)
(* another campaign (applyOneCoupon).                                       *)
StackingRespected ==
  \A c \in Calls :
    LET b == bill[c]
        sales == UNION {b.lines[i].campaigns : i \in DOMAIN b.lines}
    IN \A k \in ToSet(b.applied) :
         /\ b.auto > 0 => /\ shop.couponAfterAuto
                          /\ Coupon(k).afterAuto # "no"
         /\ b.auto > 0 /\ (\E r \in ToSet(Coupon(k).rules) :
                              r.kind = "category_percent_off") =>
              Flag(Coupon(k).stackCategory, shop.stackCategory)
         /\ sales # {} =>
              \/ Flag(Coupon(k).stackSku, shop.stackSku)
              \/ Coupon(k).campaign \in sales

(* Where one campaign only may apply, two of the same priority are told     *)
(* apart by the text of a time, which depends on where the rows came from.  *)
TieBreak ==
  /\ ~shop.combine
  /\ \E r, s \in ToSet(shop.autos) :
       /\ r.campaign # s.campaign
       /\ Priority(r) = Priority(s)

Undisturbed == changesLeft = ChangeBudget

\* A preview takes the lines as the client sends them, a checkout by their
\* ids.  Where what is left of the cart is shared out before a coupon for a
\* category, or units are given away, the order decides which line gets the
\* odd unit.
SameOrder(p, c) ==
  \/ Cart(p) = Cart(c)
  \/ /\ ~Bxgy(bill[p])
     /\ \/ bill[p].auto = 0 /\ Len(CodesToTry) <= 1
        \/ \A k \in ToSet(CodesToTry) : \A r \in ToSet(Coupon(k).rules) : ~ForCategory(r)

(* While nothing changes, a checkout that takes the items at all charges    *)
(* what the preview showed, where their order does not matter, at the unit  *)
(* prices of the product pages, or is refused for the reason it gave: a     *)
(* coupon (invalidCouponBehavior; where another coupon applied no reason is *)
(* given, and the coupon is missing) or the minimum purchase                *)
(* (formatStorefrontSummary and assertMinPurchaseMet).  The order holds the *)
(* units that were shown (orderLineQuantitiesFromPriced) but for rewards of *)
(* offers across products, and never fewer than the client asked for.       *)
ChargedAsShown ==
  LET fromAcross(product) ==
        \E r \in ToSet(shop.bundles) : r.scope = "cross" /\ r.rewarded = product
      same(row, other) ==
        /\ other.product = row.product
        /\ other.total = row.total
        /\ fromAcross(row.product) \/ other.quantity + other.offer = row.quantity
      page(product) == UnitShown(product, shop.shelf[product], shop.overlays,
                                 shop.overlap, ~shop.couponsOnly /\ ~paused)
  IN Undisturbed /\ ~TieBreak /\ BasketRefusal(shop.basket, shop.shelf) = "none" =>
       \A p \in Previews \ guests, c \in Calls \ Previews :
         /\ pc[p] = "answered" /\ pc[c] \in {"answered", "refused"}
         /\ SameOrder(p, c)
         =>
           LET shown == Answer(p)
               order == Order(c)
           IN /\ pc[c] = "answered" <=> shown.coupon.codes = CodesToTry /\ shown.missing = 0
              /\ shown.coupon.reason # "none" => bill[c].rejected = shown.coupon.reason
              /\ pc[c] = "answered" =>
                   /\ order.subtotal = shown.subtotal
                   /\ order.coupons = shown.coupon.codes
                   /\ \A product \in ToSet(AskedFor(shop.basket)) :
                        \E row \in ToSet(order.rows) :
                          /\ row.product = product
                          /\ row.quantity >= QuantityOf(shop.basket, product)
                   /\ \A row \in ToSet(order.rows) :
                        /\ \E other \in ToSet(shown.rows) : same(row, other)
                        /\ row.product \in ToSet(AskedFor(shop.basket)) =>
                             row.unit = page(row.product)

\* The listing ends before the coupon.
CutOff(p, k) ==
  LET ahead == AheadOf(live, shop.coupon, k)
  IN \/ Cardinality(ahead) >= RowCap
     \/ Cardinality({l \in ahead : Applicable(p, l)}) >= ListCap

(* A suggested coupon, at the moment it is suggested, is not refused for    *)
(* the customer, its limits or the amount of the cart.  A coupon that is    *)
(* left out although the customer may use it takes no more off, as far as   *)
(* the public benefits tell (categories and caps are not among them),       *)
(* unless the listing ends before it: RowCap valid coupons have a higher    *)
(* priority, whether they apply or not, or ListCap that apply, whatever     *)
(* they take off.  The conditions are stated twice, for the list            *)
(* (listApplicableCoupons) and for the price (applyOneCoupon).              *)
SuggestionsHold ==
  [][LET known(p) == /\ p \in Previews \ guests
                     /\ sees[p].ordered = ordered /\ sees[p].newcomer = newcomer
                     /\ redis.live = live
         alone(p) == [bill[p] EXCEPT !.remaining = bill[p].afterAuto]
         refusal(p, k) == RefusalOn(p, alone(p), k)
         told(k) == \A r \in ToSet(Coupon(k).rules) : ~ForCategory(r) /\ ~Given(r.cap)
     IN \A p \in Previews : known(p) =>
          \A k \in ToSet(suggested'[p]) \ ToSet(suggested[p]) :
            /\ refusal(p, k) \notin {"COUPON_NOT_FOUND", "FIRST_ORDER_ONLY_NOT_MET",
                                     "NEW_CUSTOMER_ONLY_NOT_MET", "MIN_SUBTOTAL_NOT_MET",
                                     "COUPON_EXHAUSTED"}
            /\ \A l \in Codes \ ToSet(suggested'[p]) :
                 told(k) /\ told(l) /\ refusal(p, l) = "none" /\ ~CutOff(p, l) =>
                   CouponDiscount(alone(p), l) <= CouponDiscount(alone(p), k)]_vars
=============================================================================
