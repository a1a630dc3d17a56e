------------------------------ MODULE Baskets ------------------------------
(***************************************************************************)
(* From the items a client sends to the lines that are priced, and from a  *)
(* priced cart to what the client is told besides its price.               *)
(*                                                                         *)
(* Carts live in the client.  A preview takes what it can of the items,    *)
(* in the order they came; a checkout takes all of them or none, in the    *)
(* order of the products' ids.  Items passed the schema of the request: a  *)
(* product and a quantity above zero, at most the cap of a line.           *)
(***************************************************************************)
EXTENDS PriceRules, FiniteSets

CONSTANTS
  ProductsById,    (* the products, in the order their ids sort            *)
  CodesByName,     (* the codes of coupons, in the order they sort         *)
  LineCap,         (* MAX_LINE_QUANTITY, in ticks                          *)
  SuggestionCap,   (* coupons a preview suggests at most (3 in the code)   *)
  ListCap,         (* coupons the listing gives a preview at most (20)     *)
  RowCap           (* rows the listing reads for that at most (50)         *)

Products == ToSet(ProductsById)

ASSUME BasketsAssumption ==
  /\ ProductsById \in Seq(Products)
  /\ \A i, j \in DOMAIN ProductsById : ProductsById[i] = ProductsById[j] => i = j
  /\ LineCap \in Nat \ {0}
  /\ {SuggestionCap, ListCap, RowCap} \subseteq Nat \ {0}

-----------------------------------------------------------------------------
(* Items and lines.                                                         *)

QuantityOf(basket, product) ==
  SumFunction([i \in DOMAIN basket |->
                 IF basket[i].product = product THEN basket[i].ticks ELSE 0])

AskedFor(basket) ==
  LET products == [i \in DOMAIN basket |-> basket[i].product]
  IN Those(products, {i \in DOMAIN basket : \A j \in 1 .. i - 1 : products[j] # products[i]})

LinesFor(products, basket, shelf) ==
  [i \in DOMAIN products |->
     [product |-> products[i],
      ticks   |-> QuantityOf(basket, products[i]),
      weighed |-> shelf[products[i]].weighed]]

LiveProducts(products, shelf) ==
  Those(products, {i \in DOMAIN products : shelf[products[i]].sellable})

\* Products that cannot be sold are left out, and nothing is said of it.
PreviewCart(basket, shelf) ==
  LinesFor(LiveProducts(AskedFor(basket), shelf), basket, shelf)

CheckoutCart(basket, shelf) ==
  LET asked == {i \in DOMAIN ProductsById : ProductsById[i] \in ToSet(AskedFor(basket))}
  IN LinesFor(Those(ProductsById, asked), basket, shelf)

\* Why a checkout does not take the items.
BasketRefusal(basket, shelf) ==
  LET asked == ToSet(AskedFor(basket))
      fraction(p) == ~shelf[p].weighed /\ QuantityOf(basket, p) % Ticks # 0
  IN FirstReason(<<
       <<"LINE_QUANTITY_CAP", \E p \in asked : QuantityOf(basket, p) > LineCap>>,
       <<"PRODUCT_UNAVAILABLE", \E p \in asked : ~shelf[p].sellable>>,
       <<"INVALID_QUANTITY", \E p \in asked : fraction(p)>> >>)

-----------------------------------------------------------------------------
(* Prices on the pages of products.                                         *)

\* While only coupons are on, or promotions are paused, sales are not read.
UnitShown(product, row, overlays, overlap, readsSales) ==
  LET sale == IF readsSales THEN SaleOf(product, overlays, overlap) ELSE {}
  IN IF sale = {} THEN Baseline(row) ELSE (CHOOSE s \in sale : TRUE).price

-----------------------------------------------------------------------------
(* What a preview shows and an order holds of the lines that were priced.   *)

\* Mutant: the units that come on top are left out.
QuantitiesPaid(paid, free, ticks) ==
  [paid |-> IF paid > 0 THEN paid ELSE ticks, free |-> free,
   quantity |-> IF paid > 0 THEN paid ELSE ticks]

\* Where nothing is paid for, the order restores the quantity of the cart.
OrderQuantities(paid, free, ticks) ==
  LET charged == IF paid > 0 THEN paid ELSE ticks
  IN [paid |-> charged, free |-> free, quantity |-> charged + free]

OrderRow(line, ticks) ==
  LET units == OrderQuantities(line.paid, line.free, ticks)
  IN [product |-> line.product, unit |-> line.unit, total |-> Payable(line),
      paid |-> units.paid, free |-> units.free, quantity |-> units.quantity]

\* A reward the pricing added has no quantity in the cart: its own is taken.
InjectedRow(line) == OrderRow(line, line.paid + line.free)

OrderRows(lines, cart) ==
  [i \in DOMAIN lines |-> IF i \in DOMAIN cart THEN OrderRow(lines[i], cart[i].ticks)
                          ELSE InjectedRow(lines[i])]

ShownRow(line, quantity) ==
  [product |-> line.product, quantity |-> quantity, offer |-> line.free,
   unit |-> line.unit, total |-> Payable(line)]

ShownRows(lines, cart) ==
  [i \in DOMAIN lines |->
     ShownRow(lines[i], IF i \in DOMAIN cart THEN Quantity(cart[i]) ELSE lines[i].paid)]

\* Of several coupons, one that failed is not told while another applied.
CouponBlock(asked, applied, rejected) ==
  [codes |-> applied,
   reason |-> CASE applied # <<>> \/ asked = <<>> -> "none"
                [] applied = <<>> /\ asked # <<>> /\ rejected # "none" -> rejected
                [] OTHER -> "COUPON_NOT_APPLICABLE"]

-----------------------------------------------------------------------------
(* What the client is told of automatic offers.                             *)

\* A rule is told as applied if it takes something off and its campaign did.
Applies(r, given, subtotal, lines) ==
  given[r.campaign] > 0 /\ RuleDiscount(r, subtotal, lines) > 0

ForCategory(r) == r.kind = "category_percent_off"

\* Mutant: a rule is told before its campaign is asked for.
OffersReached(rules, given, subtotal, lines) ==
  {r \in ToSet(rules) : RuleDiscount(r, subtotal, lines) > 0}

\* One row for each category, of the rule that takes most, and one for each
\* campaign and kind of rule on the whole cart.
OffersTold(rules, given, subtotal, lines) ==
  LET applied == {r \in ToSet(rules) : Applies(r, given, subtotal, lines)}
      bestOf(r) == \A s \in applied :
        ForCategory(s) /\ s.category = r.category =>
          RuleDiscount(s, subtotal, lines) <= RuleDiscount(r, subtotal, lines)
  IN {r \in applied : ForCategory(r) => bestOf(r)}

\* What the customer may still reach: an offer on a category none of whose
\* offers applied, a threshold the cart is below.
OffersAhead(rules, given, subtotal, lines) ==
  LET sameCategory(r) == {s \in ToSet(rules) : ForCategory(s) /\ s.category = r.category}
  IN {r \in ToSet(rules) :
        \/ /\ ForCategory(r) /\ r.bps > 0
           /\ \A s \in sameCategory(r) : ~Applies(s, given, subtotal, lines)
        \/ /\ r.kind \in Conditional /\ subtotal < r.threshold
           /\ ~Applies(r, given, subtotal, lines)}

-----------------------------------------------------------------------------
(* Suggested coupons.                                                       *)

\* Rows of coupons come by the priority of their campaigns, the newest first,
\* then by code.
ListedBefore(coupon, k, l) ==
  \/ coupon[k].priority < coupon[l].priority
  \/ /\ coupon[k].priority = coupon[l].priority
     /\ \/ coupon[k].created > coupon[l].created
        \/ /\ coupon[k].created = coupon[l].created
           /\ \E i, j \in DOMAIN CodesByName :
                i < j /\ CodesByName[i] = k /\ CodesByName[j] = l

\* Those of the codes that are listed before one of them, and the first n.
AheadOf(codes, coupon, k) == {l \in codes : ListedBefore(coupon, l, k)}
FirstListed(codes, coupon, n) == {k \in codes : Cardinality(AheadOf(codes, coupon, k)) < n}

\* The public benefits of a coupon leave out its caps and its categories.
Benefit(r) ==
  [kind |-> r.kind, threshold |-> r.threshold, bps |-> r.bps, amount |-> r.amount,
   cap |-> -1]
PublicBenefits(rules) ==
  Those([i \in DOMAIN rules |-> Benefit(rules[i])],
        {i \in DOMAIN rules : rules[i].kind # "category_percent_off"})

Estimate(coupon, subtotal) ==
  Least(subtotal, RulesDiscount(PublicBenefits(coupon.rules), subtotal, <<>>))

\* The coupons that would take most off, by their codes among equals: the
\* n-th has n - 1 before it.
Ranked(codes, coupon, subtotal) ==
  LET inOrder == Those(CodesByName, {i \in DOMAIN CodesByName : CodesByName[i] \in codes})
      worth(i) == Estimate(coupon[inOrder[i]], subtotal)
      before(i, j) == worth(i) > worth(j) \/ (worth(i) = worth(j) /\ i < j)
      rank(i) == Cardinality({j \in DOMAIN inOrder : before(j, i)})
  IN [n \in 1 .. Least(SuggestionCap, Len(inOrder)) |->
        inOrder[CHOOSE i \in DOMAIN inOrder : rank(i) = n - 1]]
=============================================================================
