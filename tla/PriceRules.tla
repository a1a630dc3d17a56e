----------------------------- MODULE PriceRules -----------------------------
(***************************************************************************)
(* The arithmetic of prices: catalogue and sale prices of a unit, rewards  *)
(* of "buy X get Y" offers, automatic offers on the cart, coupons.         *)
(*                                                                         *)
(* Amounts are in minor units and quantities in ticks (a tick is what the  *)
(* code rounds a weight to: 1/10000 of a unit); a field that is null in a  *)
(* row is -1 here.  Rows are records and lists of rows sequences in the    *)
(* order the query returns them.                                           *)
(***************************************************************************)
EXTENDS Integers, Sequences, SequencesExt

CONSTANTS
  Ticks,       (* ticks of a whole unit (10000 in the code)                *)
  Campaigns,   (* ids of promotions, in the order ids sort                 *)
  Categories,
  NoCategory,
  Parent       (* parent of a category, NoCategory at the top              *)

ASSUME PriceRulesAssumption ==
  /\ Ticks \in Nat \ {0}
  /\ Campaigns \subseteq Nat /\ IsFiniteSet(Campaigns)
  /\ NoCategory \notin Categories
  /\ Parent \in [Categories -> Categories \cup {NoCategory}]

RoundDiv(a, b) == (2 * a + b) \div (2 * b)    (* Math.round(a / b)         *)
NonNegative(x) == IF x \in Nat THEN x ELSE 0
Least(a, b) == IF a <= b THEN a ELSE b
Given(x) == x >= 0

\* The members of a sequence at some of its places, in their order.
Those(s, places) ==
  FoldLeftDomain(LAMBDA kept, i : IF i \in places THEN Append(kept, s[i]) ELSE kept, <<>>, s)

Nothing == [c \in Campaigns |-> 0]
Plus(f, g) == [c \in Campaigns |-> f[c] + g[c]]
Only(c, amount) == [Nothing EXCEPT ![c] = amount]

-----------------------------------------------------------------------------
(* Prices of a unit and of a line.                                          *)

Baseline(p) == IF p.offer > 0 /\ p.offer < p.list THEN p.offer ELSE p.list

OverlapMode(sales, default) ==
  LET modes == {s.mode : s \in sales} \ {"unset"}
  IN IF Cardinality(modes) = 1 THEN CHOOSE m \in modes : TRUE ELSE default

\* A lower number is a higher priority; the newest campaign wins a tie.
SaleBefore(s, t, mode) ==
  IF mode = "best_for_customer"
  THEN \/ s.price < t.price
       \/ s.price = t.price /\ s.campaign < t.campaign
  ELSE \/ s.priority < t.priority
       \/ s.priority = t.priority /\ s.created > t.created
       \/ /\ s.priority = t.priority
          /\ s.created = t.created
          /\ s.campaign < t.campaign

WinningSale(sales, default) ==
  CHOOSE s \in sales : \A t \in sales \ {s} :
    SaleBefore(s, t, OverlapMode(sales, default))

\* The sale of a product on sale is credited to the first row of its price.
SaleOf(product, overlays, default) ==
  LET rows == {i \in DOMAIN overlays : overlays[i].product = product}
      price == WinningSale({overlays[i] : i \in rows}, default).price
      first == Min({i \in rows : overlays[i].price = price})
  IN IF rows = {} THEN {} ELSE {[price |-> price, campaign |-> overlays[first].campaign]}

Charge(unit, ticks) == RoundDiv(unit * ticks, Ticks)
Quantity(item) ==
  IF item.weighed THEN item.ticks ELSE (item.ticks \div Ticks) * Ticks

\* sale is a set: empty, or the one sale the product is in.
PricedLine(item, p, sale) ==
  LET unit == IF sale = {} THEN Baseline(p) ELSE (CHOOSE s \in sale : TRUE).price
  IN [product |-> item.product, category |-> p.category, unit |-> unit,
      paid |-> Quantity(item), free |-> 0,
      campaigns |-> {s.campaign : s \in sale},
      sale |-> Charge(NonNegative(Baseline(p) - unit), Quantity(item))]

Payable(line) == Charge(line.unit, line.paid)
Amounts(lines) ==
  [i \in DOMAIN lines |-> [amount |-> Payable(lines[i]), category |-> lines[i].category]]
SaleCredit(lines) ==
  [c \in Campaigns |->
     SumFunction([i \in DOMAIN lines |-> IF c \in lines[i].campaigns THEN lines[i].sale ELSE 0])]

-----------------------------------------------------------------------------
(* Buy X get Y.                                                             *)

\* A category and all above it: what every set has that holds the category
\* and is closed under parents.
Above(category) ==
  {c \in Categories : \A up \in SUBSET Categories :
     (/\ category \in up
      /\ \A d \in up : Parent[d] \in Categories => Parent[d] \in up)
     => c \in up}

MatchesCategory(category, ruled) == category \in Categories /\ ruled \in Above(category)

PaidOf(lines, product) ==
  SumFunction([i \in DOMAIN lines |->
                 IF lines[i].product = product THEN lines[i].paid ELSE 0])
UnitsOf(lines, product) ==
  SumFunction([i \in DOMAIN lines |->
                 IF lines[i].product = product THEN lines[i].paid \div Ticks ELSE 0])

\* Rewards of offers across two products that the cart should hold and does
\* not: planCrossRewardInjections.
MissingRewards(lines, bundles) ==
  LET missing(r) == (UnitsOf(lines, r.bought) \div r.buy) * r.get
                      - UnitsOf(lines, r.rewarded)
      lacks(r) == /\ r.scope = "cross"
                  /\ r.bought # r.rewarded
                  /\ UnitsOf(lines, r.bought) >= r.buy
                  /\ missing(r) > 0
      rules == Those(bundles, {i \in DOMAIN bundles : lacks(bundles[i])})
  IN [i \in DOMAIN rules |-> [product |-> rules[i].rewarded,
                              ticks |-> missing(rules[i]) * Ticks,
                              weighed |-> FALSE]]

\* Per line: the ticks a rule gives for nothing (or at a percentage off).
FreeTicks(lines, r) ==
  LET sets(paid) == (paid \div (r.buy * Ticks)) * r.get
      \* what is left of all when others took theirs
      left(all, taken) == NonNegative(all - SumFunction(taken))
      matches(i) == MatchesCategory(lines[i].category, r.target)
      slots(i) == IF matches(i) THEN (lines[i].paid + Ticks - 1) \div Ticks ELSE 0
      cheaper(i) == {j \in DOMAIN lines :
                       \/ lines[j].unit < lines[i].unit
                       \/ lines[j].unit = lines[i].unit /\ j < i}
      pool == sets(SumFunction([i \in DOMAIN lines |-> IF matches(i) THEN lines[i].paid ELSE 0]))
      rewards(i) == IF lines[i].product = r.rewarded THEN lines[i].paid ELSE 0
  IN [i \in DOMAIN lines |->
        CASE r.scope = "same" ->
               IF lines[i].product = r.target THEN sets(lines[i].paid) * Ticks ELSE 0
          [] r.scope = "category" ->
               Least(slots(i), left(pool, [j \in cheaper(i) |-> slots(j)])) * Ticks
          [] r.scope = "cross" ->
               Least(rewards(i), left(sets(PaidOf(lines, r.bought)) * Ticks,
                                      [j \in 1 .. i - 1 |-> rewards(j)]))]

RewardValue(r, unit, ticks) ==
  LET base == unit * (ticks \div Ticks)
  IN CASE r.reward = "free" -> base
       [] r.reward = "percent_off_reward" /\ r.bps > 0 ->
            RoundDiv(base * Least(10000, r.bps), 10000)
       [] OTHER -> 0

\* Rewards across products are taken out of what the cart holds, the others
\* come on top of it.
ApplyBundle(given, r) ==
  LET free == FreeTicks(given.lines, r)
      value == SumFunction([i \in DOMAIN given.lines |->
                              RewardValue(r, given.lines[i].unit, free[i])])
  IN [lines |-> [i \in DOMAIN given.lines |->
                   [given.lines[i] EXCEPT !.free = @ + free[i],
                                          !.paid = IF r.scope = "cross" THEN @ - free[i]
                                                   ELSE @]],
      discount |-> given.discount + value,
      credit |-> Plus(given.credit, Only(r.campaign, value))]

SameScope(r, s) ==
  /\ r.scope = s.scope
  /\ IF r.scope = "cross" THEN r.campaign = s.campaign ELSE r.target = s.target

\* One rule per product, category or campaign.
OnePerScope(bundles) ==
  LET before(j, i) == \/ bundles[j].priority < bundles[i].priority
                      \/ /\ bundles[j].priority = bundles[i].priority
                         /\ \/ bundles[j].created > bundles[i].created
                            \/ bundles[j].created = bundles[i].created /\ j < i
      wins(i) == \A j \in DOMAIN bundles \ {i} :
                   SameScope(bundles[i], bundles[j]) => before(i, j)
  IN Those(bundles, {i \in DOMAIN bundles : wins(i)})

EvaluateBundles(lines, bundles, combine) ==
  FoldLeft(ApplyBundle, [lines |-> lines, discount |-> 0, credit |-> Nothing],
           IF combine THEN bundles ELSE OnePerScope(bundles))

-----------------------------------------------------------------------------
(* Rules on the cart: of automatic offers and of coupons.  Lines are here   *)
(* pairs of an amount and a category.                                       *)

CartPercent == {"cart_percent_off", "cart_percent_off_if_subtotal_above"}
CartFixed   == {"cart_fixed_off", "cart_fixed_off_if_subtotal_above"}
Conditional == {"cart_percent_off_if_subtotal_above", "cart_fixed_off_if_subtotal_above"}

RuleDiscount(r, subtotal, lines) ==
  LET capped(d) == IF Given(r.cap) THEN Least(d, r.cap) ELSE d
      percentOf(base) == capped(RoundDiv(base * r.bps, 10000))
      inCategory == SumFunction([i \in DOMAIN lines |->
                      IF MatchesCategory(lines[i].category, r.category)
                      THEN lines[i].amount ELSE 0])
      reached == r.kind \in Conditional => subtotal >= r.threshold
  IN CASE r.kind \in CartPercent /\ reached /\ r.bps \in 0 .. 10000 ->
            percentOf(subtotal)
       [] r.kind \in CartFixed /\ reached /\ Given(r.amount) ->
            capped(Least(r.amount, subtotal))
       [] r.kind = "category_percent_off" /\ r.bps \in 0 .. 10000 -> percentOf(inCategory)
       [] OTHER -> 0

RulesDiscount(rules, subtotal, lines) ==
  NonNegative(SumFunction([i \in DOMAIN rules |-> RuleDiscount(rules[i], subtotal, lines)]))

CartTotal(lines) == SumFunction([i \in DOMAIN lines |-> lines[i].amount])

\* Line amounts after an offer on the whole cart took its part.
ScaleLinesToPayable(lines, target) ==
  LET sum == CartTotal(lines)
      share(i) == Least(lines[i].amount, RoundDiv(lines[i].amount * target, sum))
      before == SumFunction([i \in 1 .. Len(lines) - 1 |-> share(i)])
  IN IF sum <= 0 \/ target >= sum THEN lines
     ELSE [i \in DOMAIN lines |->
             [lines[i] EXCEPT !.amount = IF i < Len(lines) THEN share(i)
                                         ELSE NonNegative(target - before)]]

\* The code reads priority 0 as none given.
Priority(r) == IF r.priority = 0 THEN 100 ELSE r.priority

\* created is the text of the time: from Redis it is ISO and sorts by time,
\* from PostgreSQL it is a Date, whose text begins with the name of the
\* weekday.
Strength(r, fromRedis, discount) ==
  [campaign |-> r.campaign, priority |-> Priority(r),
   created |-> IF fromRedis THEN r.created ELSE r.weekdayFirst, discount |-> discount]

\* Campaigns with something to give, in the order of their first rows.
Scored(rules, subtotal, lines, fromRedis) ==
  LET rowsOf(c) == {i \in DOMAIN rules : rules[i].campaign = c}
      discount(c) == RulesDiscount(Those(rules, rowsOf(c)), subtotal, lines)
      gives(i) == /\ \A j \in 1 .. i - 1 : rules[j].campaign # rules[i].campaign
                  /\ discount(rules[i].campaign) > 0
      firsts == Those(rules, {i \in DOMAIN rules : gives(i)})
  IN [n \in DOMAIN firsts |-> Strength(firsts[n], fromRedis, discount(firsts[n].campaign))]

Strongest(scored) ==
  LET before(i, j) == \/ scored[i].priority < scored[j].priority
                      \/ /\ scored[i].priority = scored[j].priority
                         /\ \/ scored[i].created > scored[j].created
                            \/ scored[i].created = scored[j].created /\ i < j
      first == CHOOSE i \in DOMAIN scored :
                 \A j \in DOMAIN scored \ {i} : before(i, j)
  IN IF scored = <<>> THEN <<>> ELSE <<scored[first]>>

\* Mutant: the last one's share is rounded down too.
ShareFloored(winners, total, capped, i) ==
  IF capped = total THEN winners[i].discount
  ELSE (winners[i].discount * capped) \div total

\* Shares of winners whose discounts exceed the cart; the last takes the rest.
Share(winners, total, capped, i) ==
  LET floor(j) == (winners[j].discount * capped) \div total
  IN CASE capped = total -> winners[i].discount
       [] capped # total /\ i < Len(winners) -> floor(i)
       [] OTHER -> NonNegative(capped - SumFunction([j \in 1 .. i - 1 |-> floor(j)]))

Winners(rules, lines, combine, fromRedis) ==
  LET scored == Scored(rules, CartTotal(lines), lines, fromRedis)
  IN CASE CartTotal(lines) <= 0 -> <<>>
       [] CartTotal(lines) > 0 /\ combine -> scored
       [] OTHER -> Strongest(scored)

TakeOff(b, winners, total, capped, after) ==
  [b EXCEPT !.auto = capped,
            !.afterAuto = after,
            !.remaining = after,
            !.campaigns = @ \cup {winners[i].campaign : i \in DOMAIN winners},
            !.credit = [c \in Campaigns |-> @[c] +
              SumFunction([i \in DOMAIN winners |->
                IF winners[i].campaign = c THEN Share(winners, total, capped, i) ELSE 0])]]

EvaluateAutoCartRules(b, winners) ==
  LET subtotal == CartTotal(Amounts(b.lines))
      total  == SumFunction([i \in DOMAIN winners |-> winners[i].discount])
      capped == Least(total, NonNegative(subtotal))
  IN TakeOff(b, winners, total, capped, NonNegative(subtotal - capped))

-----------------------------------------------------------------------------
(* Coupons.                                                                 *)

Flag(ofCampaign, ofShop) == IF ofCampaign = "unset" THEN ofShop ELSE ofCampaign = "yes"

\* Why a coupon that passed every check takes nothing off.
ZeroDiscount(rules, subtotal) ==
  IF \E i \in DOMAIN rules : rules[i].kind \in Conditional /\ rules[i].threshold > subtotal
  THEN "COUPON_RULE_SUBTOTAL_NOT_MET"
  ELSE IF \E i \in DOMAIN rules : rules[i].kind = "category_percent_off"
       THEN "COUPON_NO_MATCHING_ITEMS" ELSE "COUPON_NOT_APPLICABLE"

\* The first pair <<reason, whether it applies>> that applies.
FirstReason(pairs) ==
  LET i == SelectInSeq(pairs, LAMBDA p : p[2])
  IN IF i = 0 THEN "none" ELSE pairs[i][1]
=============================================================================
