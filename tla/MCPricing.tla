----------------------------- MODULE MCPricing -----------------------------
(* Small shops for TLC: three products, one of them by weight, a category   *)
(* inside another, up to two campaigns of a kind, up to four coupons.       *)
EXTENDS Pricing

MCCampaigns == 1 .. 4
MCCategories == {"food", "fruit", "other"}
MCParent == [c \in MCCategories |-> IF c = "fruit" THEN "food" ELSE "none"]
MCProducts == {"apple", "rice", "soap"}
MCCodes == {"K", "L", "M", "N"}

MCProductsById == <<"apple", "rice", "soap">>
MCCodesByName == <<"K", "L", "M", "N">>

Item(product, ticks) == [product |-> product, ticks |-> ticks]
Row(list, offer, category) ==
  [list |-> list, offer |-> offer, category |-> category, sellable |-> TRUE,
   weighed |-> category = "food"]
Shelf == [p \in MCProducts |->
            CASE p = "apple" -> Row(7, 5, "fruit")
              [] p = "rice"  -> Row(9, 0, "food")
              [] p = "soap"  -> Row(4, 0, "none")]

Rule(campaign, kind, number, threshold, cap) ==
  [campaign |-> campaign, kind |-> kind, threshold |-> threshold, cap |-> cap,
   bps |-> IF kind \in CartFixed THEN -1 ELSE number,
   amount |-> IF kind \in CartFixed THEN number ELSE -1,
   category |-> IF kind = "category_percent_off" THEN "food" ELSE "none",
   priority |-> 100, created |-> campaign, weekdayFirst |-> 9 - campaign,
   stackSku |-> "unset", stackSkuCategory |-> "unset"]

Third == Rule(1, "cart_percent_off", 3333, -1, -1)
Capped == Rule(1, "cart_percent_off", 5000, -1, 3)
OnFood == Rule(2, "category_percent_off", 1500, -1, -1)
TenOff == Rule(2, "cart_fixed_off_if_subtotal_above", 10, 12, -1)
First  == [Third EXCEPT !.priority = 50]
AllOff == Rule(2, "cart_fixed_off", 40, -1, -1)

Sale(product, campaign, price, priority) ==
  [product |-> product, campaign |-> campaign, price |-> price, priority |-> priority,
   created |-> campaign, mode |-> "unset"]
Bundle(campaign, scope, target, bought, rewarded, buy, get) ==
  [campaign |-> campaign, scope |-> scope, target |-> target, bought |-> bought,
   rewarded |-> rewarded, buy |-> buy, get |-> get, reward |-> "free", bps |-> -1,
   priority |-> 100, created |-> campaign]

Plain(campaign, rules) ==
  [exists |-> TRUE, campaign |-> campaign, rules |-> rules, hasProducts |-> FALSE,
   afterAuto |-> "unset", stackSku |-> "unset", stackCategory |-> "unset",
   firstOrderOnly |-> FALSE, newCustomerOnly |-> FALSE, minSubtotal |-> -1,
   totalLimit |-> -1, customerLimit |-> -1, priority |-> 100, created |-> campaign]
None == [Plain(4, <<>>) EXCEPT !.exists = FALSE]
Coupons(k, l) == [c \in MCCodes |-> CASE c = "K" -> k [] c = "L" -> l [] OTHER -> None]

Quarter == Plain(4, <<Rule(4, "cart_percent_off", 2500, -1, -1)>>)
Double == Plain(4, <<Rule(4, "cart_percent_off", 5000, -1, -1),
                     Rule(4, "cart_fixed_off", 25, -1, -1)>>)
FoodOff == Plain(4, <<Rule(4, "category_percent_off", 5000, -1, 6)>>)
FruitOff == Plain(4, <<[Rule(4, "category_percent_off", 4500, -1, -1)
                          EXCEPT !.category = "fruit"]>>)
FiveOff == Plain(3, <<Rule(3, "cart_fixed_off_if_subtotal_above", 5, 14, -1)>>)
Welcome == [Quarter EXCEPT !.firstOrderOnly = TRUE, !.newCustomerOnly = TRUE,
                           !.totalLimit = 1]
Scarce  == [FiveOff EXCEPT !.customerLimit = 1, !.minSubtotal = 14,
                           !.afterAuto = "yes"]
Useless == [Plain(4, <<>>) EXCEPT !.hasProducts = TRUE]
Empty   == Plain(4, <<>>)
Unknown == [Quarter EXCEPT !.exists = FALSE]

Base ==
  [couponsOnly |-> TRUE, basket |-> <<Item("apple", 8), Item("rice", 5)>>, shelf |-> Shelf,
   minimum |-> 0,
   overlays |-> <<>>, bundles |-> <<>>, autos |-> <<>>, overlap |-> "priority",
   combine |-> TRUE, couponAfterAuto |-> TRUE, stackSku |-> FALSE,
   stackSkuCategory |-> FALSE, stackCategory |-> FALSE, maxCoupons |-> 2,
   codes |-> <<"K", "L">>, coupon |-> Coupons(Quarter, FiveOff)]

\* Rows come by priority, then newest first.

\* Automatic offers and coupons, as the shop is run.
WithCoupons ==
  LET autos == {<<>>, <<Capped>>, <<OnFood, Third>>, <<First, TenOff, AllOff>>}
      coupons == {Coupons(Double, FiveOff), Coupons(FoodOff, Scarce),
                  Coupons(Welcome, Unknown), Coupons(Useless, Scarce),
                  Coupons(Empty, Welcome)}
      ways == {[one |-> TRUE, after |-> TRUE, max |-> 2],
               [one |-> FALSE, after |-> TRUE, max |-> 2],
               [one |-> FALSE, after |-> FALSE, max |-> 1]}
  IN {[Base EXCEPT !.autos = a, !.coupon = k, !.combine = w.one, !.couponAfterAuto = w.after,
                   !.maxCoupons = w.max, !.stackCategory = w.after] :
        a \in autos, k \in coupons, w \in ways}

\* Baskets as clients send them: in another order, a product twice, half a
\* piece, too much, nothing to be sold; a minimum that is met or is not.
Sent ==
  LET baskets == {<<Item("rice", 5), Item("apple", 8)>>,
                  <<Item("soap", 2), Item("apple", 4), Item("soap", 2)>>,
                  <<Item("apple", 6)>>,
                  <<Item("rice", 2), Item("apple", 4)>>,
                  <<Item("rice", 24), Item("rice", 24)>>}
      minima == {0, 12}
      coupons == {Coupons(FruitOff, Quarter), Coupons(Scarce, Quarter)}
  IN {[Base EXCEPT !.basket = s, !.minimum = m, !.autos = a, !.coupon = k,
                   !.codes = <<"K">>, !.stackCategory = TRUE] :
        s \in baskets, m \in minima, k \in coupons, a \in {<<>>, <<Third>>}}

Unsold == {[s EXCEPT !.shelf["apple"].sellable = FALSE] :
             s \in {t \in Sent : t.minimum = 0}}

\* Sales and bundles, as the shop is run when they are not paused.
OnSale ==
  LET sales == {<<Sale("apple", 1, 3, 5)>>,
                <<Sale("apple", 4, 4, 5), Sale("apple", 1, 3, 6)>>,
                <<Sale("apple", 2, 6, 5), Sale("rice", 1, 8, 5), Sale("rice", 4, 8, 5)>>}
  IN {[Base EXCEPT !.couponsOnly = FALSE, !.overlays = s, !.overlap = mode,
                   !.autos = <<OnFood, Third>>, !.stackSku = stack,
                   !.stackSkuCategory = TRUE, !.coupon = Coupons(FoodOff, FiveOff)] :
        s \in sales, mode \in {"priority", "best_for_customer"}, stack \in BOOLEAN}

Bundled ==
  LET same  == Bundle(1, "same", "apple", "none", "none", 2, 1)
      pool  == Bundle(2, "category", "food", "none", "none", 3, 2)
      cross == Bundle(3, "cross", "none", "apple", "soap", 1, 1)
      half  == [same EXCEPT !.reward = "percent_off_reward", !.bps = 5000, !.campaign = 2]
      bundles == {<<same>>, <<pool>>, <<cross>>, <<cross, pool, same>>, <<half, same>>}
      carts == {Base.basket, <<Item("apple", 4), Item("rice", 9), Item("soap", 4)>>}
      codes == {<<>>, <<"K">>}
  IN {[Base EXCEPT !.couponsOnly = FALSE, !.bundles = b, !.basket = c, !.codes = k,
                   !.combine = one, !.autos = <<Third>>] :
        b \in bundles, c \in carts, k \in codes, one \in BOOLEAN}

\* Offers across products whose rewards the cart holds in part, rewards that
\* cost nothing, and two coupons for a category, in the order of the client.
Reversed ==
  LET cross == Bundle(3, "cross", "none", "apple", "soap", 1, 1)
      pool  == Bundle(2, "category", "food", "none", "none", 2, 1)
      partly == <<Item("soap", 4), Item("apple", 8)>>
  IN {[Base EXCEPT !.couponsOnly = FALSE, !.bundles = b, !.basket = partly, !.autos = a] :
        b \in {<<cross>>, <<pool>>}, a \in {<<>>, <<Third>>}}
     \cup
     {[Base EXCEPT !.couponsOnly = FALSE, !.bundles = <<pool>>, !.autos = <<Third>>,
                   !.shelf["apple"].list = 0, !.basket = <<Item("rice", 9), Item("apple", 8)>>]}
     \cup
     {[Base EXCEPT !.basket = <<Item("soap", 4), Item("rice", 5), Item("apple", 6)>>,
                   !.coupon = Coupons(k, l), !.stackCategory = TRUE] :
        k \in {FoodOff, FiveOff}, l \in {FruitOff, Quarter}}

SoldOut == {[s EXCEPT !.shelf["soap"].sellable = FALSE] :
              s \in {t \in Bundled : t.codes = <<>> /\ ~t.combine}}

\* More coupons than a listing has room for: the best last, one that does not
\* apply first, some that fill up.
Crowded ==
  LET small == Plain(3, <<Rule(3, "cart_fixed_off", 1, -1, -1)>>)
      large == [Plain(1, <<Rule(1, "cart_fixed_off", 9, -1, -1)>>) EXCEPT !.priority = 200]
      dear == [small EXCEPT !.minSubtotal = 90]
      last == [FiveOff EXCEPT !.customerLimit = 1]
      four(k, l, m, n) == [c \in MCCodes |-> CASE c = "K" -> k [] c = "L" -> l
                                               [] c = "M" -> m [] c = "N" -> n]
  IN {[Base EXCEPT !.coupon = k, !.codes = <<"K">>] :
        k \in {four(small, last, Quarter, large), four(small, dear, dear, large),
               four(large, last, small, None), four(dear, large, last, small)}}

MCShops == Crowded \cup WithCoupons \cup Sent \cup Unsold \cup OnSale \cup Bundled \cup Reversed \cup SoldOut
=============================================================================
