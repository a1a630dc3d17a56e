------------------------- MODULE MCStorefrontCatalog -------------------------
(* A shop with food above fruit and bread, and products in some of them.    *)
EXTENDS StorefrontCatalog

MCParent == [c \in Categories |-> IF c = "food" THEN None ELSE "food"]
MCPrice == [p \in Products |-> IF p = 1 THEN 2 ELSE 1]

Section(type, products, categories, buys, gets) ==
  [type |-> type, products |-> products, categories |-> categories,
   buys |-> buys, gets |-> gets, starts |-> 0, ends |-> MaxTime, deleted |-> FALSE]

MCSections ==
  "shelf" :> Section("product_shelf", <<1>>, {"food"}, <<>>, <<>>)
  @@ "event" :> [Section("event_shelf", <<2, 2, 3>>, {"fruit"}, <<>>, <<>>) EXCEPT !.ends = MaxTime - 1]
  @@ "late"  :> [Section("event_shelf", <<>>, {"bread"}, <<>>, <<>>) EXCEPT !.starts = MaxTime]
  @@ "deals" :> Section("buy_x_get_y", <<>>, {}, <<1>>, <<2>>)

MCRules == {[buy |-> 1, get |-> 2]}

Row(sale, category, created) == [sale |-> sale, category |-> category, created |-> created]
Kept == {"in_stock", "out_of_stock"}

(* A list starts from any creation times; browsing from any categories; the *)
(* home page from any stock.                                                *)
MCStarts(k) ==
  CASE k = "pages" ->
         {[rows |-> [p \in Products |-> Row("in_stock", "fruit", t[p])], hidden |-> {}] :
            t \in {t \in [Products -> 0..(MaxTime - 1)] : t[4] \in {0, 2}}}
    [] k = "categories" ->
         {[rows |-> [p \in Products |->
             IF p > 2 THEN Row("in_stock", "food", 0) ELSE Row(a[p], c[p], 1)], hidden |-> h] :
            a \in [1..2 -> Kept], c \in [1..2 -> Categories \cup {None}], h \in {{}, {"fruit"}}}
    [] OTHER ->
         {[rows |-> [p \in Products |-> Row(a[p], IF p = 2 THEN "bread" ELSE "fruit", IF p = 4 THEN 0 ELSE 1)],
           hidden |-> {}] : a \in {a \in [Products -> Kept] : a[4] = "in_stock"}}

ListQuery == [category |-> None, descend |-> FALSE, all |-> FALSE,
              sort |-> "created_at", asc |-> FALSE, byOffset |-> FALSE]
MCQueries(k) ==
  CASE k = "pages" ->
         {ListQuery, [ListQuery EXCEPT !.asc = TRUE],
          [ListQuery EXCEPT !.sort = "price"],
          [ListQuery EXCEPT !.sort = "price", !.byOffset = TRUE, !.all = TRUE],
          [ListQuery EXCEPT !.byOffset = TRUE, !.category = "food"]}
    [] k = "categories" ->
         {[ListQuery EXCEPT !.category = c] : c \in {None, "food"}}
           \cup {[ListQuery EXCEPT !.descend = TRUE]}
    [] k = "home" -> {ListQuery}
    [] OTHER -> {[section |-> s] : s \in {"shelf", "event", "late", "gone"}}
=============================================================================
