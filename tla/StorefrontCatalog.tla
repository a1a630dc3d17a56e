------------------------- MODULE StorefrontCatalog -------------------------
(***************************************************************************)
(* One customer's request for a part of the catalogue, and the edits the   *)
(* shop makes meanwhile in the back office.  A request is one of           *)
(*   "pages"       GET /storefront/products, page after page               *)
(*   "categories"  GET /storefront/categories                              *)
(*   "home"        GET /storefront/home-sections                           *)
(*   "event"       GET /storefront/home-sections/:id, the /events link     *)
(* and takes several SQL statements, each on a connection of its own and   *)
(* without a transaction: every statement is a step that sees the edits    *)
(* committed before it.  Requests only read, so one of them is enough.     *)
(***************************************************************************)
EXTENDS Naturals, FiniteSets, Sequences, SequencesExt

CONSTANTS
  Products,      \* ids, compared as the UUIDs of the code are
  Categories,
  None,          \* no category: the parent of a root, a product without one
  Parent,        \* [Categories -> Categories \cup {None}]
  Price,         \* [Products -> Nat]: the baseline unit price, a sort key
  Sections,      \* the home sections of the shop: [id -> record]
  Rules,         \* the buy-one-get-one rules there are: [buy, get]
  Starts(_),     \* the catalogues a request of a kind may start from
  Queries(_),    \* the parameters a request of a kind may have
  Limit,         \* products of a page
  LevelLimit,    \* categories listed below a parent, 500 of them
  TreeLimit,     \* categories listed when all are asked for, 5000 of them
  ShelfCap,      \* STOREFRONT_SHELF_PRODUCT_CAP
  Milli,         \* microseconds of a millisecond
  MaxTime,       \* bound on the clock, in microseconds
  EditBudget,    \* bound on the edits of the shop
  StatementFaults \* bound on the statements that fail

Kinds == {"pages", "categories", "home", "event"}
Sales == {"in_stock", "out_of_stock", "archived"}

ASSUME CatalogAssumption ==
  /\ Products \subseteq Nat /\ IsFiniteSet(Products)
  /\ Parent \in [Categories -> Categories \cup {None}]
  /\ Price \in [Products -> Nat]
  /\ None \notin Categories /\ None \notin [t : Nat, id : Products]
  /\ {Limit, LevelLimit, TreeLimit, ShelfCap, Milli} \subseteq Nat \ {0}
  /\ MaxTime \in Nat \ {0, 1}
  /\ {EditBudget, StatementFaults} \subseteq Nat

\* What the schema of a request lets through, and the rows there can be.
ASSUME RequestsAssumption ==
  /\ \A q \in Queries("pages") :
       /\ q.category \in Categories \cup {None}
       /\ q.sort \in {"created_at", "price"}
       /\ {q.descend, q.all, q.asc, q.byOffset} \subseteq BOOLEAN
  /\ \A k \in Kinds : \A start \in Starts(k) :
       /\ start.hidden \subseteq Categories
       /\ start.rows \in [Products -> [sale : Sales, category : Categories \cup {None},
                                       created : Nat]]

ASSUME SectionsAssumption ==
  \A s \in DOMAIN Sections :
    /\ Sections[s].products \in Seq(Products)
    /\ Sections[s].categories \subseteq Categories

VARIABLES
  rows,      \* shop_products: [sale, category, created]; no row yet: created = 0
  hidden,    \* categories inactive, private to another shop or hidden
  enabled,   \* home sections enabled
  active,    \* the rules active; none while promotions are paused
  now,       \* now() of the database and Date.now()
  edits, faults,
  kind, query, pc,
  cursor, offset, seen, marks,               \* "pages"
  ids,                                       \* "categories"
  plan, fillers, failed, fetched, shown, deals, \* "home" and "event"
  answer,
  steady,    \* ghost: products offered since the request began, not edited
  quiet      \* ghost: nothing was edited since

shopVars  == <<rows, hidden, enabled, active, now, edits>>
pageVars  == <<cursor, offset, seen, marks>>
shelfVars == <<plan, fillers, failed, fetched, shown, deals>>
ghosts    == <<steady, quiet>>
catalogVars == <<shopVars, faults, kind, query, pc, pageVars, ids, shelfVars, answer, ghosts>>

----------------------------------------------------------------------------
(* Categories and what a statement selects.                                *)

(* A category and all above it: what every set has that holds the category  *)
(* and the parents of its members.                                          *)
Lineage ==
  [c \in Categories |->
     {d \in Categories : \A up \in SUBSET Categories :
        c \in up /\ (\A e \in up : Parent[e] # None => Parent[e] \in up) => d \in up}]
Tree(c) == {d \in Categories : c \in Lineage[d]}
Stocked == {p \in Products : rows[p].created > 0}
Sellable(p) == p \in Stocked /\ rows[p].sale = "in_stock"
Visible(c) == c \notin hidden

Available(q, p) ==
  /\ p \in Stocked /\ rows[p].sale # "archived"
  /\ q.all \/ rows[p].sale = "in_stock"

(* Mutant: has_direct counts products whatever their availability.         *)
AnyDirectProduct(q) ==
  IF q.descend THEN Tree(q.category)
  ELSE IF \E p \in Stocked : rows[p].category = q.category
       THEN {q.category}
       ELSE Tree(q.category) \ {q.category}

(* effective_categories: a category without products of its own lists those *)
(* below it; with include_descendants both.                                 *)
EffectiveCategories(q) ==
  IF q.descend THEN Tree(q.category)
  ELSE IF \E p \in Products : Available(q, p) /\ rows[p].category = q.category
       THEN {q.category}
       ELSE Tree(q.category) \ {q.category}

Matching(q) ==
  LET within == IF q.category = None THEN Categories \cup {None} ELSE EffectiveCategories(q)
  IN  {p \in Products : Available(q, p) /\ rows[p].category \in within}

(* What the response carries of created_at: a JavaScript date.             *)
ToMillis(t) == (t \div Milli) * Milli

Precedes(q, p, r) ==
  LET Key(x) == IF q.sort = "price" THEN Price[x] ELSE rows[x].created
  IN  \/ q.asc /\ Key(p) < Key(r)
      \/ ~q.asc /\ Key(p) > Key(r)
      \/ Key(p) = Key(r) /\ (IF q.sort = "price" \/ q.asc THEN p < r ELSE p > r)

(* Mutant: the cursor compares created_at alone.                           *)
TimeCursor(q, p) ==
  \/ cursor = None
  \/ IF q.asc THEN rows[p].created > cursor.t ELSE rows[p].created < cursor.t

(* Mutant: the condition of the cursor is only there for the default order. *)
DefaultOrderCursor(q, p) ==
  \/ q.asc
  \/ cursor = None
  \/ rows[p].created < cursor.t
  \/ rows[p].created = cursor.t /\ p < cursor.id

AfterCursor(q, p) ==
  \/ cursor = None
  \/ q.asc /\ rows[p].created > cursor.t
  \/ ~q.asc /\ rows[p].created < cursor.t
  \/ rows[p].created = cursor.t /\ (IF q.asc THEN p > cursor.id ELSE p < cursor.id)

Behind(q) == {p \in Matching(q) : AfterCursor(q, p)}
Ahead(q, line, p) == Cardinality({r \in line : Precedes(q, r, p)})

(* LIMIT lim OFFSET offset, or LIMIT lim + 1 behind the cursor, whose last  *)
(* row only tells that there is more.                                       *)
PageRows(q) ==
  IF q.byOffset
  THEN {p \in Matching(q) : Ahead(q, Matching(q), p) \in offset .. offset + Limit - 1}
  ELSE {p \in Behind(q) : Ahead(q, Behind(q), p) < Limit}

LastOf(q, page) == CHOOSE p \in page : \A r \in page \ {p} : Precedes(q, r, p)

NextCursor(q, page) ==
  IF ~q.byOffset /\ Behind(q) \ page # {}
  THEN LET p == LastOf(q, page) IN [t |-> ToMillis(rows[p].created), id |-> p]
  ELSE None

SellableCategoryIds ==
  UNION {Lineage[rows[p].category] : p \in {p \in Products : Sellable(p) /\ rows[p].category # None}}

(* getCategoryBySlugStorefront and getProductBySlugStorefront find it.     *)
CategoryPage(c) == Visible(c) /\ \E p \in Products : Sellable(p) /\ rows[p].category \in Tree(c)
ProductPage(p) == Sellable(p)
----------------------------------------------------------------------------
(* Home sections.                                                          *)

InDate(s) == Sections[s].starts <= now /\ now <= Sections[s].ends
IsShelf(s) == Sections[s].type # "buy_x_get_y"
Shelves == {s \in plan : IsShelf(s)}

(* What LIMIT n leaves of rows whose order is not modelled: any n of them.  *)
Cuts(all, n) ==
  {F \in SUBSET all : Cardinality(F) = (IF Cardinality(all) < n THEN Cardinality(all) ELSE n)}

(* Mutant: a shelf takes the products of its categories, not of those      *)
(* below them.                                                             *)
DirectExpansions(s) ==
  Cuts({p \in Products : Sellable(p) /\ rows[p].category \in Sections[s].categories}, ShelfCap)

(* The products of the categories of a shelf, the most recently updated    *)
(* ShelfCap of them: updated_at is not modelled, so any of that number.    *)
Expansions(s) ==
  Cuts({p \in Products : /\ Sellable(p)
                         /\ \E c \in Sections[s].categories : rows[p].category \in Tree(c)},
       ShelfCap)

(* mergeShelfProductIds: the explicit products, each once and sellable or   *)
(* not, and then fillers, up to the cap.  The fillers' order is not modelled. *)
Explicit(s) ==
  LET line == Sections[s].products
      UpTo(i) == {line[j] : j \in 1..i}
  IN  {line[i] : i \in {i \in DOMAIN line : Cardinality(UpTo(i)) <= ShelfCap}}
Merges(s) ==
  {Explicit(s) \cup F :
     F \in Cuts(fillers[s] \ Explicit(s), ShelfCap - Cardinality(Explicit(s)))}

Wanted(merged) ==
  UNION {IF IsShelf(s) THEN merged[s] ELSE ToSet(Sections[s].buys) \cup ToSet(Sections[s].gets) :
           s \in plan}
CategoryRows == UNION {fillers[s] : s \in Shelves}

(* buildBxgyDealsForSection: the rules between the section's products, or  *)
(* deals made up from the section when no rule fits.                        *)
Deals(s, have, rules) ==
  LET buys == ToSet(Sections[s].buys)
      gets == ToSet(Sections[s].gets)
      fitting == {r \in rules :
        /\ {r.buy, r.get} \subseteq have
        /\ IF r.buy = r.get
           THEN buys \cup gets = {} \/ r.buy \in buys \cup gets
           ELSE (buys = {} \/ r.buy \in buys) /\ (gets = {} \/ r.get \in gets)}
      buyLine == SelectSeq(Sections[s].buys, LAMBDA p : p \in have)
      getLine == SelectSeq(Sections[s].gets, LAMBDA p : p \in have)
      sameSku == gets = {} \/ (Len(Sections[s].buys) = Len(Sections[s].gets) /\ buys \subseteq gets)
  IN  IF fitting # {} THEN fitting
      ELSE IF sameSku
      THEN {[buy |-> p, get |-> p] : p \in ToSet(IF buyLine = <<>> THEN getLine ELSE buyLine)}
      ELSE {[buy |-> buyLine[i], get |-> getLine[i]] : i \in DOMAIN buyLine \cap DOMAIN getLine}

(* loadListingContext: a failing read means no rules.                      *)
RulesRead(failing) == IF failing THEN {} ELSE active

EventStatus(s) ==
  CASE s \notin DOMAIN Sections  -> "not_found"
    [] Sections[s].deleted        -> "deleted"
    [] Sections[s].type # "event_shelf" -> "wrong_type"
    [] s \notin enabled           -> "disabled"
    [] Sections[s].starts > now   -> "scheduled"
    [] Sections[s].ends < now     -> "expired"
    [] OTHER                      -> "resolve"
----------------------------------------------------------------------------
Offered == IF kind = "pages" THEN Matching(query) ELSE {p \in Products : Sellable(p)}

CatalogInit ==
  /\ kind \in Kinds
  /\ query \in Queries(kind)
  /\ \E start \in Starts(kind) : rows = start.rows /\ hidden = start.hidden
  /\ enabled = DOMAIN Sections /\ active = Rules /\ now = MaxTime - 1
  /\ edits = 0 /\ faults = 0
  /\ pc = "read"
  /\ cursor = None /\ offset = 0 /\ seen = [p \in Products |-> 0] /\ marks = {}
  /\ ids = {}
  /\ plan = {} /\ fillers = <<>> /\ failed = {} /\ fetched = {} /\ shown = <<>> /\ deals = <<>>
  /\ answer = {}
  /\ steady = Offered /\ quiet = TRUE

Stay == UNCHANGED <<shopVars, kind, query, ghosts>>

(* listProducts, followed from page to page.  A cursor answered for another *)
(* order than created_at is refused when it comes back.  With an offset the *)
(* customer asks on until a page is not full.  A first page from the cache  *)
(* is a page read at an earlier moment, by a customer slow to go on.        *)
ListProducts ==
  /\ kind = "pages" /\ pc = "read"
  /\ Stay /\ UNCHANGED <<faults, ids, shelfVars, answer>>
  /\ IF cursor # None /\ query.sort # "created_at"
     THEN pc' = "refused" /\ UNCHANGED pageVars
     ELSE LET page == PageRows(query)
          IN  /\ seen' = [p \in Products |->
                            IF p \in page /\ seen[p] < 2 THEN seen[p] + 1 ELSE seen[p]]
              /\ cursor' = NextCursor(query, page)
              /\ marks' = IF cursor' = None THEN marks ELSE marks \cup {cursor'.id}
              /\ offset' = IF query.byOffset /\ Cardinality(page) = Limit
                           THEN offset + Limit ELSE offset
              /\ pc' = IF cursor' # None \/ offset' # offset THEN "read" ELSE "done"

(* listCategories: the categories that lead to a sellable product, and then *)
(* those of them below the parent asked for (or all).                       *)
ListSellableIds ==
  /\ kind = "categories" /\ pc = "read"
  /\ ids' = SellableCategoryIds
  /\ pc' = IF ids' = {} THEN "done" ELSE "list"
  /\ Stay /\ UNCHANGED <<faults, pageVars, shelfVars, answer>>

Asked(c) == query.descend \/ Parent[c] = query.category
CategoryLimit == IF query.descend THEN TreeLimit ELSE LevelLimit

ListCategories ==
  /\ kind = "categories" /\ pc = "list"
  /\ answer' \in Cuts({c \in ids : Visible(c) /\ Asked(c)}, CategoryLimit)
  /\ pc' = "done"
  /\ Stay /\ UNCHANGED <<faults, pageVars, ids, shelfVars>>

(* The sections of a home page, or the section of an event link.           *)
ListSections ==
  /\ kind = "home" /\ pc = "read"
  /\ plan' = {s \in enabled : InDate(s) /\ ~Sections[s].deleted}
  /\ pc' = IF plan' = {} THEN "done" ELSE "expand"
  /\ Stay /\ UNCHANGED <<faults, pageVars, ids, fillers, failed, fetched, shown, deals, answer>>

LookupEvent ==
  /\ kind = "event" /\ pc = "read"
  /\ LET status == EventStatus(query.section)
     IN  IF status = "resolve"
         THEN plan' = {query.section} /\ pc' = "expand" /\ UNCHANGED answer
         ELSE answer' = {status} /\ pc' = "done" /\ UNCHANGED plan
  /\ Stay /\ UNCHANGED <<faults, pageVars, ids, fillers, failed, fetched, shown, deals>>

WithFillers(s, F) == [x \in DOMAIN fillers \cup {s} |-> IF x = s THEN F ELSE fillers[x]]

(* loadCategoryProductsBySection: one statement per shelf with categories, *)
(* all at once; one that fails leaves its shelf without fillers.           *)
Expand(s) ==
  /\ pc = "expand" /\ s \in Shelves \ DOMAIN fillers
  /\ \/ /\ \E F \in Expansions(s) : fillers' = WithFillers(s, F)
        /\ UNCHANGED <<failed, faults>>
     \/ /\ Sections[s].categories # {} /\ faults < StatementFaults
        /\ fillers' = WithFillers(s, {})
        /\ failed' = failed \cup {s} /\ faults' = faults + 1
  /\ Stay /\ UNCHANGED <<pc, pageVars, ids, plan, fetched, shown, deals, answer>>

(* The products the fillers' rows do not already give, by id.              *)
FetchProducts ==
  /\ pc = "expand" /\ Shelves \subseteq DOMAIN fillers
  /\ \E merged \in [Shelves -> SUBSET Products] :
       /\ \A s \in Shelves : merged[s] \in Merges(s)
       /\ shown' = merged
       /\ fetched' = {p \in Wanted(merged) \ CategoryRows : Sellable(p)}
  /\ pc' = "fetched"
  /\ Stay /\ UNCHANGED <<faults, pageVars, ids, plan, fillers, failed, deals, answer>>

(* The promotions, and then the answer: a shelf shows what is wanted and   *)
(* has a row; an empty one is left out.                                    *)
Assemble ==
  /\ pc = "fetched"
  /\ LET have == Wanted(shown) \cap (CategoryRows \cup fetched)
         full == [s \in Shelves |-> shown[s] \cap have]
         bundles == {s \in plan : ~IsShelf(s)}
     IN  /\ shown' = full
         /\ \E failing \in BOOLEAN :
              /\ failing => faults < StatementFaults /\ have # {}
              /\ faults' = IF failing THEN faults + 1 ELSE faults
              /\ deals' = [s \in bundles |-> Deals(s, have, RulesRead(failing))]
         /\ answer' = IF kind = "home"
                      THEN {s \in plan : IsShelf(s) => full[s] # {}}
                      ELSE {IF full[query.section] = {} THEN "empty" ELSE "ok"}
  /\ pc' = "done"
  /\ Stay /\ UNCHANGED <<pageVars, ids, plan, fillers, failed, fetched>>

(* Any other statement that fails fails the request.                       *)
StatementFails ==
  /\ pc \notin {"done", "refused", "failed"} /\ faults < StatementFaults
  /\ faults' = faults + 1 /\ pc' = "failed"
  /\ Stay /\ UNCHANGED <<pageVars, ids, shelfVars, answer>>
----------------------------------------------------------------------------
(* The back office: what is written by the programs that share the         *)
(* database.  A request sees nothing of an edit to a table it does not     *)
(* read: the guards on kind leave those out.                               *)

Edited(touched) ==
  /\ pc \notin {"done", "refused", "failed"} /\ edits < EditBudget
  /\ edits' = edits + 1
  /\ UNCHANGED <<kind, query, faults, pc, pageVars, ids, shelfVars, answer>>
  /\ steady' = (steady \ touched) \cap Offered'
  /\ quiet' = FALSE

ImportProducts(S) ==   \* one transaction: one created_at
  /\ S # {} /\ S \cap Stocked = {}
  /\ rows' = [p \in Products |-> IF p \in S THEN [rows[p] EXCEPT !.created = now] ELSE rows[p]]
  /\ UNCHANGED <<hidden, enabled, active, now>> /\ Edited(S)

SetSale(p, sale) ==
  /\ p \in Stocked /\ sale # rows[p].sale
  /\ rows' = [rows EXCEPT ![p].sale = sale]
  /\ UNCHANGED <<hidden, enabled, active, now>> /\ Edited({p})

MoveProduct(p, c) ==
  /\ kind = "pages" => query.category # None
  /\ p \in Stocked /\ c # rows[p].category
  /\ rows' = [rows EXCEPT ![p].category = c]
  /\ UNCHANGED <<hidden, enabled, active, now>> /\ Edited({p})

ToggleCategory(c) ==
  /\ kind = "categories"
  /\ hidden' = (hidden \ {c}) \cup ({c} \ hidden)
  /\ UNCHANGED <<rows, enabled, active, now>> /\ Edited({})

ToggleSection(s) ==
  /\ kind \in {"home", "event"}
  /\ enabled' = (enabled \ {s}) \cup ({s} \ enabled)
  /\ UNCHANGED <<rows, hidden, active, now>> /\ Edited({})

ToggleRule(r) ==
  /\ kind = "home"
  /\ active' = (active \ {r}) \cup ({r} \ active)
  /\ UNCHANGED <<rows, hidden, enabled, now>> /\ Edited({})

Tick ==
  /\ kind # "categories" /\ pc = "read" /\ now < MaxTime /\ now' = now + 1
  /\ UNCHANGED <<rows, hidden, enabled, active, edits, faults, kind, query, pc, pageVars, ids,
                 shelfVars, answer, ghosts>>

Shop ==
  \/ \E S \in SUBSET Products : ImportProducts(S)
  \/ \E p \in Products, sale \in Sales : SetSale(p, sale)
  \/ \E p \in Products, c \in Categories : MoveProduct(p, c)
  \/ \E c \in Categories : ToggleCategory(c)
  \/ \E s \in DOMAIN Sections : ToggleSection(s)
  \/ \E r \in Rules : ToggleRule(r)
  \/ Tick

Request ==
  \/ ListProducts
  \/ ListSellableIds \/ ListCategories
  \/ ListSections \/ LookupEvent
  \/ \E s \in DOMAIN Sections : Expand(s)
  \/ FetchProducts \/ Assemble
  \/ StatementFails

CatalogNext == Request \/ Shop
CatalogSpec == CatalogInit /\ [][CatalogNext]_catalogVars
----------------------------------------------------------------------------
CatalogTypeOK ==
  /\ rows \in [Products -> [sale : Sales, category : Categories \cup {None}, created : Nat]]
  /\ hidden \subseteq Categories /\ enabled \subseteq DOMAIN Sections /\ active \subseteq Rules
  /\ now \in 1 .. MaxTime /\ edits \in 0 .. EditBudget /\ faults \in 0 .. StatementFaults
  /\ kind \in Kinds /\ query \in Queries(kind)
  /\ pc \in {"read", "list", "expand", "fetched", "done", "refused", "failed"}
  /\ cursor \in {None} \cup [t : Nat, id : Products] /\ offset \in Nat
  /\ seen \in [Products -> 0 .. 2] /\ marks \subseteq Products
  /\ ids \subseteq Categories
  /\ plan \subseteq DOMAIN Sections /\ failed \subseteq plan /\ fetched \subseteq Products
  /\ DOMAIN fillers \subseteq Shelves /\ \A s \in DOMAIN fillers : fillers[s] \subseteq Products
  /\ \A s \in DOMAIN shown : shown[s] \subseteq Products
  /\ steady \subseteq Products /\ quiet \in BOOLEAN

(* r ended a page, its created_at was cut, and p is of the same millisecond. *)
NextToACut(p) ==
  \E r \in marks : LET t == rows[r].created
                   IN  t % Milli # 0 /\ t \div Milli = rows[p].created \div Milli

(* Following the cursor of a product list while the shop works on its      *)
(* catalogue visits every product that stays listed, and none twice.  The  *)
(* one exception comes from created_at having microseconds and a date of   *)
(* JavaScript milliseconds: next to the last product of a page, those of   *)
(* its millisecond are left out in descending order and come again in      *)
(* ascending order.  Pages by offset are exact only while nothing changes. *)
(* (buildListProductsStorefrontQuery and the cursor of listProducts)       *)
PagesComplete ==
  kind = "pages" =>
    /\ ~query.byOffset =>
         \A p \in Products :
           /\ seen[p] > 1 => query.asc /\ NextToACut(p)
           /\ (pc = "done" /\ p \in steady /\ seen[p] = 0) => ~query.asc /\ NextToACut(p)
    /\ (query.byOffset /\ quiet /\ pc = "done") =>
         \A p \in Products : seen[p] = IF p \in Matching(query) THEN 1 ELSE 0

(* The queries behind browsing agree: with the catalogue left alone, the   *)
(* categories listed are those whose own page is found, up to the LIMIT of *)
(* the list, each of them lists at least one product, and the page of      *)
(* every product it lists is found.                                        *)
(* (listCategoryIdsWithSellableProducts, listCategoriesStorefront,         *)
(* getCategoryBySlugStorefront, listProductsStorefront)                    *)
BrowsingAgrees ==
  (kind = "categories" /\ pc = "done" /\ quiet) =>
    /\ answer \in Cuts({c \in Categories : Asked(c) /\ CategoryPage(c)}, CategoryLimit)
    /\ \A c \in answer :
         LET inside == Matching([category |-> c, descend |-> FALSE, all |-> FALSE])
         IN  inside # {} /\ \A p \in inside : ProductPage(p)

(* A shelf is missing from the home page, or an event answered "empty",    *)
(* although one of its products was sellable throughout, only when that    *)
(* product came from a category and the statement for the categories       *)
(* failed, or the explicit products, sold out all of them, fill the shelf. *)
(* (resolveStorefrontHomeSections, mergeShelfProductIds)                   *)
ShelvesJustified ==
  (kind \in {"home", "event"} /\ pc = "done" /\ plan # {}) =>
    \A s \in Shelves :
      shown[s] = {} =>
        \A p \in steady :
          /\ p \notin Explicit(s)
          /\ (\E c \in Sections[s].categories : rows[p].category # None
                                               /\ c \in Lineage[rows[p].category])
               => s \in failed \/ Cardinality(Explicit(s)) = ShelfCap
=============================================================================
