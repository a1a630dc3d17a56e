----------------------- MODULE StorefrontReadsProofs -----------------------
(***************************************************************************)
(* Proofs about what a customer reads: the order history with the          *)
(* courier's status pulled into it (OrderTracking), the catalogue with the *)
(* home sections (StorefrontCatalog), and the caches in front of them      *)
(* (CatalogCache).  The three have no state in common; Spec, Inv and the   *)
(* like are those of OrderTracking, the names of the catalogue begin with  *)
(* Catalog and those of the caches with Cache.                             *)
(*                                                                         *)
(* Orders: what a view may write follows from what it read and from what   *)
(* shop and courier have said by then.                                     *)
(* Catalogue: an invariant for each kind of request relates what its       *)
(* statements found so far to the products that were offered all along.    *)
(* Caches: an entry is never older than its generation; while generations  *)
(* can be read and bumped a request never gets what an invalidation that   *)
(* was answered before it was about; and an entry is filled by one reader, *)
(* one more for each lock that lapsed, and those that waited in vain.      *)
(***************************************************************************)
EXTENDS OrderTracking, StorefrontCatalog, CatalogCache,
        FiniteSetTheorems, WellFoundedInduction, TLAPS

(* What the courier stands for has been said.                               *)
CourierHeard == \A o \in Orders : Mapped(o) # "none" => Mapped(o) \in said[o]

(* An order a view asks about, or is going to write, was not at its end     *)
(* when the view read it.                                                   *)
ReadBeforeEnd ==
  \A v \in Viewers, o \in Orders :
    o \in waiting[v] \/ upgrade[v][o] # "none" =>
      v \in viewing /\ read[v][o] \in Statuses \ Final

(* What a view is going to write has been said.                             *)
UpgradesSaid ==
  \A v \in Viewers, o \in Orders :
    upgrade[v][o] # "none" => upgrade[v][o] \in said[o]

Inv == /\ TypeOK
       /\ StatusJustified
       /\ CourierHeard
       /\ ReadBeforeEnd
       /\ UpgradesSaid

-----------------------------------------------------------------------------
(* TERMINAL of the sync is the set of statuses ORDER_STATUS_TRANSITIONS      *)
(* leaves no way out of.                                                    *)
LEMMA TerminalIsFinal == Terminal = Final /\ Terminal \subseteq Statuses
BY DEF Terminal, Final, Transitions, Statuses

(* The map of the courier's words lands in the order statuses.              *)
LEMMA MappedType ==
  ASSUME NEW o \in Orders, courier[o] \in Stations
  PROVE  Mapped(o) \in Statuses \cup {"none"}
BY DEF Mapped, Stations, Statuses

(* The domain allows changes into order statuses only.                      *)
LEMMA TransitionsType ==
  ASSUME NEW s \in Statuses
  PROVE  Transitions(s) \subseteq Statuses
BY DEF Transitions, Statuses

LEMMA InitInv == Init => Inv
<1> SUFFICES ASSUME Init PROVE Inv
  OBVIOUS
<1>1. TypeOK
  BY OrderTrackingAssumption DEF Init, TypeOK, Statuses, Stations, NoStatus
<1>2. StatusJustified /\ CourierHeard /\ ReadBeforeEnd /\ UpgradesSaid
  BY DEF Init, StatusJustified, CourierHeard, ReadBeforeEnd, UpgradesSaid, Mapped, NoStatus
<1> QED
  BY <1>1, <1>2 DEF Inv

-----------------------------------------------------------------------------
(* Starting a view: it asks only about orders not at their end.             *)
LEMMA StartViewInv ==
  ASSUME Inv, NEW v \in Viewers, NEW S \in SUBSET Orders, StartView(v, S)
  PROVE  Inv'
<1>1. TypeOK'
  BY DEF Inv, TypeOK, StartView, Candidates
<1>2. StatusJustified' /\ CourierHeard' /\ UpgradesSaid'
  BY DEF Inv, StatusJustified, CourierHeard, UpgradesSaid, StartView, Mapped
<1>3. ReadBeforeEnd'
  <2> SUFFICES ASSUME NEW w \in Viewers, NEW o \in Orders,
                      o \in waiting'[w] \/ upgrade'[w][o] # "none"
               PROVE  w \in viewing' /\ read'[w][o] \in Statuses \ Final
    BY DEF ReadBeforeEnd
  <2>1. CASE w # v
    BY <2>1 DEF Inv, TypeOK, ReadBeforeEnd, StartView
  <2>2. CASE w = v
    <3>1. upgrade[v][o] = "none"
      BY DEF Inv, ReadBeforeEnd, StartView
    <3>2. o \in Candidates(S)
      BY <3>1, <2>2 DEF Inv, TypeOK, StartView
    <3>3. read'[v][o] = status[o]
      BY <3>2 DEF Inv, TypeOK, StartView
    <3> QED
      BY <2>2, <3>2, <3>3, TerminalIsFinal DEF Inv, TypeOK, StartView, Candidates
  <2> QED
    BY <2>1, <2>2
<1> QED
  BY <1>1, <1>2, <1>3 DEF Inv

(* An answer of the courier becomes an upgrade it has stood for.            *)
LEMMA FetchInv ==
  ASSUME Inv, NEW v \in Viewers, NEW o \in Orders, Fetch(v, o)
  PROVE  Inv'
<1>1. Resolve(v, o) \in Statuses \cup {"none"}
  BY MappedType DEF Inv, TypeOK, Resolve
<1>2. Resolve(v, o) # "none" => Resolve(v, o) \in said[o]
  BY DEF Inv, CourierHeard, Resolve
<1>3. v \in viewing /\ read[v][o] \in Statuses \ Final
  BY DEF Inv, ReadBeforeEnd, Fetch
<1>4. TypeOK'
  BY <1>1 DEF Inv, TypeOK, Fetch
<1>5. StatusJustified' /\ CourierHeard'
  BY DEF Inv, StatusJustified, CourierHeard, Fetch, Mapped
<1>6. ReadBeforeEnd'
  BY <1>3 DEF Inv, TypeOK, ReadBeforeEnd, Fetch
<1>7. UpgradesSaid'
  BY <1>2 DEF Inv, TypeOK, UpgradesSaid, Fetch
<1> QED
  BY <1>4, <1>5, <1>6, <1>7 DEF Inv

(* A fetch that fails leaves nothing to write.                              *)
LEMMA FetchFailsInv ==
  ASSUME Inv, NEW v \in Viewers, NEW o \in Orders, FetchFails(v, o)
  PROVE  Inv'
<1>1. TypeOK'
  BY OrderTrackingAssumption DEF Inv, TypeOK, FetchFails, Strikes
<1>2. StatusJustified' /\ CourierHeard' /\ UpgradesSaid'
  BY DEF Inv, StatusJustified, CourierHeard, UpgradesSaid, FetchFails, Mapped
<1>3. ReadBeforeEnd'
  BY DEF Inv, TypeOK, ReadBeforeEnd, FetchFails
<1> QED
  BY <1>1, <1>2, <1>3 DEF Inv

(* An update writes what had been said of the order.                        *)
LEMMA UpdateInv ==
  ASSUME Inv, NEW v \in Viewers, NEW o \in Orders, Update(v, o)
  PROVE  Inv'
<1>1. upgrade[v][o] # "none" /\ upgrade[v][o] \in said[o] /\ upgrade[v][o] \in Statuses
  BY DEF Inv, TypeOK, UpgradesSaid, Update, NextPending, Pending
<1>2. TypeOK'
  BY <1>1 DEF Inv, TypeOK, Update
<1>3. StatusJustified'
  BY <1>1 DEF Inv, TypeOK, StatusJustified, Update
<1>4. CourierHeard'
  BY DEF Inv, CourierHeard, Update, Mapped
<1>5. ReadBeforeEnd' /\ UpgradesSaid'
  BY DEF Inv, TypeOK, ReadBeforeEnd, UpgradesSaid, Update
<1> QED
  BY <1>2, <1>3, <1>4, <1>5 DEF Inv

(* A view that is over leaves nothing behind.                               *)
LEMMA LeaveInv ==
  ASSUME Inv, NEW v \in Viewers, waiting[v] = {}, Leave(v),
         faultsLeft' \in 0 .. FaultBudget
  PROVE  Inv'
<1>1. TypeOK'
  BY DEF Inv, TypeOK, Leave, NoStatus
<1>2. StatusJustified' /\ CourierHeard'
  BY DEF Inv, StatusJustified, CourierHeard, Leave, Mapped
<1>3. ReadBeforeEnd'
  BY DEF Inv, TypeOK, ReadBeforeEnd, Leave, NoStatus
<1>4. UpgradesSaid'
  BY DEF Inv, TypeOK, UpgradesSaid, Leave, NoStatus
<1> QED
  BY <1>1, <1>2, <1>3, <1>4 DEF Inv

(* The shop says what it writes.                                            *)
LEMMA ShopMovesInv ==
  ASSUME Inv, NEW o \in Orders, ShopMoves(o)
  PROVE  Inv'
<1>1. PICK to \in Transitions(status[o]) :
        /\ status' = [status EXCEPT ![o] = to]
        /\ said' = [said EXCEPT ![o] = @ \cup {to}]
  BY DEF ShopMoves
<1>2. to \in Statuses
  BY TransitionsType DEF Inv, TypeOK
<1>3. TypeOK'
  BY <1>1, <1>2 DEF Inv, TypeOK, ShopMoves, view
<1>4. \A p \in Orders : said[p] \subseteq said'[p]
  BY <1>1 DEF Inv, TypeOK
<1>5. StatusJustified'
  BY <1>1 DEF Inv, TypeOK, StatusJustified
<1>6. CourierHeard' /\ UpgradesSaid'
  BY <1>4 DEF Inv, CourierHeard, UpgradesSaid, ShopMoves, Mapped, view
<1>7. ReadBeforeEnd'
  BY DEF Inv, ReadBeforeEnd, ShopMoves, view
<1> QED
  BY <1>3, <1>5, <1>6, <1>7 DEF Inv

(* The courier's next station is said with its status.                      *)
LEMMA CourierMovesInv ==
  ASSUME Inv, NEW o \in Orders, CourierMoves(o)
  PROVE  Inv'
<1>1. PICK s \in {"moving", "delivered", "cancelled"} :
        courier' = [courier EXCEPT ![o] = s]
  BY DEF CourierMoves
<1>2. courier'[o] = s
  BY <1>1 DEF Inv, TypeOK
<1> DEFINE t == CASE s = "moving"    -> "out_for_delivery"
                  [] s = "delivered" -> "delivered"
                  [] s = "cancelled" -> "cancelled"
<1>3. said' = [said EXCEPT ![o] = @ \cup {t}]
  BY <1>2 DEF CourierMoves
<1>4. t \in Statuses /\ Mapped(o)' = t
  BY <1>2 DEF Statuses, Mapped
<1> HIDE DEF t
<1>5. TypeOK'
  BY <1>1, <1>3, <1>4 DEF Inv, TypeOK, Stations, CourierMoves, view
<1>6. \A p \in Orders : said[p] \subseteq said'[p]
  BY <1>3 DEF Inv, TypeOK
<1>7. CourierHeard'
  <2> SUFFICES ASSUME NEW p \in Orders, Mapped(p)' # "none"
               PROVE  Mapped(p)' \in said'[p]
    BY DEF CourierHeard
  <2>1. CASE p = o
    BY <2>1, <1>3, <1>4 DEF Inv, TypeOK
  <2>2. CASE p # o
    <3>1. courier'[p] = courier[p]
      BY <1>1, <2>2 DEF Inv, TypeOK
    <3>2. Mapped(p)' = Mapped(p)
      BY <3>1 DEF Mapped
    <3> QED
      BY <1>6, <3>2 DEF Inv, CourierHeard
  <2> QED
    BY <2>1, <2>2
<1>8. StatusJustified' /\ ReadBeforeEnd' /\ UpgradesSaid'
  BY <1>6 DEF Inv, StatusJustified, ReadBeforeEnd, UpgradesSaid, CourierMoves, view
<1> QED
  BY <1>5, <1>7, <1>8 DEF Inv

-----------------------------------------------------------------------------
(* The list and the detail page are views of some of the orders.            *)
LEMMA ViewsAreOfOrders ==
  ASSUME NEW v \in Viewers, ListOrders(v) \/ OpenOrder(v)
  PROVE  \E S \in SUBSET Orders : StartView(v, S)
<1>1. CASE ListOrders(v)
  <2>1. PICK limit \in 1 .. ListCap : StartView(v, Newest(limit))
    BY <1>1 DEF ListOrders
  <2>2. Newest(limit) \in SUBSET Orders
    BY DEF Newest
  <2> QED
    BY <2>1, <2>2
<1>2. CASE OpenOrder(v)
  BY <1>2 DEF OpenOrder
<1> QED
  BY <1>1, <1>2

LEMMA NextInv == Inv /\ [Next]_vars => Inv'
<1> SUFFICES ASSUME Inv, [Next]_vars PROVE Inv'
  OBVIOUS
<1>1. ASSUME NEW v \in Viewers, NEW o \in Orders, Fetch(v, o) PROVE Inv'
  BY <1>1, FetchInv
<1>2. ASSUME NEW v \in Viewers, NEW o \in Orders, Update(v, o) PROVE Inv'
  BY <1>2, UpdateInv
<1>3. ASSUME NEW v \in Viewers, EndView(v) PROVE Inv'
  <2>1. faultsLeft' \in 0 .. FaultBudget
    BY <1>3 DEF EndView, Inv, TypeOK
  <2> QED
    BY <1>3, <2>1, LeaveInv DEF EndView
<1>4. ASSUME NEW v \in Viewers, NEW S \in SUBSET Orders, StartView(v, S) PROVE Inv'
  BY <1>4, StartViewInv
<1>5. ASSUME NEW v \in Viewers, NEW o \in Orders, FetchFails(v, o) PROVE Inv'
  BY <1>5, FetchFailsInv
<1>6. ASSUME NEW v \in Viewers, UpdateFails(v) PROVE Inv'
  <2>1. faultsLeft' \in 0 .. FaultBudget
    BY <1>6, OrderTrackingAssumption DEF UpdateFails, Strikes, Inv, TypeOK
  <2> QED
    BY <1>6, <2>1, LeaveInv DEF UpdateFails
<1>7. ASSUME NEW o \in Orders, ShopMoves(o) PROVE Inv'
  BY <1>7, ShopMovesInv
<1>8. ASSUME NEW o \in Orders, CourierMoves(o) PROVE Inv'
  BY <1>8, CourierMovesInv
<1>9. CASE UNCHANGED vars
  BY <1>9 DEF vars, Inv, TypeOK, StatusJustified, CourierHeard, Mapped,
              ReadBeforeEnd, UpgradesSaid
<1>10. ASSUME NEW v \in Viewers, ListOrders(v) \/ OpenOrder(v) PROVE Inv'
  BY <1>4, <1>10, ViewsAreOfOrders
<1> QED
  BY <1>1, <1>2, <1>3, <1>5, <1>6, <1>7, <1>8, <1>9, <1>10 DEF Next, ViewStep

LEMMA AlwaysInv == Spec => []Inv
BY InitInv, NextInv, PTL DEF Spec

(* Every variable keeps its type, for any orders and any number of views.   *)
THEOREM TypeCorrect == Spec => []TypeOK
<1>1. Inv => TypeOK
  BY DEF Inv
<1> QED
  BY <1>1, AlwaysInv, PTL

(* No status is ever made up, however many views, shop and courier race.    *)
THEOREM StatusesAreJustified == Spec => []StatusJustified
<1>1. Inv => StatusJustified
  BY DEF Inv
<1> QED
  BY <1>1, AlwaysInv, PTL

(* An order leaves its end only by the write of a view that read it before. *)
THEOREM EndsLostOnlyToStaleViews == Spec => EndLostOnlyToStaleViews
<1>1. ASSUME Inv, [Next]_vars, NEW o \in Orders,
             status[o] \in Final, status'[o] # status[o]
      PROVE  \E v \in viewing : /\ read[v][o] \in Statuses \ Final
                                /\ status'[o] = upgrade[v][o]
  <2>1. ASSUME NEW v \in Viewers, NEW p \in Orders, Update(v, p)
        PROVE  \E w \in viewing : /\ read[w][o] \in Statuses \ Final
                                  /\ status'[o] = upgrade[w][o]
    <3>1. p = o /\ status'[o] = upgrade[v][o]
      BY <1>1, <2>1 DEF Update, Inv, TypeOK
    <3>2. v \in viewing /\ read[v][o] \in Statuses \ Final
      BY <1>1, <2>1, <3>1 DEF Inv, ReadBeforeEnd, Update, NextPending, Pending
    <3> QED
      BY <3>1, <3>2
  <2>2. ASSUME NEW p \in Orders, ShopMoves(p) PROVE FALSE
    <3>1. Transitions(status[o]) = {}
      BY <1>1 DEF Final
    <3>2. p = o
      BY <1>1, <2>2 DEF ShopMoves, Inv, TypeOK
    <3> QED
      BY <2>2, <3>1, <3>2 DEF ShopMoves
  <2>3. \/ status' = status
        \/ \E v \in Viewers, p \in Orders : Update(v, p)
        \/ \E p \in Orders : ShopMoves(p)
    BY <1>1, ViewsAreOfOrders DEF Next, ViewStep, vars, StartView, Fetch, FetchFails, EndView,
                UpdateFails, Leave, CourierMoves
  <2> QED
    BY <1>1, <2>1, <2>2, <2>3
<1>2. Inv /\ [Next]_vars =>
        [\A o \in Orders :
           status[o] \in Final /\ status'[o] # status[o] =>
             \E v \in viewing : /\ read[v][o] \in Statuses \ Final
                                /\ status'[o] = upgrade[v][o]]_vars
  BY <1>1
<1> QED
  BY <1>2, AlwaysInv, PTL DEF Spec, EndLostOnlyToStaleViews
-----------------------------------------------------------------------------
(* The order of a product list.                                             *)

(* A part of the products is finite, and counted by a number.               *)
LEMMA LinesFinite ==
  ASSUME NEW line \in SUBSET Products
  PROVE  IsFiniteSet(line) /\ Cardinality(line) \in Nat
BY CatalogAssumption, FS_Subset, FS_CardinalityType

(* Every query orders the products, none beside another: the id decides     *)
(* among those of one price or time.                                        *)
LEMMA PrecedesOrders ==
  ASSUME CatalogTypeOK, NEW q \in Queries("pages")
  PROVE  /\ \A p \in Products : ~Precedes(q, p, p)
         /\ \A p, r \in Products : p # r => Precedes(q, p, r) \/ Precedes(q, r, p)
         /\ \A p, r, s \in Products :
              Precedes(q, p, r) /\ Precedes(q, r, s) => Precedes(q, p, s)
<1> DEFINE key == [x \in Products |-> IF q.sort = "price" THEN Price[x] ELSE rows[x].created]
           up == q.sort = "price" \/ q.asc
           before(p, r) == \/ q.asc /\ key[p] < key[r]
                           \/ ~q.asc /\ key[p] > key[r]
                           \/ key[p] = key[r] /\ (IF up THEN p < r ELSE p > r)
<1>1. \A x \in Products : key[x] \in Nat /\ x \in Nat
  BY CatalogAssumption DEF CatalogTypeOK
<1>2. \A p, r \in Products : Precedes(q, p, r) <=> before(p, r)
  BY DEF Precedes
<1> HIDE DEF key, up
<1> QED BY <1>1, <1>2

(* Who is ahead of a product has fewer ahead of it, and every number is     *)
(* some product's up to that of any.                                        *)
LEMMA AheadRanks ==
  ASSUME CatalogTypeOK, NEW q \in Queries("pages"), NEW line \in SUBSET Products
  PROVE  /\ \A p \in line : Ahead(q, line, p) \in Nat
         /\ \A p, r \in line :
              Precedes(q, p, r) <=> Ahead(q, line, p) < Ahead(q, line, r)
         /\ \A p \in line : \A n \in Nat :
              n <= Ahead(q, line, p) => \E r \in line : Ahead(q, line, r) = n
<1> DEFINE A(p) == {r \in line : Precedes(q, r, p)}
           n == [p \in line |-> Ahead(q, line, p)]
<1>1. \A p \in line : n[p] = Cardinality(A(p))
  BY DEF Ahead
<1>2. \A p \in line : n[p] \in Nat
  BY <1>1, LinesFinite
<1>3. ASSUME NEW p \in line, NEW r \in line, Precedes(q, p, r) PROVE n[p] < n[r]
  <2> DEFINE U == A(r)
             V == A(p)
  <2>1. V \subseteq U /\ p \in U /\ p \notin V
    BY <1>3, PrecedesOrders
  <2>2. IsFiniteSet(U)
    BY LinesFinite
  <2>3. n[r] = Cardinality(U) /\ n[p] = Cardinality(V)
    BY <1>1
  <2> HIDE DEF U, V
  <2>4. Cardinality(V) <= Cardinality(U) /\ Cardinality(U) # Cardinality(V)
    BY <2>1, <2>2, FS_Subset
  <2> HIDE DEF n
  <2> QED BY <1>2, <2>3, <2>4
<1>4. \A p, r \in line : Precedes(q, p, r) <=> n[p] < n[r]
  <2> SUFFICES ASSUME NEW p \in line, NEW r \in line, n[p] < n[r] PROVE Precedes(q, p, r)
    BY <1>3
  <2> HIDE DEF n
  <2>1. p # r /\ ~Precedes(q, r, p)
    BY <1>2, <1>3
  <2> QED BY <2>1, PrecedesOrders
<1>5. ASSUME NEW p \in line, NEW k \in Nat, k <= n[p] PROVE \E r \in line : n[r] = k
  <2> HIDE DEF n
  <2> DEFINE T == {n[r] : r \in {r \in line : n[r] >= k}}
  <2>1. T \subseteq Nat /\ T # {}
    BY <1>2, <1>5
  <2>2. PICK m \in T : \A j \in T : ~(<<j, m>> \in OpToRel(<, Nat))
    <3> HIDE DEF T
    <3> QED BY <2>1, NatLessThanWellFounded, WFMin
  <2>3. PICK r \in line : n[r] >= k /\ m = n[r]
    OBVIOUS
  <2>4. ASSUME NEW x \in line, n[x] >= k PROVE n[r] <= n[x]
    <3>1. n[x] \in T
      BY <2>4
    <3>2. ~(<<n[x], n[r]>> \in OpToRel(<, Nat))
      BY <2>2, <2>3, <3>1
    <3>3. n[x] \in Nat /\ n[r] \in Nat
      BY <1>2, <2>3
    <3>4. ~(n[x] < n[r])
      BY <3>2, <3>3 DEF OpToRel
    <3> QED BY <3>3, <3>4
  <2>5. \A x \in A(r) : n[x] \in 0 .. k - 1
    BY <1>2, <1>4, <2>4
  <2> DEFINE U == A(r)
             V == 0 .. k - 1
             f == [x \in U |-> n[x]]
  <2>6. f \in [U -> V] /\ \A x, y \in U : f[x] = f[y] => x = y
    <3>1. \A x, y \in line : n[x] = n[y] => x = y
      BY <1>2, <1>3, PrecedesOrders
    <3> QED BY <2>5, <3>1
  <2>7. f \in Injection(U, V)
    BY <2>6 DEF Injection, IsInjective
  <2>8. IsFiniteSet(V) /\ Cardinality(V) = k
    BY <1>5, FS_Interval
  <2>9. n[r] = Cardinality(U)
    BY <1>1, <2>3
  <2> HIDE DEF f, U, V
  <2>10. Cardinality(U) <= Cardinality(V)
    BY <2>7, <2>8, FS_Injection
  <2> QED BY <1>2, <2>3, <2>8, <2>9, <2>10
<1> QED BY <1>2, <1>4, <1>5

(* A page that does not hold all of the line ends with one product, and     *)
(* whatever is not on it comes after that.                                  *)
LEMMA PageEnds ==
  ASSUME CatalogTypeOK, NEW q \in Queries("pages"), NEW line \in SUBSET Products,
         NEW page, page = {p \in line : Ahead(q, line, p) < Limit}, line \ page # {}
  PROVE  /\ LastOf(q, page) \in page
         /\ \A r \in page \ {LastOf(q, page)} : Precedes(q, r, LastOf(q, page))
         /\ \A r \in line \ page : Precedes(q, LastOf(q, page), r)
<1> Limit \in Nat \ {0}
  BY CatalogAssumption
<1>1. PICK p \in line : Ahead(q, line, p) \in Nat /\ Ahead(q, line, p) >= Limit
  <2>1. PICK p \in line : ~ Ahead(q, line, p) < Limit
    OBVIOUS
  <2>2. Ahead(q, line, p) \in Nat
    BY AheadRanks
  <2> QED
    BY <2>1, <2>2
<1>2. Limit - 1 \in Nat /\ Limit - 1 <= Ahead(q, line, p)
  BY <1>1
<1>3. PICK l \in line : Ahead(q, line, l) = Limit - 1
  BY <1>2, AheadRanks
<1>4. l \in page
  BY <1>2, <1>3
<1>5. \A r \in page \ {l} : Precedes(q, r, l)
  <2> SUFFICES ASSUME NEW r \in page, r # l, Precedes(q, l, r) PROVE FALSE
    BY PrecedesOrders, <1>4
  <2>1. Ahead(q, line, l) < Ahead(q, line, r) /\ Ahead(q, line, r) < Limit
    BY AheadRanks
  <2>2. Ahead(q, line, r) \in Nat
    BY AheadRanks
  <2> QED BY <1>2, <1>3, <2>1, <2>2
<1>6. \A r \in line \ page : Precedes(q, l, r)
  <2> SUFFICES ASSUME NEW r \in line \ page PROVE Precedes(q, l, r)
    OBVIOUS
  <2>1. Ahead(q, line, r) \in Nat /\ ~(Ahead(q, line, r) < Limit)
    BY AheadRanks
  <2>2. Ahead(q, line, l) < Ahead(q, line, r)
    BY <1>2, <1>3, <2>1
  <2> QED BY <2>2, AheadRanks
<1>7. \A x \in page : (\A r \in page \ {x} : Precedes(q, r, x)) => x = l
  BY <1>4, <1>5, PrecedesOrders
<1>8. LastOf(q, page) = l
  BY <1>4, <1>5, <1>7 DEF LastOf
<1> QED BY <1>4, <1>5, <1>6, <1>8

(* A window of the line with something behind it is full.                   *)
LEMMA WindowsFill ==
  ASSUME CatalogTypeOK, NEW q \in Queries("pages"), NEW line \in SUBSET Products,
         NEW o \in Nat, NEW p \in line, Ahead(q, line, p) >= o + Limit
  PROVE  Cardinality({r \in line : Ahead(q, line, r) \in o .. o + Limit - 1}) = Limit
<1> DEFINE page == {r \in line : Ahead(q, line, r) \in o .. o + Limit - 1}
           window == o .. o + Limit - 1
           f == [r \in page |-> Ahead(q, line, r)]
<1>1. Limit \in Nat \ {0}
  BY CatalogAssumption
<1>2. f \in [page -> window]
  OBVIOUS
<1>3. \A r, s \in page : f[r] = f[s] => r = s
  <2> SUFFICES ASSUME NEW r \in page, NEW s \in page, f[r] = f[s], r # s PROVE FALSE
    OBVIOUS
  <2>1. Precedes(q, r, s) \/ Precedes(q, s, r)
    BY PrecedesOrders
  <2>2. Ahead(q, line, r) \in Nat /\ Ahead(q, line, r) = Ahead(q, line, s)
    BY AheadRanks
  <2>3. r \in line /\ s \in line
    OBVIOUS
  <2> HIDE DEF page, f
  <2>4. Ahead(q, line, r) < Ahead(q, line, s) \/ Ahead(q, line, s) < Ahead(q, line, r)
    BY <2>1, <2>3, AheadRanks
  <2> QED BY <2>2, <2>4
<1>4. ASSUME NEW k \in window PROVE \E r \in page : f[r] = k
  <2>1. Ahead(q, line, p) \in Nat
    BY AheadRanks
  <2>2. k \in Nat /\ k <= Ahead(q, line, p)
    BY <1>1, <2>1
  <2>3. \E r \in line : Ahead(q, line, r) = k
    BY <2>2, AheadRanks
  <2>4. PICK r \in line : Ahead(q, line, r) = k
    BY <2>3
  <2>5. r \in page
    BY <1>4, <2>4
  <2> QED BY <2>4, <2>5
<1>5. f \in Injection(page, window) /\ f \in Surjection(page, window)
  BY <1>2, <1>3, <1>4 DEF Injection, IsInjective, Surjection
<1>6. IsFiniteSet(page) /\ Cardinality(window) = Limit
  BY <1>1, LinesFinite, FS_Interval
<1> HIDE DEF f, page, window
<1>7. Cardinality(window) = Cardinality(page)
  BY <1>5, <1>6, FS_Surjection
<1> QED BY <1>6, <1>7 DEF page

(* What is left of a time in the cursor.                                    *)
LEMMA CutIs ==
  ASSUME NEW t \in Nat
  PROVE  /\ ToMillis(t) \in Nat /\ ToMillis(t) <= t
         /\ \A u \in Nat : u < t /\ ToMillis(t) <= u =>
              t % Milli # 0 /\ t \div Milli = u \div Milli
         /\ ToMillis(t) # t => t % Milli # 0
         /\ \A u \in Nat : u <= t => ToMillis(u) <= ToMillis(t)
         /\ ToMillis(ToMillis(t)) = ToMillis(t)
<1> DEFINE m == Milli
           d(u) == u \div m
<1>1. m \in Nat \ {0}
  BY CatalogAssumption
<1>2. ASSUME NEW u \in Nat
      PROVE  /\ d(u) \in Nat /\ d(u) * m \in Nat
             /\ d(u) * m <= u /\ u < (d(u) + 1) * m
             /\ u % m = 0 => d(u) * m = u
  <2> HIDE DEF m
  <2> QED BY <1>1
<1>3. ASSUME NEW a \in Nat, NEW b \in Nat, a < b PROVE (a + 1) * m <= b * m
  <2> HIDE DEF m
  <2> QED BY <1>1, <1>3
<1>4. ASSUME NEW u \in Nat, NEW v \in Nat, u <= v PROVE d(u) <= d(v)
  <2> SUFFICES ASSUME d(v) < d(u) PROVE FALSE
    BY <1>2
  <2>1. (d(v) + 1) * m <= d(u) * m
    BY <1>2, <1>3
  <2> HIDE DEF m
  <2>2. (d(v) + 1) * m \in Nat
    BY <1>1, <1>2
  <2> QED BY <1>2, <1>4, <2>1, <2>2
<1>5. ASSUME NEW u \in Nat, u < t, d(t) * m <= u PROVE t % m # 0 /\ d(t) = d(u)
  <2>1. t % m # 0
    BY <1>2, <1>5
  <2>2. d(u) <= d(t)
    BY <1>4, <1>5
  <2>3. ASSUME d(u) < d(t) PROVE FALSE
    <3>1. (d(u) + 1) * m <= d(t) * m
      BY <1>2, <1>3, <2>3
    <3> HIDE DEF m
    <3>2. (d(u) + 1) * m \in Nat
      BY <1>1, <1>2
    <3> QED BY <1>2, <1>5, <3>1, <3>2
  <2> QED BY <1>2, <2>1, <2>2, <2>3
<1>6. ASSUME NEW u \in Nat, u <= t PROVE d(u) * m <= d(t) * m
  <2>1. d(u) \in Nat /\ d(t) \in Nat /\ d(u) <= d(t)
    BY <1>2, <1>4, <1>6
  <2> HIDE DEF m
  <2> QED BY <1>1, <2>1
<1>7. d(d(t) * m) * m = d(t) * m
  <2> DEFINE c == d(t) * m
  <2>1. d(t) \in Nat /\ c \in Nat /\ d(c) \in Nat /\ d(c) * m <= c /\ c < (d(c) + 1) * m
    BY <1>2
  <2>2. ~(d(t) < d(c))
    <3> SUFFICES ASSUME d(t) < d(c) PROVE FALSE
      OBVIOUS
    <3>1. (d(t) + 1) * m <= d(c) * m /\ d(t) * m < (d(t) + 1) * m
      <4>1. (d(t) + 1) * m <= d(c) * m
        BY <1>3, <2>1
      <4> HIDE DEF m
      <4>2. d(t) * m < (d(t) + 1) * m
        BY <1>1, <2>1
      <4> QED BY <4>1, <4>2
    <3> HIDE DEF m
    <3>2. (d(t) + 1) * m \in Nat /\ d(c) * m \in Nat
      BY <1>1, <2>1
    <3> QED BY <2>1, <3>1, <3>2
  <2>3. ~(d(c) < d(t))
    <3> SUFFICES ASSUME d(c) < d(t) PROVE FALSE
      OBVIOUS
    <3>1. (d(c) + 1) * m <= d(t) * m
      BY <1>3, <2>1
    <3> HIDE DEF m
    <3>2. (d(c) + 1) * m \in Nat /\ d(t) * m \in Nat
      BY <1>1, <2>1
    <3> QED BY <2>1, <3>1, <3>2
  <2>4. d(c) = d(t)
    BY <2>1, <2>2, <2>3
  <2> QED BY <2>4
<1>8. ASSUME t % m = 0 PROVE d(t) * m = t
  BY <1>2, <1>8
<1> QED BY <1>2, <1>5, <1>6, <1>7, <1>8 DEF ToMillis, m

(* What a page by cursor is: the front of what is behind the cursor; the    *)
(* next cursor, if there is one, stands at its last product.                *)
LEMMA NextPage ==
  ASSUME CatalogTypeOK, NEW q \in Queries("pages"), ~q.byOffset
  PROVE  /\ PageRows(q) \subseteq Behind(q) /\ Behind(q) \subseteq Matching(q)
         /\ Matching(q) \subseteq Stocked
         /\ NextCursor(q, PageRows(q)) = None => PageRows(q) = Behind(q)
         /\ NextCursor(q, PageRows(q)) # None =>
              \E l \in PageRows(q) :
                /\ NextCursor(q, PageRows(q)) = [t |-> ToMillis(rows[l].created), id |-> l]
                /\ \A r \in PageRows(q) \ {l} : Precedes(q, r, l)
                /\ \A r \in Behind(q) \ PageRows(q) : Precedes(q, l, r)
<1> DEFINE B == Behind(q)
           page == PageRows(q)
           l == LastOf(q, page)
<1>1. B \in SUBSET Products /\ B \subseteq Matching(q) /\ Matching(q) \subseteq Stocked
  BY DEF Behind, Matching, Available, Stocked
<1>2. page = {p \in B : Ahead(q, B, p) < Limit}
  BY DEF PageRows
<1>3. page \subseteq B
  BY <1>2
<1>4. CASE B \ page = {}
  BY <1>1, <1>3, <1>4 DEF NextCursor
<1>5. CASE B \ page # {}
  <2>1. /\ l \in page
        /\ \A r \in page \ {l} : Precedes(q, r, l)
        /\ \A r \in B \ page : Precedes(q, l, r)
    <3> HIDE DEF B, page
    <3> QED BY <1>1, <1>2, <1>5, PageEnds DEF l
  <2>2. NextCursor(q, page) = [t |-> ToMillis(rows[l].created), id |-> l]
    BY <1>5 DEF NextCursor
  <2>3. [t |-> ToMillis(rows[l].created), id |-> l] \in [t : Nat, id : Products]
    <3>1. l \in Products /\ rows[l].created \in Nat
      BY <1>1, <1>3, <2>1 DEF CatalogTypeOK
    <3>2. ToMillis(rows[l].created) \in Nat
      BY <3>1, CutIs
    <3> QED BY <3>1, <3>2
  <2>4. NextCursor(q, page) # None
    BY <2>2, <2>3, CatalogAssumption
  <2> QED BY <1>1, <1>3, <2>1, <2>2, <2>4
<1> QED BY <1>4, <1>5

(* Where a cursor by created_at moves to: only a cut keeps what follows it  *)
(* from being behind it, and only a cut puts a product behind it again.     *)
LEMMA CursorMoves ==
  ASSUME CatalogTypeOK, NEW q \in Queries("pages"), q.sort = "created_at",
         NEW l \in Products, AfterCursor(q, l), cursor # None => ToMillis(cursor.t) = cursor.t,
         rows' = rows, cursor' = [t |-> ToMillis(rows[l].created), id |-> l], cursor' # None,
         l \in marks', NEW p \in Products
  PROVE  /\ Precedes(q, l, p) => AfterCursor(q, p)' \/ (~q.asc /\ NextToACut(p)')
         /\ (p = l \/ Precedes(q, p, l)) /\ AfterCursor(q, p)' => q.asc /\ NextToACut(p)'
         /\ ~AfterCursor(q, p) /\ AfterCursor(q, p)' => q.asc /\ NextToACut(p)'
<1> DEFINE cl == rows[l].created
           cp == rows[p].created
           T == ToMillis(cl)
           t == cursor.t
           cut == NextToACut(p)'
<1>1. cl \in Nat /\ cp \in Nat /\ l \in Nat /\ p \in Nat /\ q.asc \in BOOLEAN
  BY CatalogAssumption, RequestsAssumption DEF CatalogTypeOK
<1>2. T \in Nat /\ T <= cl
  BY <1>1, CutIs
<1>3. cl % Milli # 0 /\ cl \div Milli = cp \div Milli => cut
  BY DEF NextToACut
<1>4. cp < cl /\ T <= cp => cut
  BY <1>1, <1>3, CutIs
<1>5. cp = cl /\ T < cl => cut
  BY <1>1, <1>2, <1>3, CutIs
<1>6. cursor # None => cursor.t \in Nat /\ cursor.id \in Nat
  BY CatalogAssumption DEF CatalogTypeOK
<1>7. cursor # None /\ t <= cl => t <= T
  BY <1>1, <1>6, CutIs
<1>8. AfterCursor(q, p)' <=> \/ q.asc /\ cp > T
                             \/ ~q.asc /\ cp < T
                             \/ cp = T /\ (IF q.asc THEN p > l ELSE p < l)
  BY DEF AfterCursor
<1>9. \A x \in Products : AfterCursor(q, x) <=>
        \/ cursor = None
        \/ q.asc /\ rows[x].created > t
        \/ ~q.asc /\ rows[x].created < t
        \/ rows[x].created = t /\ (IF q.asc THEN x > cursor.id ELSE x < cursor.id)
  BY DEF AfterCursor
<1>10. /\ Precedes(q, l, p) <=>
            \/ q.asc /\ cl < cp
            \/ ~q.asc /\ cl > cp
            \/ cl = cp /\ (IF q.asc THEN l < p ELSE l > p)
       /\ Precedes(q, p, l) <=>
            \/ q.asc /\ cp < cl
            \/ ~q.asc /\ cp > cl
            \/ cl = cp /\ (IF q.asc THEN p < l ELSE p > l)
  BY DEF Precedes
<1>11. Precedes(q, l, p) => AfterCursor(q, p)' \/ (~q.asc /\ cut)
  <2> HIDE DEF cl, cp, T, cut
  <2> QED BY <1>1, <1>2, <1>4, <1>5, <1>8, <1>10
<1>12. (p = l \/ Precedes(q, p, l)) /\ AfterCursor(q, p)' => q.asc /\ cut
  <2>1. p = l => cp = cl
    OBVIOUS
  <2> HIDE DEF cl, cp, T, cut
  <2> QED BY <1>1, <1>2, <1>4, <1>5, <1>8, <1>10, <2>1
<1>13. ~AfterCursor(q, p) /\ AfterCursor(q, p)' => q.asc /\ cut
  <2> SUFFICES ASSUME ~AfterCursor(q, p), AfterCursor(q, p)' PROVE q.asc /\ cut
    OBVIOUS
  <2>1. cursor # None
    BY <1>9
  <2> DEFINE i == cursor.id
  <2>2. t \in Nat /\ i \in Nat
    BY <1>6, <2>1
  <2>3. ~(\/ q.asc /\ cp > t
          \/ ~q.asc /\ cp < t
          \/ cp = t /\ (IF q.asc THEN p > i ELSE p < i))
    BY <1>9
  <2>4. \/ q.asc /\ cl > t
        \/ ~q.asc /\ cl < t
        \/ cl = t /\ (IF q.asc THEN l > i ELSE l < i)
    BY <1>9, <2>1
  <2> HIDE DEF cl, cp, T, cut, t, i
  <2>5. CASE q.asc
    BY <1>1, <1>2, <1>4, <1>5, <1>7, <1>8, <2>1, <2>2, <2>3, <2>4, <2>5
  <2>6. CASE ~q.asc
    BY <1>1, <1>2, <1>4, <1>5, <1>7, <1>8, <2>1, <2>2, <2>3, <2>4, <2>6
  <2> QED BY <2>5, <2>6
<1> QED BY <1>11, <1>12, <1>13
-----------------------------------------------------------------------------
(* A list by created_at, pages found: what is still to come is behind the   *)
(* cursor, up to a cut.                                                     *)
CursorInv ==
  (kind = "pages" /\ ~query.byOffset /\ query.sort = "created_at") =>
    \A p \in Products :
      /\ (pc = "read" /\ seen[p] > 0 /\ AfterCursor(query, p)) => query.asc /\ NextToACut(p)
      /\ (pc = "read" /\ p \in steady /\ seen[p] = 0) =>
           AfterCursor(query, p) \/ (~query.asc /\ NextToACut(p))

(* A list by price has one page.                                            *)
PriceInv ==
  (kind = "pages" /\ ~query.byOffset /\ query.sort = "price") =>
    \A p \in Products :
      /\ seen[p] <= 1
      /\ (pc = "read" /\ cursor = None) => seen[p] = 0

(* A list by offset, the shop left alone: seen is what was ahead.           *)
OffsetInv ==
  (kind = "pages" /\ query.byOffset) =>
    /\ cursor = None
    /\ (quiet /\ pc = "read") =>
         \A p \in Products :
           seen[p] = IF p \in Matching(query) /\ Ahead(query, Matching(query), p) < offset
                     THEN 1 ELSE 0

ListsInv ==
  /\ kind = "pages" =>
       /\ pc \in {"read", "done", "refused", "failed"}
       /\ marks \subseteq Stocked
       /\ \A p \in Products : seen[p] > 0 => p \in Stocked
       /\ cursor # None => ToMillis(cursor.t) = cursor.t
  /\ CursorInv /\ PriceInv /\ OffsetInv
  /\ PagesComplete

BrowseInv ==
  /\ kind = "categories" =>
       /\ pc \in {"read", "list", "done", "failed"}
       /\ pc \in {"read", "list"} => answer = {}
       /\ (quiet /\ pc = "list") => ids = SellableCategoryIds
  /\ BrowsingAgrees

Below(s) == {p \in Products : \E c \in Sections[s].categories : rows[p].category \in Tree(c)}

ShelvesInv ==
  /\ kind \in {"home", "event"} =>
       /\ pc \in {"read", "expand", "fetched", "done", "failed"}
       /\ pc = "read" => plan = {} /\ DOMAIN fillers = {}
       /\ \A s \in DOMAIN fillers \ failed : steady \cap Below(s) # {} => fillers[s] # {}
       /\ pc = "fetched" =>
            /\ Shelves \subseteq DOMAIN fillers /\ DOMAIN shown = Shelves
            /\ \A s \in Shelves : /\ shown[s] \in Merges(s)
                                  /\ shown[s] \cap steady \subseteq CategoryRows \cup fetched
  /\ ShelvesJustified

CatalogInv == /\ CatalogTypeOK
              /\ steady \subseteq Offered
              /\ ListsInv
              /\ BrowseInv
              /\ ShelvesInv
-----------------------------------------------------------------------------
(* The types of the catalogue's variables.                                  *)

(* Categories are walked upwards within themselves.                         *)
LEMMA LineageType ==
  /\ \A c \in Categories : Lineage[c] \subseteq Categories
  /\ \A c : Tree(c) \subseteq Categories
BY DEF Lineage, Tree

LEMMA CatalogInitType == CatalogInit => CatalogTypeOK
<1> SUFFICES ASSUME CatalogInit PROVE CatalogTypeOK
  OBVIOUS
<1>1. rows \in [Products -> [sale : Sales, category : Categories \cup {None}, created : Nat]]
      /\ hidden \subseteq Categories
  BY RequestsAssumption DEF CatalogInit
<1>2. now \in 1 .. MaxTime /\ edits \in 0 .. EditBudget /\ faults \in 0 .. StatementFaults
  BY CatalogAssumption DEF CatalogInit
<1>3. seen \in [Products -> 0 .. 2] /\ marks \subseteq Products /\ offset \in Nat
      /\ cursor \in {None} \cup [t : Nat, id : Products]
  BY DEF CatalogInit
<1>4. /\ kind \in Kinds /\ query \in Queries(kind) /\ ids \subseteq Categories /\ pc = "read"
      /\ enabled \subseteq DOMAIN Sections /\ active \subseteq Rules
      /\ plan \subseteq DOMAIN Sections /\ failed \subseteq plan /\ fetched \subseteq Products
  BY DEF CatalogInit
<1>5. DOMAIN fillers = {} /\ DOMAIN shown = {}
  BY DEF CatalogInit
<1>6. steady \subseteq Products /\ quiet \in BOOLEAN
  BY DEF CatalogInit, Offered, Matching
<1> QED BY <1>1, <1>2, <1>3, <1>4, <1>5, <1>6 DEF CatalogTypeOK

(* What an edit of the shop leaves of a request: a stocked product keeps    *)
(* its time, a steady one its row, and all that was found stays.            *)
EditStep ==
  /\ pc \notin {"done", "refused", "failed"}
  /\ UNCHANGED <<kind, query, faults, pc, pageVars, ids, shelfVars, answer>>
  /\ \A p \in Stocked : p \in Stocked' /\ rows'[p].created = rows[p].created
  /\ steady' \subseteq steady \cap Offered'
  /\ \A p \in steady' : rows'[p] = rows[p]
  /\ quiet' = FALSE

(* And what the clock leaves.                                               *)
ClockStep ==
  /\ UNCHANGED <<rows, hidden, enabled, active, edits, faults, kind, query, pc, pageVars, ids,
                 shelfVars, answer, ghosts>>
  /\ kind # "categories" /\ pc = "read"

LEMMA ShopSteps ==
  ASSUME CatalogTypeOK, Shop
  PROVE  /\ EditStep \/ ClockStep
         /\ rows' \in [Products -> [sale : Sales, category : Categories \cup {None}, created : Nat]]
         /\ hidden' \subseteq Categories /\ enabled' \subseteq DOMAIN Sections
         /\ active' \subseteq Rules /\ now' \in 1 .. MaxTime /\ edits' \in 0 .. EditBudget
<1> DEFINE Rowful == [sale : Sales, category : Categories \cup {None}, created : Nat]
<1>1. CASE \E S \in SUBSET Products : ImportProducts(S)
  <2>1. PICK S \in SUBSET Products : ImportProducts(S)
    BY <1>1
  <2>2. now \in Nat \ {0}
    BY DEF CatalogTypeOK
  <2>3. rows' \in [Products -> Rowful]
    BY <2>1, <2>2 DEF ImportProducts, CatalogTypeOK
  <2>4. \A p \in Stocked : p \in Stocked' /\ rows'[p].created = rows[p].created
    BY <2>1 DEF ImportProducts, Stocked
  <2>5. \A p \in steady' : rows'[p] = rows[p]
    BY <2>1 DEF ImportProducts, Edited, CatalogTypeOK
  <2>6. EditStep
    BY <2>1, <2>4, <2>5 DEF ImportProducts, Edited, EditStep
  <2> QED BY <2>1, <2>3, <2>6, CatalogAssumption DEF ImportProducts, Edited, CatalogTypeOK
<1>2. CASE \E p \in Products, sale \in Sales : SetSale(p, sale)
  <2>1. PICK p \in Products, sale \in Sales : SetSale(p, sale)
    BY <1>2
  <2>2. rows' \in [Products -> Rowful]
    BY <2>1 DEF SetSale, CatalogTypeOK
  <2>3. \A r \in Stocked : r \in Stocked' /\ rows'[r].created = rows[r].created
    BY <2>1 DEF SetSale, Stocked, CatalogTypeOK
  <2>4. \A r \in steady' : rows'[r] = rows[r]
    BY <2>1 DEF SetSale, Edited, CatalogTypeOK
  <2>5. EditStep
    BY <2>1, <2>3, <2>4 DEF SetSale, Edited, EditStep
  <2> QED BY <2>1, <2>2, <2>5, CatalogAssumption DEF SetSale, Edited, CatalogTypeOK
<1>3. CASE \E p \in Products, c \in Categories : MoveProduct(p, c)
  <2>1. PICK p \in Products, c \in Categories : MoveProduct(p, c)
    BY <1>3
  <2>2. rows' \in [Products -> Rowful]
    BY <2>1 DEF MoveProduct, CatalogTypeOK
  <2>3. \A r \in Stocked : r \in Stocked' /\ rows'[r].created = rows[r].created
    BY <2>1 DEF MoveProduct, Stocked, CatalogTypeOK
  <2>4. \A r \in steady' : rows'[r] = rows[r]
    BY <2>1 DEF MoveProduct, Edited, CatalogTypeOK
  <2>5. EditStep
    BY <2>1, <2>3, <2>4 DEF MoveProduct, Edited, EditStep
  <2> QED BY <2>1, <2>2, <2>5, CatalogAssumption DEF MoveProduct, Edited, CatalogTypeOK
<1>4. CASE \/ \E c \in Categories : ToggleCategory(c)
           \/ \E s \in DOMAIN Sections : ToggleSection(s)
           \/ \E r \in Rules : ToggleRule(r)
  <2>1. /\ rows' = rows /\ now' = now /\ Edited({})
        /\ hidden' \subseteq Categories /\ enabled' \subseteq DOMAIN Sections
        /\ active' \subseteq Rules
    BY <1>4 DEF ToggleCategory, ToggleSection, ToggleRule, CatalogTypeOK
  <2>2. EditStep
    BY <2>1 DEF Edited, EditStep, Stocked
  <2> QED BY <2>1, <2>2, CatalogAssumption DEF Edited, CatalogTypeOK
<1>5. CASE Tick
  BY <1>5, CatalogAssumption DEF Tick, ClockStep, CatalogTypeOK
<1> QED BY <1>1, <1>2, <1>3, <1>4, <1>5 DEF Shop
(* A product's categories, while it has any, and those above them.          *)
LEMMA SellableIdsType == CatalogTypeOK => SellableCategoryIds \subseteq Categories
BY LineageType DEF SellableCategoryIds, CatalogTypeOK

LEMMA ListProductsType == CatalogTypeOK /\ ListProducts => CatalogTypeOK'
<1> SUFFICES ASSUME CatalogTypeOK, ListProducts PROVE CatalogTypeOK'
  OBVIOUS
<1> DEFINE page == PageRows(query)
<1>1. query \in Queries("pages")
  BY DEF ListProducts, CatalogTypeOK
<1>2. CASE cursor # None /\ query.sort # "created_at"
  BY <1>2 DEF ListProducts, Stay, shopVars, pageVars, shelfVars, ghosts, CatalogTypeOK, Shelves
<1>3. CASE ~(cursor # None /\ query.sort # "created_at")
  <2>1. /\ seen' = [p \in Products |-> IF p \in page /\ seen[p] < 2 THEN seen[p] + 1 ELSE seen[p]]
        /\ cursor' = NextCursor(query, page)
        /\ marks' = IF cursor' = None THEN marks ELSE marks \cup {cursor'.id}
        /\ offset' \in {offset, offset + Limit} /\ pc' \in {"read", "done"}
        /\ UNCHANGED <<shopVars, kind, query, ghosts, faults, ids, shelfVars, answer>>
    BY <1>3 DEF ListProducts, Stay
  <2>2. seen' \in [Products -> 0 .. 2]
    BY <2>1 DEF CatalogTypeOK
  <2>3. offset' \in Nat
    BY <2>1, CatalogAssumption DEF CatalogTypeOK
  <2>4. cursor' \in {None} \cup [t : Nat, id : Products] /\ marks' \subseteq Products
    <3>1. CASE cursor' = None
      BY <2>1, <3>1 DEF CatalogTypeOK
    <3>2. CASE cursor' # None
      <4>1. ~query.byOffset
        BY <2>1, <3>2 DEF NextCursor
      <4>2. PICK l \in page : cursor' = [t |-> ToMillis(rows[l].created), id |-> l]
        BY <1>1, <2>1, <3>2, <4>1, NextPage
      <4>3. l \in Products
        BY <1>1, <4>1, NextPage DEF Stocked
      <4>4. ToMillis(rows[l].created) \in Nat
        BY <4>3, CutIs DEF CatalogTypeOK
      <4> QED BY <2>1, <3>2, <4>2, <4>3, <4>4 DEF CatalogTypeOK
    <3> QED BY <3>1, <3>2
  <2> QED BY <2>1, <2>2, <2>3, <2>4 DEF CatalogTypeOK, shopVars, shelfVars, ghosts, Shelves
<1> QED BY <1>2, <1>3

(* Expand gives one shelf its fillers, or fails it.                         *)
LEMMA ExpandGives ==
  ASSUME CatalogTypeOK, NEW s \in DOMAIN Sections, Expand(s)
  PROVE  /\ CatalogTypeOK'
         /\ DOMAIN fillers' = DOMAIN fillers \cup {s}
         /\ \A x \in DOMAIN fillers : x # s /\ fillers'[x] = fillers[x]
         /\ \/ fillers'[s] \in Expansions(s) /\ failed' = failed
            \/ failed' = failed \cup {s}
<1>1. PICK F \in SUBSET Products :
        /\ fillers' = WithFillers(s, F)
        /\ \/ F \in Expansions(s) /\ failed' = failed /\ faults' = faults
           \/ failed' = failed \cup {s} /\ faults' = faults + 1 /\ faults < StatementFaults
  BY DEF Expand, Expansions, Cuts
<1>2. fillers' = [x \in DOMAIN fillers \cup {s} |-> IF x = s THEN F ELSE fillers[x]]
  BY <1>1 DEF WithFillers
<1>3. s \in plan /\ s \in Shelves /\ s \notin DOMAIN fillers
  BY DEF Expand, Shelves
<1>4. faults' \in 0 .. StatementFaults /\ failed' \subseteq plan
  BY <1>1, <1>3, CatalogAssumption DEF CatalogTypeOK
<1>5. UNCHANGED <<shopVars, kind, query, ghosts, pc, pageVars, ids, plan, fetched, shown, deals, answer>>
  BY DEF Expand, Stay
<1>6. DOMAIN fillers' \subseteq Shelves /\ \A x \in DOMAIN fillers' : fillers'[x] \subseteq Products
  BY <1>2, <1>3 DEF CatalogTypeOK
<1>7. CatalogTypeOK'
  BY <1>4, <1>5, <1>6 DEF CatalogTypeOK, shopVars, pageVars, ghosts, Shelves
<1> QED BY <1>1, <1>2, <1>3, <1>7

LEMMA FetchProductsType == CatalogTypeOK /\ FetchProducts => CatalogTypeOK'
<1> SUFFICES ASSUME CatalogTypeOK, FetchProducts PROVE CatalogTypeOK'
  OBVIOUS
<1>1. PICK merged \in [Shelves -> SUBSET Products] :
        shown' = merged /\ fetched' = {p \in Wanted(merged) \ CategoryRows : Sellable(p)}
  BY DEF FetchProducts
<1>2. fetched' \subseteq Products
  BY <1>1 DEF Sellable, Stocked
<1>3. \A s \in DOMAIN shown' : shown'[s] \subseteq Products
  BY <1>1
<1>4. pc' = "fetched"
      /\ UNCHANGED <<shopVars, kind, query, ghosts, faults, pageVars, ids, plan, fillers, failed,
                     deals, answer>>
  BY DEF FetchProducts, Stay
<1>5. DOMAIN fillers' \subseteq Shelves' /\ \A s \in DOMAIN fillers' : fillers'[s] \subseteq Products
  BY <1>4 DEF CatalogTypeOK, Shelves
<1> QED BY <1>2, <1>3, <1>4, <1>5 DEF CatalogTypeOK, shopVars, pageVars, ghosts

(* Each kind of request has its states: the parts of the invariant exclude  *)
(* the others.                                                              *)
LEMMA KindsApart ==
  ASSUME CatalogInv
  PROVE  /\ pc = "list" => kind = "categories"
         /\ pc \in {"expand", "fetched"} => kind \in {"home", "event"}
<1>1. kind \in {"pages", "categories", "home", "event"}
  BY DEF CatalogInv, CatalogTypeOK, Kinds
<1>2. kind = "pages" => pc \in {"read", "done", "refused", "failed"}
  BY DEF CatalogInv, ListsInv
<1>3. kind = "categories" => pc \in {"read", "list", "done", "failed"}
  BY DEF CatalogInv, BrowseInv
<1>4. kind \in {"home", "event"} => pc \in {"read", "expand", "fetched", "done", "failed"}
  BY DEF CatalogInv, ShelvesInv
<1> QED BY <1>1, <1>2, <1>3, <1>4

(* What a shelf shows is wanted: of what has a row, the answer keeps it.    *)
LEMMA HaveAllShown ==
  [s \in Shelves |-> shown[s] \cap (Wanted(shown) \cap (CategoryRows \cup fetched))]
    = [s \in Shelves |-> shown[s] \cap (CategoryRows \cup fetched)]
<1>1. \A s \in Shelves : shown[s] \subseteq Wanted(shown)
  BY DEF Shelves, Wanted
<1> QED BY <1>1

LEMMA CatalogTypeStep == CatalogInv /\ [CatalogNext]_catalogVars => CatalogTypeOK'
<1> SUFFICES ASSUME CatalogInv, [CatalogNext]_catalogVars PROVE CatalogTypeOK'
  OBVIOUS
<1> USE DEF CatalogInv
<1>1. CASE ListProducts
  BY <1>1, ListProductsType
<1>2. CASE ListSellableIds \/ ListCategories
  <2>1. UNCHANGED <<shopVars, kind, query, ghosts, faults, pageVars, shelfVars>>
    BY <1>2 DEF ListSellableIds, ListCategories, Stay
  <2>2. ids' \subseteq Categories /\ pc' \in {"done", "list"}
    BY <1>2, SellableIdsType DEF ListSellableIds, ListCategories, CatalogTypeOK
  <2> QED BY <2>1, <2>2 DEF CatalogTypeOK, shopVars, pageVars, ghosts, shelfVars, Shelves
<1>3. CASE ListSections \/ LookupEvent
  <2>1. UNCHANGED <<shopVars, kind, query, ghosts, faults, pageVars, ids, fillers, failed, fetched,
                    shown>>
    BY <1>3 DEF ListSections, LookupEvent, Stay
  <2>2. plan' \subseteq DOMAIN Sections /\ pc' \in {"done", "expand"}
    BY <1>3 DEF ListSections, LookupEvent, EventStatus, CatalogTypeOK
  <2>3. plan = {} /\ DOMAIN fillers = {}
    BY <1>3 DEF ListSections, LookupEvent, ShelvesInv
  <2> QED BY <2>1, <2>2, <2>3 DEF CatalogTypeOK, shopVars, pageVars, ghosts
<1>4. CASE \E s \in DOMAIN Sections : Expand(s)
  BY <1>4, ExpandGives
<1>5. CASE FetchProducts
  BY <1>5, FetchProductsType
<1>6. CASE Assemble
  <2>1. DOMAIN shown = Shelves
    BY <1>6, KindsApart DEF Assemble, ShelvesInv
  <2>2. shown' = [s \in Shelves |-> shown[s] \cap (CategoryRows \cup fetched)]
    BY <1>6, HaveAllShown DEF Assemble
  <2>3. \A s \in DOMAIN shown' : shown'[s] \subseteq Products
    BY <2>1, <2>2 DEF CatalogTypeOK
  <2>4. faults' \in 0 .. StatementFaults /\ pc' = "done"
    BY <1>6, CatalogAssumption DEF Assemble, CatalogTypeOK
  <2>5. UNCHANGED <<shopVars, kind, query, ghosts, pageVars, ids, plan, fillers, failed, fetched>>
    BY <1>6 DEF Assemble, Stay
  <2> QED BY <2>3, <2>4, <2>5 DEF CatalogTypeOK, shopVars, pageVars, ghosts, Shelves
<1>7. CASE StatementFails
  BY <1>7, CatalogAssumption DEF StatementFails, Stay, CatalogTypeOK, shopVars, pageVars, ghosts,
     shelfVars, Shelves
<1>8. CASE Shop
  <2>1. UNCHANGED <<kind, query, faults, pc, pageVars, ids, shelfVars, answer>>
    BY <1>8, ShopSteps DEF EditStep, ClockStep
  <2>2. steady' \subseteq Products /\ quiet' \in BOOLEAN
    BY <1>8, ShopSteps DEF EditStep, ClockStep, ghosts, CatalogTypeOK
  <2> QED BY <1>8, <2>1, <2>2, ShopSteps DEF CatalogTypeOK, pageVars, shelfVars, Shelves
<1>9. CASE UNCHANGED catalogVars
  BY <1>9 DEF CatalogTypeOK, catalogVars, shopVars, pageVars, ghosts, shelfVars, Shelves
<1> QED BY <1>1, <1>2, <1>3, <1>4, <1>5, <1>6, <1>7, <1>8, <1>9 DEF CatalogNext, Request
-----------------------------------------------------------------------------
(* Product lists.                                                           *)

(* A statement that finds the rows as another did selects the same.         *)
LEMMA SameRowsSameList ==
  ASSUME rows' = rows, NEW q
  PROVE  /\ Stocked' = Stocked
         /\ Matching(q)' = Matching(q)
         /\ \A line, p : Ahead(q, line, p)' = Ahead(q, line, p)
<1>1. Stocked' = Stocked
  BY DEF Stocked
<1>2. \A p : Available(q, p)' <=> Available(q, p)
  BY <1>1 DEF Available
<1>3. EffectiveCategories(q)' = EffectiveCategories(q)
  BY <1>2 DEF EffectiveCategories
<1>4. Matching(q)' = Matching(q)
  BY <1>2, <1>3 DEF Matching
<1>5. ASSUME NEW line, NEW p PROVE Ahead(q, line, p)' = Ahead(q, line, p)
  <2>1. \A r : Precedes(q, r, p)' <=> Precedes(q, r, p)
    BY DEF Precedes
  <2> QED BY <2>1 DEF Ahead
<1> QED BY <1>1, <1>4, <1>5

LEMMA SameRowsSameOffer ==
  ASSUME rows' = rows, kind' = kind, query' = query
  PROVE  Offered' = Offered
<1> PICK q : q = query
  OBVIOUS
<1>1. Matching(query)' = Matching(query) /\ Stocked' = Stocked
  BY SameRowsSameList
<1> QED BY <1>1 DEF Offered, Sellable

(* Whatever is not a page or an edit of the shop leaves a list as it is, or *)
(* fails it.                                                                *)
ListIdle ==
  /\ UNCHANGED <<rows, kind, query, pageVars, ghosts>>
  /\ pc' = pc \/ pc' \in {"refused", "failed"}

LEMMA ListIdleKeeps == CatalogInv /\ kind = "pages" /\ ListIdle => ListsInv'
<1> SUFFICES ASSUME CatalogInv, kind = "pages", ListIdle PROVE ListsInv'
  OBVIOUS
<1> USE DEF CatalogInv
<1>1. /\ rows' = rows /\ kind' = kind /\ query' = query /\ cursor' = cursor /\ offset' = offset
      /\ seen' = seen /\ marks' = marks /\ steady' = steady /\ quiet' = quiet
      /\ pc' = pc \/ pc' \in {"refused", "failed"}
  BY DEF ListIdle, pageVars, ghosts
<1>2. PICK q : q = query
  OBVIOUS
<1>3. /\ Stocked' = Stocked /\ Matching(query)' = Matching(query)
      /\ \A p : Ahead(query, Matching(query), p)' = Ahead(query, Matching(query), p)
  <2>1. /\ Stocked' = Stocked /\ Matching(q)' = Matching(q)
        /\ \A line, p : Ahead(q, line, p)' = Ahead(q, line, p)
    BY <1>1, SameRowsSameList
  <2> QED BY <1>1, <1>2, <2>1
<1>4. \A p : /\ NextToACut(p)' <=> NextToACut(p)
             /\ AfterCursor(query, p)' <=> AfterCursor(query, p)
  BY <1>1 DEF NextToACut, AfterCursor
<1>5. CursorInv'
  BY <1>1, <1>4 DEF CursorInv, ListsInv
<1>6. PriceInv'
  BY <1>1 DEF PriceInv, ListsInv
<1>7. OffsetInv'
  BY <1>1, <1>3 DEF OffsetInv, ListsInv
<1>8. PagesComplete'
  BY <1>1, <1>3, <1>4 DEF PagesComplete, ListsInv
<1> QED BY <1>1, <1>3, <1>5, <1>6, <1>7, <1>8 DEF ListsInv

(* An edit leaves the times of what was seen and the rows of what is steady. *)
LEMMA EditKeepsLists == CatalogInv /\ kind = "pages" /\ EditStep => ListsInv'
<1> SUFFICES ASSUME CatalogInv, kind = "pages", EditStep PROVE ListsInv'
  OBVIOUS
<1> USE DEF CatalogInv
<1>1. /\ kind' = kind /\ query' = query /\ cursor' = cursor /\ offset' = offset
      /\ seen' = seen /\ marks' = marks /\ steady' \subseteq steady /\ ~quiet'
      /\ pc' = pc /\ pc # "done"
  BY DEF EditStep, pageVars
<1>2. \A p \in Stocked : p \in Stocked' /\ rows'[p].created = rows[p].created
  BY DEF EditStep
<1>3. \A p \in steady' : rows'[p] = rows[p]
  BY DEF EditStep
<1>4. marks \subseteq Stocked /\ \A p \in Products : seen[p] > 0 => p \in Stocked
  BY DEF ListsInv
<1>5. ASSUME NEW p \in Products, p \in Stocked \/ p \in steady'
      PROVE  /\ NextToACut(p)' <=> NextToACut(p)
             /\ AfterCursor(query, p)' <=> AfterCursor(query, p)
  <2>1. rows'[p].created = rows[p].created
    BY <1>2, <1>3, <1>5
  <2>2. \A r \in marks : rows'[r].created = rows[r].created
    BY <1>2, <1>4
  <2> QED BY <1>1, <2>1, <2>2 DEF NextToACut, AfterCursor
<1>6. CursorInv'
  <2> SUFFICES ASSUME kind = "pages" /\ ~query.byOffset /\ query.sort = "created_at", pc = "read",
                      NEW p \in Products
               PROVE  /\ (seen[p] > 0 /\ AfterCursor(query, p)') => query.asc /\ NextToACut(p)'
                      /\ (p \in steady' /\ seen[p] = 0) =>
                           AfterCursor(query, p)' \/ (~query.asc /\ NextToACut(p)')
    BY <1>1 DEF CursorInv
  <2> QED BY <1>1, <1>4, <1>5 DEF ListsInv, CursorInv
<1>7. PriceInv'
  BY <1>1 DEF PriceInv, ListsInv
<1>8. OffsetInv'
  BY <1>1 DEF OffsetInv, ListsInv
<1>9. PagesComplete'
  <2> SUFFICES ASSUME ~query.byOffset, NEW p \in Products, seen[p] > 1
               PROVE  query.asc /\ NextToACut(p)'
    BY <1>1 DEF PagesComplete
  <2>1. seen[p] > 0
    BY DEF CatalogTypeOK
  <2> QED BY <1>4, <1>5, <2>1 DEF ListsInv, PagesComplete
<1> QED BY <1>1, <1>2, <1>4, <1>6, <1>7, <1>8, <1>9 DEF ListsInv
(* A page by cursor.                                                        *)
LEMMA CursorPage ==
  ASSUME CatalogInv, ListProducts, ~query.byOffset
  PROVE  ListsInv'
<1> USE DEF CatalogInv
<1> PICK q \in Queries("pages") : q = query
  BY DEF ListProducts, CatalogTypeOK
<1> DEFINE page == PageRows(q)
<1>1. kind = "pages" /\ pc = "read" /\ rows' = rows /\ kind' = kind /\ query' = q /\ steady' = steady
      /\ quiet' = quiet
  BY DEF ListProducts, Stay, shopVars, ghosts
<1>2. CASE cursor # None /\ q.sort # "created_at"
  <2>1. ListIdle
    BY <1>2 DEF ListProducts, ListIdle, Stay, shopVars, ghosts
  <2> QED BY <1>1, <2>1, ListIdleKeeps
<1>3. CASE ~(cursor # None /\ q.sort # "created_at")
  <2>1. /\ seen' = [p \in Products |-> IF p \in page /\ seen[p] < 2 THEN seen[p] + 1 ELSE seen[p]]
        /\ cursor' = NextCursor(q, page)
        /\ marks' = IF cursor' = None THEN marks ELSE marks \cup {cursor'.id}
        /\ offset' = offset
        /\ pc' = IF cursor' # None THEN "read" ELSE "done"
    BY <1>3 DEF ListProducts
  <2>2. /\ page \subseteq Behind(q) /\ Behind(q) \subseteq Matching(q) /\ Matching(q) \subseteq Stocked
        /\ Stocked \subseteq Products
        /\ cursor' = None => page = Behind(q)
        /\ cursor' # None =>
             \E l \in page :
               /\ cursor' = [t |-> ToMillis(rows[l].created), id |-> l]
               /\ \A r \in page \ {l} : Precedes(q, r, l)
               /\ \A r \in Behind(q) \ page : Precedes(q, l, r)
    <3> HIDE DEF page
    <3>1. Stocked \subseteq Products
      BY DEF Stocked
    <3> QED BY <2>1, <3>1, NextPage DEF page
  <2>3. Stocked' = Stocked
    BY <1>1 DEF Stocked
  <2>4. \A p \in Products : NextToACut(p) => NextToACut(p)'
    BY <1>1, <2>1 DEF NextToACut
  <2>5. \A p \in Behind(q) : AfterCursor(q, p)
    BY DEF Behind
  <2>6. \A p \in steady : p \in Matching(q) /\ (AfterCursor(q, p) => p \in Behind(q))
    BY <1>1 DEF Offered, Behind
  <2>7. \A p \in Products : seen[p] \in 0 .. 2
    BY DEF CatalogTypeOK
  <2>8. /\ marks' \subseteq Stocked' /\ \A p \in Products : seen'[p] > 0 => p \in Stocked'
        /\ cursor' # None => ToMillis(cursor'.t) = cursor'.t
    <3>1. marks \subseteq Stocked /\ \A p \in Products : seen[p] > 0 => p \in Stocked
      BY <1>1 DEF ListsInv
    <3>2. \A p \in Products : seen'[p] > 0 => p \in Stocked
      BY <2>1, <2>2, <2>7, <3>1
    <3>3. CASE cursor' = None
      BY <2>1, <2>3, <3>1, <3>2, <3>3
    <3>4. CASE cursor' # None
      <4>1. PICK l \in page : cursor' = [t |-> ToMillis(rows[l].created), id |-> l]
        BY <2>2, <3>4
      <4>2. l \in Stocked /\ rows[l].created \in Nat
        BY <2>2, <4>1 DEF CatalogTypeOK
      <4>3. ToMillis(cursor'.t) = cursor'.t
        BY <4>1, <4>2, CutIs
      <4> QED BY <2>1, <2>3, <3>1, <3>2, <4>1, <4>2, <4>3
    <3> QED BY <3>3, <3>4
  <2>9. CASE q.sort = "created_at"
    <3>1. /\ cursor # None => ToMillis(cursor.t) = cursor.t
          /\ \A p \in Products :
               /\ (seen[p] > 0 /\ AfterCursor(q, p)) => q.asc /\ NextToACut(p)
               /\ (p \in steady /\ seen[p] = 0) => AfterCursor(q, p) \/ (~q.asc /\ NextToACut(p))
               /\ seen[p] > 1 => q.asc /\ NextToACut(p)
      BY <1>1, <2>9 DEF ListsInv, CursorInv, PagesComplete
    <3>2. \A p \in Products : seen'[p] > 1 => q.asc /\ NextToACut(p)'
      BY <2>1, <2>2, <2>4, <2>5, <2>7, <3>1
    <3>3. ASSUME pc' = "read", NEW p \in Products
          PROVE  /\ (seen'[p] > 0 /\ AfterCursor(q, p)') => q.asc /\ NextToACut(p)'
                 /\ (p \in steady /\ seen'[p] = 0) =>
                      AfterCursor(q, p)' \/ (~q.asc /\ NextToACut(p)')
      <4>1. PICK l \in page :
              /\ cursor' = [t |-> ToMillis(rows[l].created), id |-> l]
              /\ \A r \in page \ {l} : Precedes(q, r, l)
              /\ \A r \in Behind(q) \ page : Precedes(q, l, r)
        BY <2>1, <2>2, <3>3
      <4>2. cursor' # None /\ l \in marks' /\ l \in Products /\ AfterCursor(q, l)
        BY <2>1, <2>2, <2>5, <3>3, <4>1
      <4>3. /\ Precedes(q, l, p) => AfterCursor(q, p)' \/ (~q.asc /\ NextToACut(p)')
            /\ (p = l \/ Precedes(q, p, l)) /\ AfterCursor(q, p)' => q.asc /\ NextToACut(p)'
            /\ ~AfterCursor(q, p) /\ AfterCursor(q, p)' => q.asc /\ NextToACut(p)'
        BY <1>1, <2>9, <3>1, <4>1, <4>2, CursorMoves
      <4> HIDE DEF page
      <4>4. (seen'[p] > 0 /\ AfterCursor(q, p)') => q.asc /\ NextToACut(p)'
        BY <2>1, <2>4, <2>7, <3>1, <4>1, <4>3
      <4>5. (p \in steady /\ seen'[p] = 0) => AfterCursor(q, p)' \/ (~q.asc /\ NextToACut(p)')
        <5> SUFFICES ASSUME p \in steady, seen'[p] = 0
                     PROVE  AfterCursor(q, p)' \/ (~q.asc /\ NextToACut(p)')
          OBVIOUS
        <5>1. p \notin page /\ seen[p] = 0
          BY <2>1, <2>7
        <5> QED BY <2>4, <2>6, <3>1, <4>1, <4>3, <5>1
      <4> QED BY <4>4, <4>5
    <3>4. CursorInv'
      BY <1>1, <3>3 DEF CursorInv
    <3>5. \A p \in Products : (pc' = "done" /\ p \in steady /\ seen'[p] = 0) =>
                                 ~q.asc /\ NextToACut(p)'
      <4> SUFFICES ASSUME NEW p \in Products, pc' = "done", p \in steady, seen'[p] = 0
                   PROVE  ~q.asc /\ NextToACut(p)'
        OBVIOUS
      <4>1. p \notin page /\ seen[p] = 0 /\ page = Behind(q)
        <5> HIDE DEF page
        <5> QED BY <2>1, <2>2, <2>7
      <4> QED BY <2>4, <2>6, <3>1, <4>1
    <3>6. PriceInv' /\ OffsetInv'
      BY <1>1, <2>9 DEF PriceInv, OffsetInv
    <3>7. PagesComplete'
      BY <1>1, <3>2, <3>5 DEF PagesComplete
    <3> QED BY <1>1, <2>1, <2>8, <3>4, <3>6, <3>7 DEF ListsInv
  <2>10. CASE q.sort # "created_at"
    <3>1. q.sort = "price" /\ cursor = None
      BY <1>3, <2>10, RequestsAssumption
    <3>2. \A p \in Products : seen[p] = 0
      BY <1>1, <3>1 DEF ListsInv, PriceInv
    <3>3. \A p \in Products : seen'[p] \in {0, 1}
      BY <2>1, <3>2
    <3>4. PriceInv'
      BY <1>1, <2>1, <3>3 DEF PriceInv
    <3>5. CursorInv' /\ OffsetInv'
      BY <1>1, <2>10 DEF CursorInv, OffsetInv
    <3>6. \A p \in steady : AfterCursor(q, p)
      BY <3>1 DEF AfterCursor
    <3>7. ASSUME pc' = "done", NEW p \in steady PROVE seen'[p] # 0
      <4>1. p \in page
        <5> HIDE DEF page
        <5> QED BY <2>1, <2>2, <2>6, <3>6, <3>7
      <4> QED BY <2>1, <2>2, <2>7, <4>1
    <3>8. PagesComplete'
      BY <1>1, <3>3, <3>7 DEF PagesComplete
    <3> QED BY <1>1, <2>1, <2>8, <3>4, <3>5, <3>8 DEF ListsInv
  <2> QED BY <2>9, <2>10
<1> QED BY <1>2, <1>3

(* A page by offset.                                                        *)
LEMMA OffsetPage ==
  ASSUME CatalogInv, ListProducts, query.byOffset
  PROVE  ListsInv'
<1> USE DEF CatalogInv
<1> PICK q \in Queries("pages") : q = query
  BY DEF ListProducts, CatalogTypeOK
<1> DEFINE page == PageRows(q)
           line == Matching(q)
           rank == [p \in line |-> Ahead(q, line, p)]
<1>1. kind = "pages" /\ pc = "read" /\ rows' = rows /\ kind' = kind /\ query' = q /\ steady' = steady
      /\ quiet' = quiet /\ query = q
  BY DEF ListProducts, Stay, shopVars, ghosts
<1>2. cursor = None
  BY <1>1 DEF ListsInv, OffsetInv
<1>3. /\ seen' = [p \in Products |-> IF p \in page /\ seen[p] < 2 THEN seen[p] + 1 ELSE seen[p]]
      /\ cursor' = None /\ marks' = marks
      /\ offset' = IF Cardinality(page) = Limit THEN offset + Limit ELSE offset
      /\ pc' = IF offset' # offset THEN "read" ELSE "done"
  BY <1>1, <1>2 DEF ListProducts, NextCursor
<1>4. line \subseteq Stocked /\ Stocked \subseteq Products
  BY DEF Matching, Available, Stocked
<1>5. page = {p \in line : rank[p] \in offset .. offset + Limit - 1}
  BY <1>1 DEF PageRows
<1>6. \A p \in line : rank[p] \in Nat
  BY <1>4, AheadRanks
<1>7. /\ Stocked' = Stocked /\ Matching(q)' = line
      /\ \A p : Ahead(q, line, p)' = Ahead(q, line, p)
  BY <1>1, SameRowsSameList
<1>8. Limit \in Nat \ {0} /\ offset \in Nat /\ \A p \in Products : seen[p] \in 0 .. 2
  BY CatalogAssumption DEF CatalogTypeOK
<1>9. marks' \subseteq Stocked' /\ \A p \in Products : seen'[p] > 0 => p \in Stocked'
  <2>1. marks \subseteq Stocked /\ \A p \in Products : seen[p] > 0 => p \in Stocked
    BY <1>1 DEF ListsInv
  <2> HIDE DEF line, rank
  <2> QED BY <1>3, <1>4, <1>5, <1>7, <1>8, <2>1
<1>10. ASSUME quiet, NEW p \in Products
       PROVE  seen[p] = IF p \in line /\ rank[p] < offset THEN 1 ELSE 0
  BY <1>1, <1>10 DEF ListsInv, OffsetInv
<1>11. ASSUME quiet, NEW p \in Products
       PROVE  seen'[p] = IF p \in line /\ rank[p] < offset + Limit THEN 1 ELSE 0
  <2>1. seen[p] = IF p \in line /\ rank[p] < offset THEN 1 ELSE 0
    BY <1>10, <1>11
  <2>2. p \in line => rank[p] \in Nat
    BY <1>6
  <2>3. p \in page <=> p \in line /\ rank[p] \in offset .. offset + Limit - 1
    BY <1>5
  <2>4. seen'[p] = IF p \in page /\ seen[p] < 2 THEN seen[p] + 1 ELSE seen[p]
    BY <1>3
  <2> HIDE DEF line, rank, page
  <2> QED BY <1>8, <2>1, <2>2, <2>3, <2>4
<1>12. ASSUME quiet, pc' = "done", NEW p \in line PROVE rank[p] < offset + Limit
  <2> SUFFICES ASSUME rank[p] >= offset + Limit PROVE FALSE
    BY <1>6, <1>8
  <2>1. Ahead(q, line, p) >= offset + Limit
    OBVIOUS
  <2>2. Cardinality({r \in line : Ahead(q, line, r) \in offset .. offset + Limit - 1}) = Limit
    <3> HIDE DEF line
    <3> QED BY <1>4, <1>8, <2>1, WindowsFill
  <2>3. Cardinality(page) = Limit
    BY <1>1, <2>2 DEF PageRows
  <2> QED BY <1>3, <1>8, <1>12, <2>3
<1>13. OffsetInv'
  <2> SUFFICES ASSUME quiet, pc' = "read", NEW p \in Products
               PROVE  seen'[p] = IF p \in line /\ Ahead(q, line, p) < offset' THEN 1 ELSE 0
    BY <1>1, <1>3, <1>7 DEF OffsetInv
  <2>1. offset' = offset + Limit
    BY <1>3
  <2>2. seen'[p] = IF p \in line /\ rank[p] < offset + Limit THEN 1 ELSE 0
    BY <1>11
  <2> QED BY <2>1, <2>2
<1>14. PagesComplete'
  <2> SUFFICES ASSUME quiet, pc' = "done", NEW p \in Products
               PROVE  seen'[p] = IF p \in line THEN 1 ELSE 0
    BY <1>1, <1>7 DEF PagesComplete
  <2>1. seen'[p] = IF p \in line /\ rank[p] < offset + Limit THEN 1 ELSE 0
    BY <1>11
  <2>2. p \in line => rank[p] < offset + Limit
    BY <1>12
  <2> HIDE DEF line, rank
  <2> QED BY <2>1, <2>2
<1>15. CursorInv' /\ PriceInv'
  BY <1>1 DEF CursorInv, PriceInv
<1> QED BY <1>1, <1>3, <1>9, <1>13, <1>14, <1>15 DEF ListsInv
LEMMA ListsStep == CatalogInv /\ [CatalogNext]_catalogVars => ListsInv'
<1> SUFFICES ASSUME CatalogInv, [CatalogNext]_catalogVars PROVE ListsInv'
  OBVIOUS
<1>1. CASE kind # "pages"
  <2>1. kind' = kind
    BY ShopSteps DEF CatalogInv, CatalogNext, Request, EditStep, ClockStep, ListProducts, ListSellableIds,
       ListCategories, ListSections, LookupEvent, Expand, FetchProducts, Assemble, StatementFails,
       Stay, catalogVars
  <2> QED BY <1>1, <2>1 DEF ListsInv, CursorInv, PriceInv, OffsetInv, PagesComplete
<1>2. CASE kind = "pages"
  <2>1. pc \in {"read", "done", "refused", "failed"}
    BY <1>2 DEF CatalogInv, ListsInv
  <2>2. CASE ListProducts
    BY <2>2, CursorPage, OffsetPage
  <2>3. CASE StatementFails \/ UNCHANGED catalogVars
    <3>1. ListIdle
      BY <2>3 DEF ListIdle, StatementFails, Stay, catalogVars, shopVars
    <3> QED BY <1>2, <3>1, ListIdleKeeps
  <2>4. CASE Shop
    <3>1. CASE EditStep
      BY <1>2, <3>1, EditKeepsLists
    <3>2. CASE ClockStep
      <4>1. ListIdle
        BY <3>2 DEF ListIdle, ClockStep
      <4> QED BY <1>2, <4>1, ListIdleKeeps
    <3> QED BY <2>4, <3>1, <3>2, ShopSteps DEF CatalogInv
  <2>5. ~(ListSellableIds \/ ListCategories \/ ListSections \/ LookupEvent)
    BY <1>2 DEF ListSellableIds, ListCategories, ListSections, LookupEvent
  <2>6. ~(FetchProducts \/ Assemble \/ \E s \in DOMAIN Sections : Expand(s))
    BY <2>1 DEF FetchProducts, Assemble, Expand
  <2> QED BY <2>2, <2>3, <2>4, <2>5, <2>6 DEF CatalogNext, Request
<1> QED BY <1>1, <1>2

(* What is steady is offered: an edit that withdraws a product ends that.   *)
LEMMA SteadyStep == CatalogInv /\ [CatalogNext]_catalogVars => steady' \subseteq Offered'
<1> SUFFICES ASSUME CatalogInv, [CatalogNext]_catalogVars PROVE steady' \subseteq Offered'
  OBVIOUS
<1>1. CASE EditStep
  BY <1>1 DEF EditStep
<1>2. CASE UNCHANGED <<rows, kind, query, steady>>
  <2>1. Offered' = Offered
    BY <1>2, SameRowsSameOffer
  <2> QED BY <1>2, <2>1 DEF CatalogInv
<1>3. EditStep \/ UNCHANGED <<rows, kind, query, steady>>
  BY ShopSteps DEF CatalogInv, CatalogNext, Request, ClockStep, ListProducts, ListSellableIds,
     ListCategories, ListSections, LookupEvent, Expand, FetchProducts, Assemble, StatementFails,
     Stay, shopVars, ghosts, catalogVars
<1> QED BY <1>1, <1>2, <1>3

-----------------------------------------------------------------------------
(* Browsing.                                                                *)

(* The categories that lead to a sellable product are those whose page has  *)
(* one, and a list of their products is not empty.                          *)
LEMMA SellableIdsLead ==
  ASSUME CatalogTypeOK
  PROVE  /\ SellableCategoryIds =
              {c \in Categories : \E p \in Products : Sellable(p) /\ rows[p].category \in Tree(c)}
         /\ \A c \in SellableCategoryIds :
              LET inside == Matching([category |-> c, descend |-> FALSE, all |-> FALSE])
              IN  inside # {} /\ \A p \in inside : ProductPage(p)
<1>1. \A p \in Products : rows[p].category \in Categories \cup {None}
  BY DEF CatalogTypeOK
<1>2. \A c \in Categories : \A d : d \in Tree(c) <=> d \in Categories /\ c \in Lineage[d]
  BY DEF Tree
<1>3. SellableCategoryIds =
        {c \in Categories : \E p \in Products : Sellable(p) /\ rows[p].category \in Tree(c)}
  <2>1. ASSUME NEW c \in SellableCategoryIds
        PROVE  c \in Categories /\ \E p \in Products : Sellable(p) /\ rows[p].category \in Tree(c)
    <3>1. PICK p \in Products : Sellable(p) /\ rows[p].category # None
                                /\ c \in Lineage[rows[p].category]
      BY DEF SellableCategoryIds
    <3>2. rows[p].category \in Categories /\ c \in Categories
      BY <1>1, <3>1, LineageType
    <3> QED BY <1>2, <3>1, <3>2
  <2>2. ASSUME NEW c \in Categories, NEW p \in Products, Sellable(p), rows[p].category \in Tree(c)
        PROVE  c \in SellableCategoryIds
    <3>1. rows[p].category # None /\ c \in Lineage[rows[p].category]
      BY <1>2, <2>2, CatalogAssumption
    <3> QED BY <2>2, <3>1 DEF SellableCategoryIds
  <2> QED BY <2>1, <2>2
<1>4. ASSUME NEW c \in SellableCategoryIds
      PROVE  LET inside == Matching([category |-> c, descend |-> FALSE, all |-> FALSE])
             IN  inside # {} /\ \A p \in inside : ProductPage(p)
  <2> DEFINE q == [category |-> c, descend |-> FALSE, all |-> FALSE]
  <2>1. q.category = c /\ ~q.descend /\ ~q.all /\ c \in Categories /\ c # None
    BY <1>3, <1>4, CatalogAssumption
  <2> HIDE DEF q
  <2>2. \A p \in Products : Available(q, p) <=> Sellable(p)
    BY <2>1 DEF Available, Sellable
  <2>3. PICK p \in Products : Sellable(p) /\ rows[p].category \in Tree(c)
    BY <1>3, <1>4
  <2>4. Matching(q) = {r \in Products : Sellable(r) /\ rows[r].category \in EffectiveCategories(q)}
    BY <2>1, <2>2 DEF Matching
  <2>5. EffectiveCategories(q) =
          IF \E r \in Products : Sellable(r) /\ rows[r].category = c THEN {c} ELSE Tree(c) \ {c}
    BY <2>1, <2>2 DEF EffectiveCategories
  <2>6. Matching(q) # {}
    <3>1. CASE \E r \in Products : Sellable(r) /\ rows[r].category = c
      BY <2>4, <2>5, <3>1
    <3>2. CASE ~\E r \in Products : Sellable(r) /\ rows[r].category = c
      <4>1. p \in Matching(q)
        BY <2>3, <2>4, <2>5, <3>2
      <4> QED BY <4>1
    <3> QED BY <3>1, <3>2
  <2>7. \A r \in Matching(q) : ProductPage(r)
    BY <2>4 DEF ProductPage
  <2> QED BY <2>6, <2>7 DEF q
<1> QED BY <1>3, <1>4

LEMMA BrowseStep == CatalogInv /\ [CatalogNext]_catalogVars => BrowseInv'
<1> SUFFICES ASSUME CatalogInv, [CatalogNext]_catalogVars PROVE BrowseInv'
  OBVIOUS
<1> USE DEF CatalogInv
<1>1. CASE kind # "categories"
  <2>1. kind' = kind
    BY ShopSteps DEF CatalogNext, Request, EditStep, ClockStep, ListProducts, ListSellableIds,
       ListCategories, ListSections, LookupEvent, Expand, FetchProducts, Assemble, StatementFails,
       Stay, catalogVars
  <2> QED BY <1>1, <2>1 DEF BrowseInv, BrowsingAgrees
<1>2. CASE kind = "categories"
  <2>1. pc \in {"read", "list", "done", "failed"}
    BY <1>2 DEF BrowseInv
  <2>2. CASE ListSellableIds
    <3>1. /\ kind' = kind /\ query' = query /\ rows' = rows /\ hidden' = hidden
          /\ pc = "read" /\ ids' = SellableCategoryIds /\ answer' = answer
          /\ pc' = IF ids' = {} THEN "done" ELSE "list"
      BY <2>2 DEF ListSellableIds, Stay, shopVars
    <3>2. SellableCategoryIds' = SellableCategoryIds /\ (\A c : CategoryPage(c)' <=> CategoryPage(c))
      BY <3>1 DEF SellableCategoryIds, CategoryPage, Sellable, Stocked, Visible
    <3>3. answer' = {}
      BY <1>2, <3>1 DEF BrowseInv
    <3>4. pc' = "done" => \A c \in Categories : ~CategoryPage(c)
      BY <3>1, SellableIdsLead DEF CategoryPage
    <3>5. BrowsingAgrees'
      <4> SUFFICES ASSUME pc' = "done" PROVE BrowsingAgrees'
        BY DEF BrowsingAgrees
      <4>1. {c \in Categories : Asked(c) /\ CategoryPage(c)}' = {}
        BY <3>2, <3>4
      <4>2. {} \in Cuts({}, CategoryLimit')
        <5>1. CategoryLimit' \in Nat \ {0}
          BY CatalogAssumption DEF CategoryLimit
        <5> QED BY <5>1, FS_EmptySet DEF Cuts
      <4>3. Cuts({c \in Categories : Asked(c) /\ CategoryPage(c)}, CategoryLimit)'
              = Cuts({c \in Categories : Asked(c) /\ CategoryPage(c)}', CategoryLimit')
        BY DEF Cuts
      <4> QED BY <3>3, <4>1, <4>2, <4>3 DEF BrowsingAgrees
    <3> QED BY <3>1, <3>2, <3>3, <3>5 DEF BrowseInv
  <2>3. CASE ListCategories
    <3>1. /\ kind' = kind /\ query' = query /\ rows' = rows /\ hidden' = hidden /\ quiet' = quiet
          /\ pc = "list" /\ pc' = "done"
          /\ answer' \in Cuts({c \in ids : Visible(c) /\ Asked(c)}, CategoryLimit)
      BY <2>3 DEF ListCategories, Stay, shopVars, ghosts
    <3>2. ASSUME quiet PROVE BrowsingAgrees'
      <4>1. ids = SellableCategoryIds
        BY <1>2, <3>1, <3>2 DEF BrowseInv
      <4>2. {c \in ids : Visible(c) /\ Asked(c)} = {c \in Categories : Asked(c) /\ CategoryPage(c)}
        BY <4>1, SellableIdsLead DEF CategoryPage
      <4>3. /\ \A c : (CategoryPage(c)' <=> CategoryPage(c)) /\ (Asked(c)' <=> Asked(c))
            /\ CategoryLimit' = CategoryLimit
        BY <3>1 DEF CategoryPage, Sellable, Stocked, Visible, Asked, CategoryLimit
      <4>4. ASSUME NEW c \in answer'
            PROVE  LET inside == Matching([category |-> c, descend |-> FALSE, all |-> FALSE])'
                   IN  inside # {} /\ \A p \in inside : ProductPage(p)'
        <5>1. c \in SellableCategoryIds
          BY <3>1, <4>1 DEF Cuts
        <5> DEFINE q == [category |-> c, descend |-> FALSE, all |-> FALSE]
        <5>2. Matching(q)' = Matching(q) /\ Stocked' = Stocked
          <6> HIDE DEF q
          <6> QED BY <3>1, SameRowsSameList
        <5>3. \A p : ProductPage(p)' <=> ProductPage(p)
          BY <3>1, <5>2 DEF ProductPage, Sellable
        <5> QED BY <5>1, <5>2, <5>3, SellableIdsLead
      <4>5. answer' \in Cuts({c \in Categories : Asked(c)' /\ CategoryPage(c)'}, CategoryLimit')
        BY <3>1, <4>2, <4>3
      <4>6. Cuts({c \in Categories : Asked(c) /\ CategoryPage(c)}, CategoryLimit)'
              = Cuts({c \in Categories : Asked(c)' /\ CategoryPage(c)'}, CategoryLimit')
        BY DEF Cuts
      <4> QED BY <4>4, <4>5, <4>6 DEF BrowsingAgrees
    <3>3. BrowsingAgrees'
      BY <3>1, <3>2 DEF BrowsingAgrees
    <3> QED BY <3>1, <3>3 DEF BrowseInv
  <2>4. CASE StatementFails
    <3>1. kind' = kind /\ pc' = "failed"
      BY <2>4 DEF StatementFails, Stay
    <3> QED BY <3>1 DEF BrowseInv, BrowsingAgrees
  <2>5. CASE EditStep
    <3>1. kind' = kind /\ pc' = pc /\ pc # "done" /\ answer' = answer /\ quiet' = FALSE
      BY <2>5 DEF EditStep
    <3> QED BY <1>2, <3>1 DEF BrowseInv, BrowsingAgrees
  <2>6. CASE UNCHANGED catalogVars
    <3>1. UNCHANGED <<rows, hidden, kind, query, pc, ids, answer, quiet>>
      BY <2>6 DEF catalogVars, shopVars, ghosts
    <3>2. SellableCategoryIds' = SellableCategoryIds
      BY <3>1 DEF SellableCategoryIds, Sellable, Stocked
    <3>3. /\ \A c : (CategoryPage(c)' <=> CategoryPage(c)) /\ (Asked(c)' <=> Asked(c))
          /\ Cuts({c \in Categories : Asked(c) /\ CategoryPage(c)}, CategoryLimit)'
               = Cuts({c \in Categories : Asked(c) /\ CategoryPage(c)}, CategoryLimit)
      BY <3>1 DEF CategoryPage, Sellable, Stocked, Visible, Asked, CategoryLimit, Cuts
    <3>4. \A c : Matching([category |-> c, descend |-> FALSE, all |-> FALSE])'
                   = Matching([category |-> c, descend |-> FALSE, all |-> FALSE])
      BY <3>1, SameRowsSameList
    <3>5. \A p : ProductPage(p)' <=> ProductPage(p)
      BY <3>1 DEF ProductPage, Sellable, Stocked
    <3>6. BrowsingAgrees'
      BY <3>1, <3>3, <3>4, <3>5 DEF BrowseInv, BrowsingAgrees
    <3> QED BY <1>2, <3>1, <3>2, <3>6 DEF BrowseInv
  <2>7. ~ClockStep
    BY <1>2 DEF ClockStep
  <2>8. ~(ListProducts \/ ListSections \/ LookupEvent)
    BY <1>2 DEF ListProducts, ListSections, LookupEvent
  <2>9. ~(FetchProducts \/ Assemble \/ \E s \in DOMAIN Sections : Expand(s))
    BY <2>1 DEF FetchProducts, Assemble, Expand
  <2> QED BY <2>2, <2>3, <2>4, <2>5, <2>6, <2>7, <2>8, <2>9, ShopSteps DEF CatalogNext, Request
<1> QED BY <1>1, <1>2
-----------------------------------------------------------------------------
(* Home sections.                                                           *)

LEMMA Greatest ==
  ASSUME NEW N \in Nat, NEW I \in SUBSET (1 .. N), I # {}
  PROVE  \E m \in I : \A i \in I : i <= m
<1> DEFINE T == {N - i : i \in I}
<1>1. T \subseteq Nat /\ T # {}
  <2>1. \A i \in I : N - i \in Nat
    OBVIOUS
  <2>2. T # {}
    OBVIOUS
  <2> QED BY <2>1, <2>2
<1>2. PICK d \in T : \A e \in T : ~(<<e, d>> \in OpToRel(<, Nat))
  <2> HIDE DEF T
  <2> QED BY <1>1, NatLessThanWellFounded, WFMin
<1>3. PICK m \in I : d = N - m
  OBVIOUS
<1>4. m \in Nat /\ N - m \in T /\ d = N - m
  <2>1. m \in 1 .. N
    OBVIOUS
  <2> QED BY <1>3, <2>1
<1>5. ASSUME NEW i \in I PROVE i <= m
  <2>1. i \in 1 .. N /\ N - i \in T
    OBVIOUS
  <2> HIDE DEF T
  <2>2. i \in Nat /\ N - i \in Nat /\ N - m \in Nat
    BY <1>1, <1>4, <2>1
  <2>3. ~(<<N - i, N - m>> \in OpToRel(<, Nat))
    BY <1>2, <1>4, <2>1
  <2>4. ~(N - i < N - m)
    BY <2>2, <2>3 DEF OpToRel
  <2> QED BY <1>4, <2>2, <2>4
<1> QED BY <1>5

(* A shelf's explicit products are at most the cap.                         *)
LEMMA ExplicitFits ==
  ASSUME NEW s \in DOMAIN Sections
  PROVE  Cardinality(Explicit(s)) \in Nat /\ Cardinality(Explicit(s)) <= ShelfCap
<1> DEFINE line == Sections[s].products
           UpTo(i) == {line[j] : j \in 1..i}
           I == {i \in DOMAIN line : Cardinality(UpTo(i)) <= ShelfCap}
<1>1. ShelfCap \in Nat \ {0} /\ line \in Seq(Products) /\ Len(line) \in Nat
  BY CatalogAssumption, SectionsAssumption
<1>2. DOMAIN line = 1 .. Len(line)
  BY <1>1
<1>3. Explicit(s) = {line[i] : i \in I}
  BY DEF Explicit
<1>4. CASE I = {}
  <2>1. Explicit(s) = {}
    BY <1>3, <1>4
  <2> QED BY <1>1, <2>1, FS_EmptySet
<1>5. CASE I # {}
  <2>1. PICK m \in I : \A i \in I : i <= m
    <3>1. I \in SUBSET (1 .. Len(line))
      BY <1>2
    <3> HIDE DEF I
    <3> QED BY <1>1, <1>5, <3>1, Greatest
  <2>2. m \in 1 .. Len(line) /\ Cardinality(UpTo(m)) <= ShelfCap
    BY <1>2
  <2>3. Explicit(s) \subseteq UpTo(m)
    <3>1. \A i \in I : i \in 1 .. m
      <4>1. \A i \in I : i \in 1 .. Len(line)
        BY <1>2
      <4> HIDE DEF I
      <4> QED BY <2>1, <2>2, <4>1
    <3> QED BY <1>3, <3>1
  <2>4. IsFiniteSet(UpTo(m))
    <3>1. IsFiniteSet(1 .. m)
      BY <2>2, FS_Interval
    <3>2. [j \in 1 .. m |-> line[j]] \in Surjection(1 .. m, UpTo(m))
      BY DEF Surjection
    <3> HIDE DEF UpTo
    <3> QED BY <3>1, <3>2, FS_Surjection
  <2>5. /\ IsFiniteSet(Explicit(s)) /\ Cardinality(Explicit(s)) <= Cardinality(UpTo(m))
        /\ Cardinality(Explicit(s)) \in Nat /\ Cardinality(UpTo(m)) \in Nat
    <3> HIDE DEF UpTo
    <3>1. IsFiniteSet(Explicit(s)) /\ Cardinality(Explicit(s)) <= Cardinality(UpTo(m))
      BY <2>3, <2>4, FS_Subset
    <3> QED BY <2>4, <3>1, FS_CardinalityType
  <2> HIDE DEF UpTo
  <2> QED BY <1>1, <2>2, <2>5
<1> QED BY <1>4, <1>5

(* The categories of a shelf give it something when they have something.    *)
LEMMA ExpansionsFound ==
  ASSUME CatalogTypeOK, NEW s \in DOMAIN Sections, NEW F \in Expansions(s),
         NEW p \in Products, Sellable(p), p \in Below(s)
  PROVE  F # {}
<1> DEFINE all == {r \in Products : /\ Sellable(r)
                                    /\ \E c \in Sections[s].categories : rows[r].category \in Tree(c)}
<1>1. p \in all /\ all \in SUBSET Products
  BY DEF Below
<1>2. Cardinality(F) = (IF Cardinality(all) < ShelfCap THEN Cardinality(all) ELSE ShelfCap)
  BY DEF Expansions, Cuts
<1> HIDE DEF all
<1>3. IsFiniteSet(all) /\ Cardinality(all) \in Nat \ {0}
  BY <1>1, LinesFinite, FS_EmptySet
<1>4. ShelfCap \in Nat \ {0}
  BY CatalogAssumption
<1>5. Cardinality(F) # 0
  BY <1>2, <1>3, <1>4
<1> QED BY <1>5, FS_EmptySet

(* A shelf with room for fillers and any of them to show has one, explicit  *)
(* or not.                                                                  *)
LEMMA MergesFill ==
  ASSUME CatalogTypeOK, NEW s \in DOMAIN fillers, NEW shelf \in Merges(s), fillers[s] # {},
         Cardinality(Explicit(s)) # ShelfCap
  PROVE  shelf \cap fillers[s] # {}
<1> DEFINE new == fillers[s] \ Explicit(s)
           room == ShelfCap - Cardinality(Explicit(s))
<1>1. s \in DOMAIN Sections /\ fillers[s] \in SUBSET Products
  BY DEF CatalogTypeOK, Shelves
<1>2. room \in Nat \ {0}
  BY <1>1, ExplicitFits, CatalogAssumption
<1>3. PICK F \in SUBSET new : /\ shelf = Explicit(s) \cup F
                              /\ Cardinality(F) = (IF Cardinality(new) < room
                                                   THEN Cardinality(new) ELSE room)
  BY DEF Merges, Cuts
<1>4. CASE new = {}
  BY <1>3, <1>4
<1>5. CASE new # {}
  <2>1. IsFiniteSet(new) /\ Cardinality(new) \in Nat \ {0}
    <3>1. new \in SUBSET Products
      BY <1>1
    <3> HIDE DEF new
    <3> QED BY <1>5, <3>1, LinesFinite, FS_EmptySet
  <2>2. Cardinality(F) # 0
    <3> HIDE DEF new, room
    <3> QED BY <1>2, <1>3, <2>1
  <2>3. F # {}
    BY <2>2, FS_EmptySet
  <2> QED BY <1>3, <2>3
<1> QED BY <1>4, <1>5

(* The parts of a shelf depend on the plan and the fillers alone.           *)
LEMMA SameShelves ==
  ASSUME plan' = plan, fillers' = fillers
  PROVE  /\ Shelves' = Shelves /\ CategoryRows' = CategoryRows
         /\ \A s : Merges(s)' = Merges(s)
BY DEF Shelves, CategoryRows, Merges, Cuts

(* Time, failures and edits leave what was found as it is.                  *)
ShelvesIdle ==
  /\ UNCHANGED <<kind, plan, fillers, failed, fetched, shown>>
  /\ steady' \subseteq steady /\ \A p \in steady' : rows'[p] = rows[p]
  /\ \/ pc' = pc /\ (pc # "done" \/ rows' = rows)
     \/ pc' = "failed"

LEMMA ShelvesIdleKeeps ==
  CatalogInv /\ kind \in {"home", "event"} /\ ShelvesIdle => ShelvesInv'
<1> SUFFICES ASSUME CatalogInv, kind \in {"home", "event"}, ShelvesIdle PROVE ShelvesInv'
  OBVIOUS
<1>1. /\ kind' = kind /\ plan' = plan /\ fillers' = fillers /\ failed' = failed
      /\ fetched' = fetched /\ shown' = shown /\ steady' \subseteq steady
      /\ pc' = pc \/ pc' = "failed"
  BY DEF ShelvesIdle
<1>2. /\ Shelves' = Shelves /\ CategoryRows' = CategoryRows
      /\ \A s : Merges(s)' = Merges(s)
  BY <1>1, SameShelves
<1>3. \A s : steady' \cap Below(s)' \subseteq steady \cap Below(s)
  BY <1>1 DEF ShelvesIdle, Below
<1>4. ShelvesJustified'
  <2> SUFFICES ASSUME pc' = "done", plan # {}, NEW s \in Shelves, shown[s] = {}, NEW p \in steady'
               PROVE  /\ p \notin Explicit(s)
                      /\ (\E c \in Sections[s].categories :
                            rows'[p].category # None /\ c \in Lineage[rows'[p].category])
                         => s \in failed \/ Cardinality(Explicit(s)) = ShelfCap
    BY <1>1, <1>2 DEF ShelvesJustified
  <2>1. pc = "done" /\ p \in steady /\ rows'[p] = rows[p]
    BY <1>1 DEF ShelvesIdle
  <2> QED BY <2>1 DEF CatalogInv, ShelvesInv, ShelvesJustified
<1>5. /\ pc' \in {"read", "expand", "fetched", "done", "failed"}
      /\ pc' = "read" => plan' = {} /\ DOMAIN fillers' = {}
      /\ pc' = "fetched" =>
            /\ Shelves' \subseteq DOMAIN fillers' /\ DOMAIN shown' = Shelves'
            /\ \A s \in Shelves' : /\ shown'[s] \in Merges(s)'
                                   /\ shown'[s] \cap steady' \subseteq CategoryRows' \cup fetched'
  BY <1>1, <1>2 DEF CatalogInv, ShelvesInv
<1>6. \A s \in DOMAIN fillers' \ failed' : steady' \cap Below(s)' # {} => fillers'[s] # {}
  BY <1>1, <1>3 DEF CatalogInv, ShelvesInv
<1> QED BY <1>4, <1>5, <1>6 DEF ShelvesInv

LEMMA ShelvesStep == CatalogInv /\ [CatalogNext]_catalogVars => ShelvesInv'
<1> SUFFICES ASSUME CatalogInv, [CatalogNext]_catalogVars PROVE ShelvesInv'
  OBVIOUS
<1> USE DEF CatalogInv
<1>1. CASE kind \notin {"home", "event"}
  <2>1. kind' = kind
    BY ShopSteps DEF CatalogNext, Request, EditStep, ClockStep, ListProducts, ListSellableIds,
       ListCategories, ListSections, LookupEvent, Expand, FetchProducts, Assemble, StatementFails,
       Stay, catalogVars
  <2> QED BY <1>1, <2>1 DEF ShelvesInv, ShelvesJustified
<1>2. CASE kind \in {"home", "event"}
  <2>1. CASE ListSections \/ LookupEvent
    <3>1. /\ kind' = kind /\ fillers' = fillers /\ pc = "read"
          /\ pc' = "expand" \/ (pc' = "done" /\ plan' = {})
      BY <1>2, <2>1 DEF ListSections, LookupEvent, Stay, ShelvesInv
    <3>2. DOMAIN fillers' = {}
      BY <1>2, <3>1 DEF ShelvesInv
    <3> QED BY <1>2, <3>1, <3>2 DEF ShelvesInv, ShelvesJustified
  <2>2. CASE \E s \in DOMAIN Sections : Expand(s)
    <3>1. PICK s \in DOMAIN Sections : Expand(s)
      BY <2>2
    <3>2. /\ DOMAIN fillers' = DOMAIN fillers \cup {s}
          /\ \A x \in DOMAIN fillers : x # s /\ fillers'[x] = fillers[x]
          /\ \/ fillers'[s] \in Expansions(s) /\ failed' = failed
             \/ failed' = failed \cup {s}
      BY <3>1, ExpandGives
    <3>3. kind' = kind /\ pc' = "expand" /\ rows' = rows /\ steady' = steady
      BY <3>1 DEF Expand, Stay, shopVars, ghosts
    <3>4. \A x : Below(x)' = Below(x)
      BY <3>3 DEF Below
    <3>5. ASSUME NEW x \in DOMAIN fillers' \ failed', NEW p \in steady, p \in Below(x)
          PROVE  fillers'[x] # {}
      <4>1. CASE x = s
        <5>1. fillers'[s] \in Expansions(s)
          BY <3>2, <3>5, <4>1
        <5>2. p \in Products /\ Sellable(p)
          BY <1>2, <3>5 DEF Offered
        <5> QED BY <3>5, <4>1, <5>1, <5>2, ExpansionsFound
      <4>2. CASE x # s
        BY <1>2, <3>2, <3>5, <4>2 DEF ShelvesInv
      <4> QED BY <4>1, <4>2
    <3> QED BY <3>3, <3>4, <3>5 DEF ShelvesInv, ShelvesJustified
  <2>3. CASE FetchProducts
    <3>1. PICK merged \in [Shelves -> SUBSET Products] :
            /\ \A s \in Shelves : merged[s] \in Merges(s)
            /\ shown' = merged
            /\ fetched' = {p \in Wanted(merged) \ CategoryRows : Sellable(p)}
      BY <2>3 DEF FetchProducts
    <3>2. /\ kind' = kind /\ pc' = "fetched" /\ rows' = rows /\ steady' = steady /\ plan' = plan
          /\ fillers' = fillers /\ failed' = failed /\ Shelves \subseteq DOMAIN fillers
      BY <2>3 DEF FetchProducts, Stay, shopVars, ghosts
    <3>3. /\ Shelves' = Shelves /\ CategoryRows' = CategoryRows
          /\ \A s : Merges(s)' = Merges(s)
      BY <3>2, SameShelves
    <3>4. \A x : Below(x)' = Below(x)
      BY <3>2 DEF Below
    <3>5. ASSUME NEW s \in Shelves, NEW p \in merged[s], p \in steady, p \notin CategoryRows
          PROVE  p \in fetched'
      <4>1. p \in Wanted(merged)
        BY <3>5 DEF Wanted, Shelves
      <4>2. Sellable(p)
        BY <1>2, <3>5 DEF Offered
      <4> QED BY <3>1, <3>5, <4>1, <4>2
    <3>6. \A s \in DOMAIN fillers' \ failed' : steady' \cap Below(s)' # {} => fillers'[s] # {}
      BY <1>2, <3>2, <3>4 DEF ShelvesInv
    <3>7. \A s \in Shelves' : /\ shown'[s] \in Merges(s)'
                              /\ shown'[s] \cap steady' \subseteq CategoryRows' \cup fetched'
      BY <3>1, <3>2, <3>3, <3>5
    <3> QED BY <3>1, <3>2, <3>3, <3>6, <3>7 DEF ShelvesInv, ShelvesJustified
  <2>4. CASE Assemble
    <3>1. /\ kind' = kind /\ pc = "fetched" /\ pc' = "done" /\ rows' = rows /\ steady' = steady
          /\ plan' = plan /\ fillers' = fillers /\ failed' = failed
          /\ shown' = [s \in Shelves |-> shown[s] \cap (CategoryRows \cup fetched)]
      BY <2>4, HaveAllShown DEF Assemble, Stay, shopVars, ghosts
    <3>2. Shelves' = Shelves
      BY <3>1 DEF Shelves
    <3>3. /\ Shelves \subseteq DOMAIN fillers
          /\ \A s \in Shelves : /\ shown[s] \in Merges(s)
                                /\ shown[s] \cap steady \subseteq CategoryRows \cup fetched
      BY <1>2, <3>1 DEF ShelvesInv
    <3>4. \A x : Below(x)' = Below(x)
      BY <3>1 DEF Below
    <3>5. ASSUME NEW s \in Shelves, shown[s] \cap (CategoryRows \cup fetched) = {}, NEW p \in steady
          PROVE  /\ p \notin Explicit(s)
                 /\ (\E c \in Sections[s].categories :
                       rows[p].category # None /\ c \in Lineage[rows[p].category])
                    => s \in failed \/ Cardinality(Explicit(s)) = ShelfCap
      <4>1. Explicit(s) \subseteq shown[s]
        BY <3>3 DEF Merges, Cuts
      <4>2. p \notin Explicit(s)
        BY <3>3, <3>5, <4>1
      <4>3. SUFFICES ASSUME NEW c \in Sections[s].categories, rows[p].category # None,
                            c \in Lineage[rows[p].category], s \notin failed,
                            Cardinality(Explicit(s)) # ShelfCap
                     PROVE  FALSE
        BY <4>2
      <4>4. p \in Products /\ rows[p].category \in Categories
        BY <4>3 DEF CatalogTypeOK
      <4>5. p \in Below(s)
        BY <4>3, <4>4 DEF Below, Tree
      <4>6. fillers[s] # {}
        BY <1>2, <3>3, <4>3, <4>5 DEF ShelvesInv
      <4>7. shown[s] \cap fillers[s] # {}
        BY <3>3, <4>3, <4>6, MergesFill
      <4>8. fillers[s] \subseteq CategoryRows
        BY DEF CategoryRows
      <4> QED BY <3>5, <4>7, <4>8
    <3>6. ShelvesJustified'
      <4> SUFFICES ASSUME NEW s \in Shelves, shown'[s] = {}, NEW p \in steady
                   PROVE  /\ p \notin Explicit(s)
                          /\ (\E c \in Sections[s].categories :
                                rows[p].category # None /\ c \in Lineage[rows[p].category])
                             => s \in failed \/ Cardinality(Explicit(s)) = ShelfCap
        BY <3>1, <3>2 DEF ShelvesJustified
      <4>1. shown[s] \cap (CategoryRows \cup fetched) = {}
        BY <3>1
      <4> QED BY <3>5, <4>1
    <3>7. \A s \in DOMAIN fillers' \ failed' : steady' \cap Below(s)' # {} => fillers'[s] # {}
      BY <1>2, <3>1, <3>4 DEF ShelvesInv
    <3> QED BY <3>1, <3>6, <3>7 DEF ShelvesInv
  <2>5. CASE StatementFails \/ Shop \/ UNCHANGED catalogVars
    <3>1. ShelvesIdle
      <4>1. CASE StatementFails \/ UNCHANGED catalogVars
        BY <4>1 DEF StatementFails, ShelvesIdle, Stay, catalogVars, shopVars, shelfVars, ghosts
      <4>2. CASE EditStep
        BY <4>2 DEF EditStep, ShelvesIdle, shelfVars
      <4>3. CASE ClockStep
        BY <4>3 DEF ClockStep, ShelvesIdle, shelfVars, ghosts
      <4> QED BY <2>5, <4>1, <4>2, <4>3, ShopSteps
    <3> QED BY <1>2, <3>1, ShelvesIdleKeeps
  <2>6. ~(ListProducts \/ ListSellableIds \/ ListCategories)
    BY <1>2 DEF ListProducts, ListSellableIds, ListCategories
  <2> QED BY <2>1, <2>2, <2>3, <2>4, <2>5, <2>6 DEF CatalogNext, Request
<1> QED BY <1>1, <1>2

-----------------------------------------------------------------------------
LEMMA CatalogInitInv == CatalogInit => CatalogInv
<1> SUFFICES ASSUME CatalogInit PROVE CatalogInv
  OBVIOUS
<1>1. CatalogTypeOK
  BY CatalogInitType
<1>2. /\ pc = "read" /\ cursor = None /\ offset = 0 /\ marks = {} /\ answer = {}
      /\ plan = {} /\ DOMAIN fillers = {} /\ steady = Offered
      /\ \A p \in Products : seen[p] = 0
  BY DEF CatalogInit
<1>3. \A p : AfterCursor(query, p)
  BY <1>2 DEF AfterCursor
<1>4. ListsInv
  <2>1. CursorInv /\ PriceInv
    BY <1>2, <1>3 DEF CursorInv, PriceInv
  <2>2. OffsetInv
    <3> SUFFICES ASSUME kind = "pages", query.byOffset, NEW p \in Products, p \in Matching(query),
                        Ahead(query, Matching(query), p) < 0
                 PROVE  FALSE
      BY <1>2 DEF OffsetInv
    <3>1. Ahead(query, Matching(query), p) \in Nat
      BY LinesFinite DEF Ahead, Matching
    <3> QED BY <3>1
  <2>3. PagesComplete
    BY <1>2 DEF PagesComplete
  <2> QED BY <1>2, <2>1, <2>2, <2>3 DEF ListsInv
<1>5. BrowseInv
  BY <1>2 DEF BrowseInv, BrowsingAgrees
<1>6. ShelvesInv
  BY <1>2 DEF ShelvesInv, ShelvesJustified
<1> QED BY <1>1, <1>2, <1>4, <1>5, <1>6 DEF CatalogInv

(* The invariant of the catalogue's requests.                               *)
LEMMA AlwaysCatalogInv == CatalogSpec => []CatalogInv
<1>1. CatalogInv /\ [CatalogNext]_catalogVars => CatalogInv'
  BY CatalogTypeStep, SteadyStep, ListsStep, BrowseStep, ShelvesStep DEF CatalogInv
<1> QED BY <1>1, CatalogInitInv, PTL DEF CatalogSpec

(* The variables of a request keep their types, whatever the shop edits     *)
(* between its statements.                                                  *)
THEOREM CatalogTypeCorrect == CatalogSpec => []CatalogTypeOK
<1>1. CatalogInv => CatalogTypeOK
  BY DEF CatalogInv
<1> QED BY <1>1, AlwaysCatalogInv, PTL

(* For every catalogue, page size and order: following the cursor visits    *)
(* each product that stays listed and none twice, but for the products cut  *)
(* off by the milliseconds of a JavaScript date; pages by offset are exact  *)
(* while nothing changes (listProducts).                                    *)
THEOREM PagesAreComplete == CatalogSpec => []PagesComplete
<1>1. CatalogInv => PagesComplete
  BY DEF CatalogInv, ListsInv
<1> QED BY <1>1, AlwaysCatalogInv, PTL

(* For every tree of categories: those listed are those whose own page is   *)
(* found, and each leads to a product (listCategories,                      *)
(* getCategoryBySlugStorefront).                                            *)
THEOREM BrowsingAlwaysAgrees == CatalogSpec => []BrowsingAgrees
<1>1. CatalogInv => BrowsingAgrees
  BY DEF CatalogInv, BrowseInv
<1> QED BY <1>1, AlwaysCatalogInv, PTL

(* For every set of sections and every cap: a shelf with a product that     *)
(* stayed sellable is empty only when its categories' statement failed or   *)
(* explicit products fill it (resolveStorefrontHomeSections).               *)
THEOREM ShelvesAreJustified == CatalogSpec => []ShelvesJustified
<1>1. CatalogInv => ShelvesJustified
  BY DEF CatalogInv, ShelvesInv
<1> QED BY <1>1, AlwaysCatalogInv, PTL

-----------------------------------------------------------------------------
(* The caches.                                                              *)

States == {"idle", "prefix", "lookup", "refresh", "lock", "recheck", "wait", "served",
           "fill", "set", "unlock", "failed", "answered", "error", "ended"}

ReaderType ==
  /\ stage \in [Readers -> States]
  /\ item \in [Readers -> Items] /\ gens \in [Readers -> Generations]
  /\ asked \in [Readers -> SUBSET Tables]
  /\ floor \in [Readers -> Versions] /\ data \in [Readers -> Versions]
  /\ polls \in [Readers -> 0 .. MaxPolls]
  /\ held \in [Readers -> {"none", "fill", "refresh"}]
  /\ revision \in [Readers -> Generations]

AdminType ==
  /\ version \in Versions /\ mark \in Versions /\ announced \in Versions
  /\ gen \in Generations
  /\ since \in [Tables -> [0 .. MaxBumps -> 0 .. MaxVersion]]
  /\ todo \subseteq Tables

RedisType ==
  /\ cache \in [Keys -> [age : {"none", "fresh", "stale"}, data : Versions]]
  /\ locks \subseteq LockNames

BudgetType ==
  /\ entryFaults \in 0 .. EntryFaultBudget /\ genFaultsLeft \in 0 .. GenFaultBudget
  /\ lapsesLeft \in 0 .. LapseBudget

LEMMA TypeSplit == CacheTypeOK <=> ReaderType /\ AdminType /\ RedisType /\ BudgetType
BY DEF CacheTypeOK, ReaderType, AdminType, RedisType, BudgetType, States

(* An invalidation leaves room for its bumps (the bound of the instance).   *)
Room == \A t \in todo : gen[t] < MaxBumps

TypeInv == ReaderType /\ AdminType /\ RedisType /\ BudgetType /\ Room

LEMMA ZeroType == Zero \in Versions /\ Zero \in Generations
BY CatalogCacheAssumption DEF Zero, Versions, Generations

LEMMA DepsType == \A i \in Items : Deps(i) \subseteq Tables
BY CatalogCacheAssumption DEF Deps

LEMMA KeyType ==
  ASSUME TypeInv, NEW r \in Readers
  PROVE  Key(r) \in Keys /\ Entry(r) \in [age : {"none", "fresh", "stale"}, data : Versions]
BY DEF TypeInv, ReaderType, RedisType, Key, Keys, Entry

LEMMA InitType == CacheInit => TypeInv
<1> SUFFICES ASSUME CacheInit PROVE TypeInv
  OBVIOUS
<1>1. AnItem \in Items
  BY CatalogCacheAssumption DEF AnItem
<1>2. ReaderType
  BY <1>1, ZeroType, CatalogCacheAssumption DEF CacheInit, ReaderType, States
<1>3. AdminType /\ Room
  BY ZeroType, CatalogCacheAssumption DEF CacheInit, AdminType, Room
<1>4. RedisType
  BY ZeroType DEF CacheInit, RedisType, NoEntry
<1>5. BudgetType
  BY CatalogCacheAssumption DEF CacheInit, BudgetType
<1> QED
  BY <1>2, <1>3, <1>4, <1>5 DEF TypeInv

-----------------------------------------------------------------------------
LEMMA WriteType ==
  ASSUME TypeInv, NEW t \in Tables, Write(t)
  PROVE  TypeInv'
<1>1. version' \in Versions
  BY CatalogCacheAssumption DEF TypeInv, AdminType, Write, Versions
<1> QED
  BY <1>1 DEF TypeInv, ReaderType, AdminType, RedisType, BudgetType, Room, Write, budgets

LEMMA StartInvalidationType ==
  ASSUME TypeInv, NEW scope \in SUBSET Tables, StartInvalidation(scope)
  PROVE  TypeInv'
<1>1. mark' \in Versions
  BY DEF TypeInv, AdminType, StartInvalidation, Versions
<1>2. AdminType' /\ Room'
  BY <1>1 DEF TypeInv, AdminType, Room, StartInvalidation
<1> QED
  BY <1>2 DEF TypeInv, ReaderType, RedisType, BudgetType, StartInvalidation, budgets

(* A generation that is to be bumped has room for it.                       *)
LEMMA RoomToBump ==
  ASSUME TypeInv, NEW t \in todo
  PROVE  gen[t] \in Nat /\ gen[t] + 1 \in 0 .. MaxBumps
<1>1. gen[t] \in 0 .. MaxBumps /\ gen[t] < MaxBumps
  BY DEF TypeInv, AdminType, Room, Generations
<1>2. MaxBumps \in Nat
  BY CatalogCacheAssumption
<1> QED
  BY <1>1, <1>2

LEMMA BumpType ==
  ASSUME TypeInv, NEW t \in Tables, Bump(t) \/ BumpFails(t)
  PROVE  TypeInv'
<1>1. announced' \in Versions /\ mark' \in Versions /\ version' \in Versions
  BY DEF TypeInv, AdminType, Bump, BumpFails, BumpDone
<1>2. todo' = todo \ {t} /\ todo' \subseteq Tables
  BY DEF TypeInv, AdminType, Bump, BumpFails, BumpDone
<1>3. gen' \in Generations /\ Room' /\ since' \in [Tables -> [0 .. MaxBumps -> 0 .. MaxVersion]]
  <2>1. CASE Bump(t)
    <3>1. gen' = [gen EXCEPT ![t] = @ + 1] /\ since' = [since EXCEPT ![t][gen[t] + 1] = version[t]]
      BY <2>1 DEF Bump
    <3>2. gen[t] + 1 \in 0 .. MaxBumps
      BY <2>1, RoomToBump DEF Bump
    <3>3. version[t] \in 0 .. MaxVersion
      BY DEF TypeInv, AdminType, Versions
    <3>4. gen' \in Generations
      BY <3>1, <3>2 DEF TypeInv, AdminType, Generations
    <3>5. since' \in [Tables -> [0 .. MaxBumps -> 0 .. MaxVersion]]
      BY <3>1, <3>2, <3>3 DEF TypeInv, AdminType
    <3>6. \A u \in todo' : u # t /\ gen'[u] = gen[u]
      BY <1>2, <3>1 DEF TypeInv, AdminType, Generations
    <3> QED
      BY <1>2, <3>4, <3>5, <3>6 DEF TypeInv, Room
  <2>2. CASE BumpFails(t)
    BY <1>2, <2>2 DEF TypeInv, AdminType, Room, BumpFails
  <2> QED
    BY <2>1, <2>2
<1>5. BudgetType'
  BY CatalogCacheAssumption DEF TypeInv, BudgetType, Bump, BumpFails, GenStrikes, budgets
<1>6. ReaderType' /\ RedisType'
  BY DEF TypeInv, ReaderType, RedisType, Bump, BumpFails, BumpDone
<1> QED
  BY <1>1, <1>2, <1>3, <1>5, <1>6 DEF TypeInv, AdminType

LEMMA RedisStepType ==
  ASSUME TypeInv, \/ \E k \in Keys : Expire(k)
                  \/ \E l \in LockNames : Lapse(l)
  PROVE  TypeInv'
<1>1. RedisType'
  BY ZeroType DEF TypeInv, RedisType, Expire, Lapse, NoEntry
<1>2. BudgetType'
  BY CatalogCacheAssumption DEF TypeInv, BudgetType, Expire, Lapse, budgets
<1> QED
  BY <1>1, <1>2 DEF TypeInv, ReaderType, AdminType, Room, Expire, Lapse, admin

(* A reader's steps leave the admin's state alone.                          *)
LEMMA ReaderStepsOwn ==
  ASSUME NEW r \in Readers, ReaderStep(r) \/ \E i \in Items : StartRead(r, i)
  PROVE  UNCHANGED admin
BY DEF ReaderStep, StartRead, ReadGeneration, GenerationFails, GenerationAsked, AnswerRevision,
       Lookup, LookupFails, Lock, LockRefresh, Recheck, Poll, GiveUp, Fill, FillFails,
       Set, Unlock, End, Found, Missed, TakeLock, shared

LEMMA ReaderBudgetType ==
  ASSUME BudgetType, NEW r \in Readers, ReaderStep(r) \/ \E i \in Items : StartRead(r, i)
  PROVE  BudgetType'
BY CatalogCacheAssumption
   DEF BudgetType, ReaderStep, StartRead, ReadGeneration, GenerationFails, GenerationAsked,
       AnswerRevision, Lookup, LookupFails, Lock, LockRefresh, Recheck, Poll, GiveUp,
       Fill, FillFails, Set, Unlock, End, Found, Missed, TakeLock, Taken, NoneThere,
       EntryStrikes, GenStrikes, shared, budgets

(* What a reader does to itself and to its entry.                           *)
LEMMA FoundType ==
  ASSUME TypeInv, NEW r \in Readers, NEW p \in States, Found(r, p)
  PROVE  ReaderType' /\ RedisType'
<1>1. data' \in [Readers -> Versions]
  BY KeyType DEF TypeInv, ReaderType, Found
<1> QED
  BY <1>1 DEF TypeInv, ReaderType, RedisType, Found, Goto, shared

LEMMA MissedType ==
  ASSUME TypeInv, NEW r \in Readers, NEW p \in States, Missed(r, p)
  PROVE  ReaderType' /\ RedisType'
BY DEF TypeInv, ReaderType, RedisType, Missed, Goto, shared

LEMMA TakeLockType ==
  ASSUME TypeInv, NEW r \in Readers, NEW p \in States,
         NEW sort \in {"fill", "refresh"}, TakeLock(r, sort, p)
  PROVE  ReaderType' /\ RedisType'
<1>1. <<sort, Key(r)>> \in LockNames
  BY KeyType DEF LockNames
<1> QED
  BY <1>1 DEF TypeInv, ReaderType, RedisType, TakeLock, Goto, shared

LEMMA ReaderStepType ==
  ASSUME TypeInv, NEW r \in Readers, ReaderStep(r) \/ \E i \in Items : StartRead(r, i)
  PROVE  ReaderType' /\ RedisType'
<1> USE DEF States
<1>1. ASSUME NEW i \in Items, StartRead(r, i) PROVE ReaderType' /\ RedisType'
  BY <1>1, DepsType
     DEF TypeInv, ReaderType, AdminType, RedisType, StartRead, Goto, shared
<1>2. ASSUME NEW t \in Tables, ReadGeneration(r, t) \/ GenerationFails(r, t)
      PROVE  ReaderType' /\ RedisType'
  <2>1. gens' \in [Readers -> Generations]
    <3>1. gen[t] \in 0 .. MaxBumps
      BY DEF TypeInv, AdminType, Generations
    <3>2. [gens[r] EXCEPT ![t] = gen[t]] \in Generations
      BY <3>1 DEF TypeInv, ReaderType, Generations
    <3> QED
      BY <1>2, <3>2 DEF TypeInv, ReaderType, ReadGeneration, GenerationFails
  <2> QED
    BY <1>2, <2>1
       DEF TypeInv, ReaderType, RedisType, ReadGeneration, GenerationFails, GenerationAsked, Goto
<1>3. CASE AnswerRevision(r)
  BY <1>3 DEF TypeInv, ReaderType, RedisType, AnswerRevision, Goto
<1>4. CASE Lookup(r) \/ LookupFails(r)
  BY <1>4, FoundType, MissedType DEF Lookup, LookupFails
<1>5. CASE Lock(r)
  BY <1>5, TakeLockType, MissedType DEF Lock
<1>6. CASE LockRefresh(r)
  BY <1>6, TakeLockType, MissedType DEF LockRefresh
<1>7. CASE Recheck(r) \/ GiveUp(r) \/ FillFails(r)
  BY <1>7, FoundType, MissedType DEF Recheck, GiveUp, FillFails
<1>8. CASE Poll(r)
  <2>1. CASE Found(r, "answered")
    BY <2>1, FoundType
  <2>2. CASE ~ Found(r, "answered")
    <3>1. polls' \in [Readers -> 0 .. MaxPolls]
      BY <1>8, <2>2, CatalogCacheAssumption DEF TypeInv, ReaderType, Poll
    <3> QED
      BY <1>8, <2>2, <3>1 DEF TypeInv, ReaderType, RedisType, Poll, shared
  <2> QED
    BY <2>1, <2>2
<1>9. CASE Fill(r)
  <2>1. [t \in Tables |-> IF t \in Deps(item[r]) THEN version[t] ELSE 0] \in Versions
    BY CatalogCacheAssumption DEF TypeInv, AdminType, Versions
  <2> QED
    BY <1>9, <2>1 DEF TypeInv, ReaderType, RedisType, Fill, Goto, shared
<1>10. CASE Set(r)
  <2>1. [age |-> "fresh", data |-> data[r]] \in
          [age : {"none", "fresh", "stale"}, data : Versions]
    BY DEF TypeInv, ReaderType
  <2>2. RedisType'
    BY <1>10, <2>1, KeyType DEF TypeInv, RedisType, Set, shared
  <2> QED
    BY <1>10, <2>2 DEF TypeInv, ReaderType, Set, Goto, shared
<1>11. CASE Unlock(r)
  <2>1. locks' \subseteq locks
    BY <1>11 DEF Unlock
  <2> QED
    BY <1>11, <2>1 DEF TypeInv, ReaderType, RedisType, Unlock, Goto, shared
<1>12. CASE End(r)
  <2>1. AnItem \in Items
    BY CatalogCacheAssumption DEF AnItem
  <2>2. 0 \in 0 .. MaxPolls
    BY CatalogCacheAssumption
  <2> QED
    BY <1>12, <2>1, <2>2, ZeroType DEF TypeInv, ReaderType, RedisType, End, Goto, shared
<1> QED
  BY <1>1, <1>2, <1>3, <1>4, <1>5, <1>6, <1>7, <1>8, <1>9, <1>10, <1>11, <1>12
     DEF ReaderStep

LEMMA NextType == TypeInv /\ [CacheNext]_cacheVars => TypeInv'
<1> SUFFICES ASSUME TypeInv, [CacheNext]_cacheVars PROVE TypeInv'
  OBVIOUS
<1>1. ASSUME NEW r \in Readers, ReaderStep(r) \/ \E i \in Items : StartRead(r, i)
      PROVE  TypeInv'
  BY <1>1, ReaderStepType, ReaderStepsOwn, ReaderBudgetType DEF TypeInv, AdminType, Room, admin
<1>2. ASSUME NEW t \in Tables, Write(t) PROVE TypeInv'
  BY <1>2, WriteType
<1>3. ASSUME NEW t \in Tables, Bump(t) \/ BumpFails(t) PROVE TypeInv'
  BY <1>3, BumpType
<1>4. ASSUME NEW scope \in SUBSET Tables, StartInvalidation(scope) PROVE TypeInv'
  BY <1>4, StartInvalidationType
<1>5. CASE (\E k \in Keys : Expire(k)) \/ (\E l \in LockNames : Lapse(l))
  BY <1>5, RedisStepType
<1>6. CASE UNCHANGED cacheVars
  BY <1>6 DEF TypeInv, ReaderType, AdminType, RedisType, BudgetType, Room, cacheVars, admin, budgets
<1> QED
  BY <1>1, <1>2, <1>3, <1>4, <1>5, <1>6 DEF CacheNext

(* Every variable keeps its type, for any number of readers and tables.     *)
THEOREM CacheTypeCorrect == CacheSpec => []CacheTypeOK
<1>1. TypeInv => CacheTypeOK
  BY TypeSplit DEF TypeInv
<1> QED
  BY <1>1, InitType, NextType, PTL DEF CacheSpec

(* The numbers that are compared are natural numbers.                       *)
LEMMA Numbers ==
  ASSUME TypeInv
  PROVE  /\ \A t \in Tables : /\ gen[t] \in 0 .. MaxBumps /\ gen[t] \in Nat
                              /\ version[t] \in Nat /\ mark[t] \in Nat /\ announced[t] \in Nat
                              /\ \A n \in 0 .. MaxBumps : since[t][n] \in Nat
         /\ \A r \in Readers : /\ item[r] \in Items /\ Deps(item[r]) \subseteq Tables
                              /\ \A t \in Tables : /\ floor[r][t] \in Nat /\ data[r][t] \in Nat
                                                   /\ gens[r][t] \in 0 .. MaxBumps
<1>1. ASSUME NEW t \in Tables
      PROVE  /\ gen[t] \in 0 .. MaxBumps /\ gen[t] \in Nat
             /\ version[t] \in Nat /\ mark[t] \in Nat /\ announced[t] \in Nat
             /\ \A n \in 0 .. MaxBumps : since[t][n] \in Nat
  BY CatalogCacheAssumption DEF TypeInv, AdminType, Generations, Versions
<1>2. ASSUME NEW r \in Readers
      PROVE  /\ item[r] \in Items /\ Deps(item[r]) \subseteq Tables
             /\ \A t \in Tables : /\ floor[r][t] \in Nat /\ data[r][t] \in Nat
                                  /\ gens[r][t] \in 0 .. MaxBumps
  BY CatalogCacheAssumption, DepsType DEF TypeInv, ReaderType, Generations, Versions
<1> QED
  BY <1>1, <1>2

-----------------------------------------------------------------------------
(* An entry is as new as its generation.                                    *)

(* A generation's first version is not ahead of its table.                  *)
SinceBelow == \A t \in Tables : \A n \in 0 .. gen[t] : since[t][n] <= version[t]

(* Keys in use are built from generations there have been.                  *)
EntriesReal ==
  \A k \in Keys : cache[k].age # "none" => \A t \in Tables : k[2][t] <= gen[t]

KeysReal == \A r \in Readers, t \in Tables : gens[r][t] <= gen[t]

(* What a reader answers or is going to store is as new as its key.         *)
Carrying(r) == \/ stage[r] \in {"set", "refresh", "served", "unlock"}
               \/ stage[r] = "answered" /\ item[r] # "revision"

DataOfGeneration ==
  \A r \in Readers : Carrying(r) =>
    \A t \in Deps(item[r]) : data[r][t] >= since[t][gens[r][t]]

AsNew == /\ SinceBelow
         /\ EntriesReal
         /\ KeysReal
         /\ EntriesOfTheirGeneration
         /\ DataOfGeneration

DataInv == TypeInv /\ AsNew

LEMMA InitData == CacheInit => DataInv
<1> SUFFICES ASSUME CacheInit PROVE DataInv
  OBVIOUS
<1>1. TypeInv
  BY InitType
<1>2. SinceBelow
  BY CatalogCacheAssumption DEF CacheInit, SinceBelow, Zero
<1>3. EntriesReal /\ EntriesOfTheirGeneration
  BY DEF CacheInit, EntriesReal, EntriesOfTheirGeneration, NoEntry
<1>4. KeysReal /\ DataOfGeneration
  BY DEF CacheInit, KeysReal, DataOfGeneration, Carrying, Zero
<1> QED
  BY <1>1, <1>2, <1>3, <1>4 DEF DataInv, AsNew

(* A bump starts a generation at the version its table has, and leaves the  *)
(* generations there have been as they are.                                 *)
LEMMA BumpEffect ==
  ASSUME TypeInv, NEW t \in Tables, Bump(t)
  PROVE  /\ gen[t] + 1 \in 0 .. MaxBumps
         /\ gen'[t] = gen[t] + 1 /\ since'[t][gen'[t]] = version[t]
         /\ \A n \in 0 .. gen[t] : since'[t][n] = since[t][n]
         /\ \A u \in Tables : u # t => gen'[u] = gen[u] /\ since'[u] = since[u]
<1>1. gen[t] + 1 \in 0 .. MaxBumps /\ gen[t] \in Nat
  BY RoomToBump DEF Bump
<1>2. gen' = [gen EXCEPT ![t] = @ + 1] /\ since' = [since EXCEPT ![t][gen[t] + 1] = version[t]]
  BY DEF Bump
<1>3. gen'[t] = gen[t] + 1 /\ \A u \in Tables : u # t => gen'[u] = gen[u] /\ since'[u] = since[u]
  BY <1>2 DEF TypeInv, AdminType, Generations
<1>4. since'[t] = [since[t] EXCEPT ![gen[t] + 1] = version[t]]
  BY <1>2 DEF TypeInv, AdminType
<1>5. since'[t][gen[t] + 1] = version[t]
  BY <1>1, <1>4 DEF TypeInv, AdminType
<1>6. \A n \in 0 .. gen[t] : since'[t][n] = since[t][n]
  BY <1>1, <1>4, CatalogCacheAssumption DEF TypeInv, AdminType
<1> QED
  BY <1>1, <1>3, <1>5, <1>6

(* Whatever leaves readers, entries and the generations there have been as  *)
(* they are keeps entries and data as new as their keys.                    *)
LEMMA OlderKept ==
  ASSUME DataInv, UNCHANGED <<cache, stage, item, gens, data>>,
         \A t \in Tables : /\ gen'[t] \in Nat /\ gen'[t] >= gen[t]
                           /\ \A n \in 0 .. gen[t] : since'[t][n] = since[t][n]
  PROVE  EntriesReal' /\ KeysReal' /\ EntriesOfTheirGeneration' /\ DataOfGeneration'
<1>1. \A t \in Tables : gen[t] \in Nat
  BY CatalogCacheAssumption DEF DataInv, AsNew, TypeInv, AdminType, Generations
<1>2. \A k \in Keys : k[1] \in Items /\ \A t \in Tables : k[2][t] \in Nat
  BY CatalogCacheAssumption DEF Keys, Generations
<1>3. \A r \in Readers : item[r] \in Items /\ \A t \in Tables : gens[r][t] \in Nat
  BY CatalogCacheAssumption DEF DataInv, AsNew, TypeInv, ReaderType, Generations
<1>4. EntriesReal'
  BY <1>1, <1>2 DEF DataInv, AsNew, EntriesReal
<1>5. KeysReal'
  BY <1>1, <1>3 DEF DataInv, AsNew, KeysReal
<1>6. EntriesOfTheirGeneration'
  <2> SUFFICES ASSUME NEW k \in Keys, cache[k].age # "none", NEW t \in Deps(k[1])
               PROVE  cache[k].data[t] >= since'[t][k[2][t]]
    BY DEF EntriesOfTheirGeneration
  <2>1. t \in Tables
    BY <1>2, DepsType
  <2>2. k[2][t] \in 0 .. gen[t]
    BY <1>1, <1>2, <2>1 DEF DataInv, AsNew, EntriesReal
  <2> QED
    BY <2>1, <2>2 DEF DataInv, AsNew, EntriesOfTheirGeneration
<1>7. DataOfGeneration'
  <2> SUFFICES ASSUME NEW r \in Readers, Carrying(r), NEW t \in Deps(item[r])
               PROVE  data[r][t] >= since'[t][gens[r][t]]
    BY DEF DataOfGeneration, Carrying
  <2>1. t \in Tables
    BY <1>3, DepsType
  <2>2. gens[r][t] \in 0 .. gen[t]
    BY <1>1, <1>3, <2>1 DEF DataInv, AsNew, KeysReal
  <2> QED
    BY <2>1, <2>2 DEF DataInv, AsNew, DataOfGeneration
<1> QED
  BY <1>4, <1>5, <1>6, <1>7

LEMMA AdminData ==
  ASSUME DataInv, NEW t \in Tables, NEW scope \in SUBSET Tables,
         Write(t) \/ StartInvalidation(scope) \/ Bump(t) \/ BumpFails(t)
  PROVE  DataInv'
<1>1. TypeInv'
  BY WriteType, StartInvalidationType, BumpType DEF DataInv, AsNew
<1>2. \A u \in Tables : gen[u] \in Nat /\ version[u] \in Nat
  BY CatalogCacheAssumption DEF DataInv, AsNew, TypeInv, AdminType, Generations, Versions
<1>3. UNCHANGED <<cache, stage, item, gens, data>>
  BY DEF Write, StartInvalidation, Bump, BumpFails, BumpDone
<1>4. CASE Bump(t)
  <2>1. /\ gen[t] + 1 \in 0 .. MaxBumps
        /\ gen'[t] = gen[t] + 1 /\ since'[t][gen'[t]] = version[t]
        /\ \A n \in 0 .. gen[t] : since'[t][n] = since[t][n]
        /\ \A u \in Tables : u # t => gen'[u] = gen[u] /\ since'[u] = since[u]
    BY <1>4, BumpEffect DEF DataInv, AsNew
  <2>2. version' = version
    BY <1>4 DEF Bump, BumpDone
  <2>3. SinceBelow'
    <3> SUFFICES ASSUME NEW u \in Tables, NEW n \in 0 .. gen'[u]
                 PROVE  since'[u][n] <= version[u]
      BY <2>2 DEF SinceBelow
    <3>1. CASE u # t
      BY <2>1, <3>1 DEF DataInv, AsNew, SinceBelow
    <3>2. CASE u = t /\ n = gen[t] + 1
      BY <1>2, <2>1, <3>2
    <3>3. CASE u = t /\ n # gen[t] + 1
      <4>1. n \in 0 .. gen[t]
        BY <1>2, <2>1, <3>3
      <4> QED
        BY <2>1, <3>3, <4>1 DEF DataInv, AsNew, SinceBelow
    <3> QED
      BY <3>1, <3>2, <3>3
  <2>4. \A u \in Tables : /\ gen'[u] \in Nat /\ gen'[u] >= gen[u]
                          /\ \A n \in 0 .. gen[u] : since'[u][n] = since[u][n]
    BY <1>2, <2>1
  <2> QED
    BY <1>1, <1>3, <2>3, <2>4, OlderKept DEF DataInv, AsNew
<1>5. CASE Write(t) \/ StartInvalidation(scope) \/ BumpFails(t)
  <2>1. UNCHANGED <<gen, since>>
    BY <1>5 DEF Write, StartInvalidation, BumpFails
  <2>2. \A u \in Tables : version'[u] \in Nat /\ version'[u] >= version[u]
    BY <1>2, <1>5 DEF DataInv, AsNew, TypeInv, AdminType, Versions,
                      Write, StartInvalidation, BumpFails, BumpDone
  <2>3. \A u \in Tables : \A n \in 0 .. gen[u] : since[u][n] \in Nat
    <3>1. \A u \in Tables : \A n \in 0 .. gen[u] : n \in 0 .. MaxBumps
      BY CatalogCacheAssumption DEF DataInv, AsNew, TypeInv, AdminType, Generations
    <3> QED
      BY <3>1, CatalogCacheAssumption DEF DataInv, AsNew, TypeInv, AdminType
  <2>4. SinceBelow'
    BY <1>2, <2>1, <2>2, <2>3 DEF DataInv, AsNew, SinceBelow
  <2>5. \A u \in Tables : /\ gen'[u] \in Nat /\ gen'[u] >= gen[u]
                          /\ \A n \in 0 .. gen[u] : since'[u][n] = since[u][n]
    BY <1>2, <2>1
  <2> QED
    BY <1>1, <1>3, <2>4, <2>5, OlderKept DEF DataInv, AsNew
<1> QED
  BY <1>4, <1>5

LEMMA RedisStepData ==
  ASSUME DataInv, (\E k \in Keys : Expire(k)) \/ (\E l \in LockNames : Lapse(l))
  PROVE  DataInv'
<1>1. TypeInv'
  BY RedisStepType DEF DataInv, AsNew
<1>2. UNCHANGED <<version, gen, since, stage, item, gens, data>>
  BY DEF Expire, Lapse, admin
<1>3. \A k \in Keys : cache'[k].age # "none" =>
        cache[k].age # "none" /\ cache'[k].data = cache[k].data
  BY DEF DataInv, AsNew, TypeInv, RedisType, Expire, Lapse, NoEntry
<1>4. SinceBelow' /\ KeysReal' /\ DataOfGeneration'
  BY <1>2 DEF DataInv, AsNew, SinceBelow, KeysReal, DataOfGeneration, Carrying
<1>5. EntriesReal' /\ EntriesOfTheirGeneration'
  BY <1>2, <1>3 DEF DataInv, AsNew, EntriesReal, EntriesOfTheirGeneration
<1> QED
  BY <1>1, <1>4, <1>5 DEF DataInv, AsNew

(* The reader's own steps.  Only Set touches the cache, only reading a      *)
(* generation and the end of the request touch the key.                     *)
LEMMA SameKeyData ==
  ASSUME DataInv, NEW r \in Readers, UNCHANGED <<admin, cache, item, gens>>,
         \A q \in Readers \ {r} : stage'[q] = stage[q] /\ data'[q] = data[q],
         Carrying(r)' => \A t \in Deps(item[r]) : data'[r][t] >= since[t][gens[r][t]]
  PROVE  AsNew'
<1>1. SinceBelow' /\ EntriesReal' /\ KeysReal' /\ EntriesOfTheirGeneration'
  BY DEF DataInv, AsNew, SinceBelow, EntriesReal, KeysReal, EntriesOfTheirGeneration, admin
<1>2. DataOfGeneration'
  BY DEF DataInv, AsNew, DataOfGeneration, Carrying, admin
<1> QED
  BY <1>1, <1>2 DEF AsNew

LEMMA FoundData ==
  ASSUME DataInv, NEW r \in Readers, NEW p \in States, Found(r, p)
  PROVE  AsNew'
<1>1. data'[r] = Entry(r).data
  BY DEF DataInv, AsNew, TypeInv, ReaderType, Found
<1>2. \A t \in Deps(item[r]) : data'[r][t] >= since[t][gens[r][t]]
  BY <1>1, KeyType DEF DataInv, AsNew, EntriesOfTheirGeneration, Found, Entry, Key
<1>3. \A q \in Readers \ {r} : stage'[q] = stage[q] /\ data'[q] = data[q]
  BY DEF DataInv, AsNew, TypeInv, ReaderType, Found, Goto
<1> QED
  BY <1>2, <1>3, SameKeyData DEF Found, shared

LEMMA MissedData ==
  ASSUME DataInv, NEW r \in Readers, NEW p \in States, Missed(r, p),
         p \in {"lock", "wait", "fill", "failed"} \/ stage[r] = "refresh"
  PROVE  AsNew'
<1>1. \A q \in Readers \ {r} : stage'[q] = stage[q] /\ data'[q] = data[q]
  BY DEF DataInv, AsNew, TypeInv, ReaderType, Missed, Goto
<1>2. Carrying(r)' => \A t \in Deps(item[r]) : data'[r][t] >= since[t][gens[r][t]]
  BY DEF DataInv, AsNew, TypeInv, ReaderType, DataOfGeneration, Missed, Goto, Carrying
<1> QED
  BY <1>1, <1>2, SameKeyData DEF Missed, shared

LEMMA TakeLockData ==
  ASSUME DataInv, NEW r \in Readers, NEW sort, NEW p \in {"recheck", "served"},
         TakeLock(r, sort, p), p = "recheck" \/ stage[r] = "refresh"
  PROVE  AsNew'
<1>1. \A q \in Readers \ {r} : stage'[q] = stage[q] /\ data'[q] = data[q]
  BY DEF DataInv, AsNew, TypeInv, ReaderType, TakeLock, Goto
<1>2. Carrying(r)' => \A t \in Deps(item[r]) : data'[r][t] >= since[t][gens[r][t]]
  BY DEF DataInv, AsNew, TypeInv, ReaderType, DataOfGeneration, TakeLock, Goto, Carrying
<1> QED
  BY <1>1, <1>2, SameKeyData DEF TakeLock, shared

(* A key is built from generations of now: they only grow until it is used. *)
LEMMA AskedData ==
  ASSUME DataInv, NEW r \in Readers, NEW t \in Tables,
         ReadGeneration(r, t) \/ GenerationFails(r, t)
  PROVE  AsNew'
<1>1. UNCHANGED <<admin, cache, item, data>>
  BY DEF ReadGeneration, GenerationFails, GenerationAsked
<1>2. ~ Carrying(r) /\ ~ Carrying(r)'
  BY DEF DataInv, AsNew, TypeInv, ReaderType, ReadGeneration, GenerationFails, GenerationAsked, Goto, Carrying
<1>3. \A q \in Readers \ {r} : stage'[q] = stage[q] /\ gens'[q] = gens[q]
  BY DEF DataInv, AsNew, TypeInv, ReaderType, ReadGeneration, GenerationFails, GenerationAsked, Goto
<1>4. \A u \in Tables : gens'[r][u] \in {gens[r][u], gen[u]}
  BY DEF DataInv, AsNew, TypeInv, ReaderType, Generations, ReadGeneration, GenerationFails
<1>5. SinceBelow' /\ EntriesReal' /\ EntriesOfTheirGeneration'
  BY <1>1 DEF DataInv, AsNew, SinceBelow, EntriesReal, EntriesOfTheirGeneration, admin
<1>6. \A u \in Tables : gen[u] <= gen[u]
  BY CatalogCacheAssumption DEF DataInv, AsNew, TypeInv, AdminType, Generations
<1>7. KeysReal'
  BY <1>1, <1>3, <1>4, <1>6 DEF DataInv, AsNew, KeysReal, admin
<1>8. DataOfGeneration'
  BY <1>1, <1>2, <1>3 DEF DataInv, AsNew, DataOfGeneration, Carrying, admin
<1> QED
  BY <1>5, <1>7, <1>8 DEF AsNew

(* A fill reads the tables after its key was built.                         *)
LEMMA FillData ==
  ASSUME DataInv, NEW r \in Readers, Fill(r)
  PROVE  AsNew'
<1>1. \A q \in Readers \ {r} : stage'[q] = stage[q] /\ data'[q] = data[q]
  BY DEF DataInv, AsNew, TypeInv, ReaderType, Fill, Goto
<1>2. ASSUME NEW t \in Deps(item[r]) PROVE data'[r][t] >= since[t][gens[r][t]]
  <2>1. t \in Tables
    BY <1>2, DepsType DEF DataInv, AsNew, TypeInv, ReaderType
  <2>2. data'[r][t] = version[t]
    BY <1>2, <2>1 DEF Fill, DataInv, TypeInv, ReaderType
  <2>3. gens[r][t] \in 0 .. gen[t]
    BY <2>1, CatalogCacheAssumption
       DEF DataInv, AsNew, TypeInv, ReaderType, AdminType, Generations, KeysReal
  <2>4. since[t][gens[r][t]] <= version[t]
    BY <2>1, <2>3 DEF DataInv, AsNew, SinceBelow
  <2>5. gens[r][t] \in 0 .. MaxBumps
    BY <2>1 DEF DataInv, AsNew, TypeInv, ReaderType, Generations
  <2>6. since[t][gens[r][t]] \in Nat /\ version[t] \in Nat
    BY <2>1, <2>5, Numbers DEF DataInv
  <2> QED
    BY <2>2, <2>4, <2>6
<1> QED
  BY <1>1, <1>2, SameKeyData DEF Fill, shared

(* What is stored is stored under the key it was read for.                  *)
LEMMA SetData ==
  ASSUME DataInv, NEW r \in Readers, Set(r)
  PROVE  AsNew'
<1>1. UNCHANGED <<admin, item, gens, data>> /\ Carrying(r)
  BY DEF Set, shared, Carrying
<1>2. \A q \in Readers \ {r} : stage'[q] = stage[q]
  BY DEF DataInv, AsNew, TypeInv, ReaderType, Set, Goto
<1>3. SinceBelow' /\ KeysReal' /\ DataOfGeneration'
  BY <1>1, <1>2 DEF DataInv, AsNew, SinceBelow, KeysReal, DataOfGeneration, Carrying, admin
<1>4. \A k \in Keys : \/ cache'[k] = cache[k]
                      \/ k = Key(r) /\ cache'[k].data = data[r]
  BY KeyType DEF DataInv, AsNew, TypeInv, RedisType, Set
<1>5. \A t \in Deps(item[r]) : data[r][t] >= since[t][gens[r][t]]
  BY <1>1 DEF DataInv, AsNew, DataOfGeneration
<1>6. EntriesOfTheirGeneration'
  BY <1>1, <1>4, <1>5 DEF DataInv, AsNew, EntriesOfTheirGeneration, Key, admin
<1>7. EntriesReal'
  BY <1>1, <1>4 DEF DataInv, AsNew, EntriesReal, KeysReal, Key, admin
<1> QED
  BY <1>3, <1>6, <1>7 DEF AsNew

LEMMA EndData ==
  ASSUME DataInv, NEW r \in Readers, End(r)
  PROVE  AsNew'
<1>1. UNCHANGED <<admin, cache>>
  BY DEF End, shared
<1>2. /\ stage'[r] = "idle" /\ gens'[r] = Zero
      /\ \A q \in Readers \ {r} : /\ stage'[q] = stage[q] /\ gens'[q] = gens[q]
                                 /\ item'[q] = item[q] /\ data'[q] = data[q]
  BY DEF DataInv, AsNew, TypeInv, ReaderType, End, Goto
<1>3. SinceBelow' /\ EntriesReal' /\ EntriesOfTheirGeneration'
  BY <1>1 DEF DataInv, AsNew, SinceBelow, EntriesReal, EntriesOfTheirGeneration, admin
<1>4. \A t \in Tables : Zero[t] <= gen[t]
  BY CatalogCacheAssumption DEF DataInv, AsNew, TypeInv, AdminType, Generations, Zero
<1>5. KeysReal'
  BY <1>1, <1>2, <1>4 DEF DataInv, AsNew, KeysReal, admin
<1>6. DataOfGeneration'
  BY <1>1, <1>2 DEF DataInv, AsNew, DataOfGeneration, Carrying, admin
<1> QED
  BY <1>3, <1>5, <1>6 DEF AsNew

(* The steps that neither answer nor store.                                 *)
LEMMA PlainData ==
  ASSUME DataInv, NEW r \in Readers,
         \/ \E i \in Items : StartRead(r, i)
         \/ AnswerRevision(r) \/ Unlock(r)
         \/ Poll(r) /\ ~ Found(r, "answered")
  PROVE  AsNew'
<1>1. UNCHANGED <<admin, cache, gens, data>>
  BY DEF StartRead, AnswerRevision, Unlock, Poll, shared
<1>2. \A q \in Readers \ {r} : stage'[q] = stage[q] /\ item'[q] = item[q]
  BY DEF DataInv, AsNew, TypeInv, ReaderType, StartRead, AnswerRevision, Unlock, Poll, Goto
<1>3. Carrying(r)' => Carrying(r) /\ item'[r] = item[r]
  BY DEF DataInv, AsNew, TypeInv, ReaderType, StartRead, AnswerRevision, Unlock, Poll, Goto,
         Carrying
<1>4. SinceBelow' /\ EntriesReal' /\ KeysReal' /\ EntriesOfTheirGeneration'
  BY <1>1 DEF DataInv, AsNew, SinceBelow, EntriesReal, KeysReal, EntriesOfTheirGeneration, admin
<1>5. DataOfGeneration'
  <2> SUFFICES ASSUME NEW q \in Readers, Carrying(q)', NEW t \in Deps(item'[q])
               PROVE  data'[q][t] >= since'[t][gens'[q][t]]
    BY DEF DataOfGeneration
  <2>1. Carrying(q) /\ item'[q] = item[q]
    BY <1>2, <1>3 DEF Carrying
  <2> QED
    BY <1>1, <2>1 DEF DataInv, AsNew, DataOfGeneration, admin
<1> QED
  BY <1>4, <1>5 DEF AsNew

LEMMA ReaderData ==
  ASSUME DataInv, NEW r \in Readers, ReaderStep(r) \/ \E i \in Items : StartRead(r, i)
  PROVE  DataInv'
<1>1. TypeInv'
  BY ReaderStepType, ReaderStepsOwn, ReaderBudgetType DEF DataInv, AsNew, TypeInv, AdminType, Room, admin
<1> USE DEF States
<1>2. CASE \E t \in Tables : ReadGeneration(r, t) \/ GenerationFails(r, t)
  BY <1>1, <1>2, AskedData DEF DataInv, AsNew
<1>3. CASE Lookup(r) \/ LookupFails(r)
  BY <1>1, <1>3, FoundData, MissedData DEF DataInv, AsNew, Lookup, LookupFails
<1>4. CASE Lock(r) \/ LockRefresh(r)
  BY <1>1, <1>4, TakeLockData, MissedData DEF DataInv, AsNew, Lock, LockRefresh
<1>5. CASE Recheck(r) \/ GiveUp(r) \/ FillFails(r)
  BY <1>1, <1>5, FoundData, MissedData DEF DataInv, AsNew, Recheck, GiveUp, FillFails
<1>6. CASE Found(r, "answered")
  BY <1>1, <1>6, FoundData DEF DataInv, AsNew
<1>7. CASE \/ \E i \in Items : StartRead(r, i)
           \/ AnswerRevision(r) \/ Unlock(r)
           \/ Poll(r) /\ ~ Found(r, "answered")
  BY <1>1, <1>7, PlainData DEF DataInv, AsNew
<1>8. CASE Fill(r)
  BY <1>1, <1>8, FillData DEF DataInv, AsNew
<1>9. CASE Set(r)
  BY <1>1, <1>9, SetData DEF DataInv, AsNew
<1>10. CASE End(r)
  BY <1>1, <1>10, EndData DEF DataInv, AsNew
<1> QED
  BY <1>2, <1>3, <1>4, <1>5, <1>6, <1>7, <1>8, <1>9, <1>10 DEF ReaderStep

LEMMA NextData == DataInv /\ [CacheNext]_cacheVars => DataInv'
<1> SUFFICES ASSUME DataInv, [CacheNext]_cacheVars PROVE DataInv'
  OBVIOUS
<1>1. ASSUME NEW r \in Readers, ReaderStep(r) \/ \E i \in Items : StartRead(r, i)
      PROVE  DataInv'
  BY <1>1, ReaderData
<1>2. ASSUME NEW t \in Tables, Write(t) \/ Bump(t) \/ BumpFails(t) PROVE DataInv'
  BY <1>2, AdminData
<1>3. ASSUME NEW scope \in SUBSET Tables, StartInvalidation(scope) PROVE DataInv'
  BY <1>3, AdminData, CatalogCacheAssumption
<1>4. CASE (\E k \in Keys : Expire(k)) \/ (\E l \in LockNames : Lapse(l))
  BY <1>4, RedisStepData
<1>5. CASE UNCHANGED cacheVars
  <2>1. TypeInv'
    BY <1>5, NextType DEF DataInv, AsNew
  <2> QED
    BY <1>5, <2>1 DEF DataInv, AsNew, SinceBelow, EntriesReal, KeysReal, EntriesOfTheirGeneration,
                      DataOfGeneration, Carrying, cacheVars, admin
<1> QED
  BY <1>1, <1>2, <1>3, <1>4, <1>5 DEF CacheNext

(* No entry is older than its generation, whatever fails and whichever      *)
(* locks lapse.                                                             *)
THEOREM EntriesAreOfTheirGeneration == CacheSpec => []EntriesOfTheirGeneration
<1>1. DataInv => EntriesOfTheirGeneration
  BY DEF DataInv, AsNew
<1> QED
  BY <1>1, InitData, NextData, PTL DEF CacheSpec

-----------------------------------------------------------------------------
(* While generations are read and bumped, a request gets what invalidations *)
(* answered before it were about.                                           *)

(* The invalidation under way is about versions its bumps will reach.       *)
Marks == todo # {} => \A t \in Tables :
           /\ announced[t] <= mark[t] /\ mark[t] <= version[t]
           /\ t \notin todo => mark[t] <= since[t][gen[t]]

Reached == \A t \in Tables : announced[t] <= since[t][gen[t]]

(* A reader's key is as new as the invalidations before the request.        *)
Floors ==
  \A r \in Readers : stage[r] # "idle" => \A t \in Deps(item[r]) :
    /\ floor[r][t] <= announced[t]
    /\ t \notin asked[r] => floor[r][t] <= since[t][gens[r][t]]

KeyFirst == \A r \in Readers : stage[r] \notin {"idle", "prefix"} => asked[r] = {}

FreshInv == /\ DataInv
            /\ Marks
            /\ Reached
            /\ Floors
            /\ KeyFirst

LEMMA InitFresh == CacheInit => FreshInv
<1> SUFFICES ASSUME CacheInit PROVE FreshInv
  OBVIOUS
<1>1. Marks /\ Floors /\ KeyFirst
  BY DEF CacheInit, Marks, Floors, KeyFirst
<1>2. Reached
  BY CatalogCacheAssumption DEF CacheInit, Reached, Zero
<1> QED
  BY <1>1, <1>2, InitData DEF FreshInv

LEMMA BumpFresh ==
  ASSUME FreshInv, NEW t \in Tables, Bump(t)
  PROVE  Marks' /\ Reached' /\ Floors' /\ KeyFirst'
<1>1. /\ gen'[t] = gen[t] + 1 /\ since'[t][gen'[t]] = version[t]
      /\ \A n \in 0 .. gen[t] : since'[t][n] = since[t][n]
      /\ \A u \in Tables : u # t => gen'[u] = gen[u] /\ since'[u] = since[u]
  BY BumpEffect DEF FreshInv, DataInv
<1>2. /\ t \in todo /\ todo' = todo \ {t}
      /\ announced' = IF todo = {t} THEN mark ELSE announced
      /\ UNCHANGED <<version, mark, stage, item, asked, gens, floor>>
  BY DEF Bump, BumpDone
<1> DEFINE First(u) == since[u][gen[u]]
<1>3. \A u \in Tables : /\ First(u) \in Nat /\ First(u) <= version[u]
                        /\ mark[u] \in Nat /\ version[u] \in Nat /\ announced[u] \in Nat
                        /\ announced[u] <= First(u) /\ announced[u] <= mark[u] /\ mark[u] <= version[u]
                        /\ u \notin todo => mark[u] <= First(u)
  BY <1>2, Numbers DEF FreshInv, DataInv, AsNew, SinceBelow, Reached, Marks
<1>4. \A u \in Tables : /\ First(u)' \in Nat /\ First(u) <= First(u)'
                        /\ u \notin todo' => mark[u] <= First(u)'
  BY <1>1, <1>2, <1>3
<1>5. \A u \in Tables : announced[u] <= announced'[u] /\ announced'[u] <= First(u)'
  <2>1. CASE todo = {t}
    BY <1>2, <1>3, <1>4, <2>1
  <2>2. CASE todo # {t}
    BY <1>2, <1>3, <1>4, <2>2
  <2> QED
    BY <2>1, <2>2
<1>6. todo' # {} => announced' = announced
  BY <1>2
<1>7. Marks'
  BY <1>2, <1>3, <1>4, <1>6 DEF Marks
<1>8. Reached'
  BY <1>5 DEF Reached
<1>9. Floors'
  <2> SUFFICES ASSUME NEW r \in Readers, stage[r] # "idle", NEW u \in Deps(item[r])
               PROVE  /\ floor[r][u] <= announced'[u]
                      /\ u \notin asked[r] => floor[r][u] <= since'[u][gens[r][u]]
    BY <1>2 DEF Floors
  <2>1. u \in Tables /\ floor[r][u] \in Nat /\ announced'[u] \in Nat
    BY Numbers, <1>2, <1>3 DEF FreshInv, DataInv
  <2>2. floor[r][u] <= announced[u] /\ (u \notin asked[r] => floor[r][u] <= since[u][gens[r][u]])
    BY DEF FreshInv, Floors
  <2>3. gens[r][u] \in 0 .. gen[u]
    BY <2>1, Numbers DEF FreshInv, DataInv, AsNew, KeysReal
  <2>4. since'[u][gens[r][u]] = since[u][gens[r][u]]
    BY <1>1, <2>1, <2>3
  <2>5. floor[r][u] <= announced'[u]
    BY <1>3, <1>5, <2>1, <2>2
  <2> QED
    BY <2>2, <2>4, <2>5
<1>10. KeyFirst'
  BY <1>2 DEF FreshInv, KeyFirst
<1> QED
  BY <1>7, <1>8, <1>9, <1>10

LEMMA WriteFresh ==
  ASSUME FreshInv, NEW t \in Tables, Write(t)
  PROVE  Marks' /\ Reached' /\ Floors' /\ KeyFirst'
<1>1. /\ UNCHANGED <<gen, since, todo, mark, announced, stage, item, asked, gens, floor>>
      /\ \A u \in Tables : version'[u] >= version[u] /\ version'[u] \in Nat
  BY Numbers DEF FreshInv, DataInv, TypeInv, AdminType, Versions, Write
<1>2. Marks'
  BY <1>1, Numbers DEF FreshInv, DataInv, Marks
<1> QED
  BY <1>1, <1>2 DEF FreshInv, Reached, Floors, KeyFirst

LEMMA StartInvalidationFresh ==
  ASSUME FreshInv, NEW scope \in SUBSET Tables, StartInvalidation(scope)
  PROVE  Marks' /\ Reached' /\ Floors' /\ KeyFirst'
<1>1. /\ todo' = scope
      /\ mark' = [t \in Tables |-> IF t \in scope THEN version[t] ELSE announced[t]]
      /\ UNCHANGED <<version, gen, since, announced, stage, item, asked, gens, floor>>
  BY DEF StartInvalidation
<1>2. ASSUME NEW t \in Tables
      PROVE  /\ announced[t] <= mark'[t] /\ mark'[t] <= version[t]
             /\ t \notin scope => mark'[t] <= since[t][gen[t]]
  <2>1. /\ announced[t] \in Nat /\ version[t] \in Nat /\ since[t][gen[t]] \in Nat
        /\ announced[t] <= since[t][gen[t]] /\ since[t][gen[t]] <= version[t]
    BY Numbers DEF FreshInv, DataInv, AsNew, SinceBelow, Reached
  <2> QED
    BY <1>1, <2>1
<1>3. Marks'
  BY <1>1, <1>2 DEF Marks
<1> QED
  BY <1>1, <1>3 DEF FreshInv, Reached, Floors, KeyFirst

LEMMA StartReadFresh ==
  ASSUME FreshInv, NEW r \in Readers, NEW i \in Items, StartRead(r, i)
  PROVE  Marks' /\ Reached' /\ Floors' /\ KeyFirst'
<1>1. UNCHANGED <<admin, gens>>
  BY DEF StartRead, shared
<1>2. /\ stage'[r] = "prefix" /\ item'[r] = i /\ floor'[r] = announced /\ asked'[r] = Deps(i)
      /\ \A q \in Readers \ {r} : /\ stage'[q] = stage[q] /\ item'[q] = item[q]
                                 /\ floor'[q] = floor[q] /\ asked'[q] = asked[q]
  BY DepsType DEF FreshInv, DataInv, TypeInv, ReaderType, StartRead, Goto
<1>3. \A t \in Deps(i) : announced[t] <= announced[t]
  BY Numbers, DepsType DEF FreshInv, DataInv
<1>4. Floors'
  BY <1>1, <1>2, <1>3 DEF FreshInv, Floors, admin
<1> QED
  BY <1>1, <1>2, <1>4 DEF FreshInv, Marks, Reached, KeyFirst, admin

LEMMA ReadGenerationFresh ==
  ASSUME FreshInv, NEW r \in Readers, NEW t \in Tables, ReadGeneration(r, t)
  PROVE  Marks' /\ Reached' /\ Floors' /\ KeyFirst'
<1>1. UNCHANGED <<admin, item, floor>>
  BY DEF ReadGeneration, GenerationAsked
<1>2. /\ stage[r] = "prefix" /\ asked'[r] = asked[r] \ {t}
      /\ stage'[r] = "prefix" \/ asked[r] = {t}
      /\ gens'[r][t] = gen[t] /\ \A u \in Tables \ {t} : gens'[r][u] = gens[r][u]
      /\ \A q \in Readers \ {r} : /\ stage'[q] = stage[q] /\ gens'[q] = gens[q]
                                 /\ asked'[q] = asked[q]
  BY DEF FreshInv, DataInv, TypeInv, ReaderType, Generations, ReadGeneration, GenerationAsked, Goto
<1>3. ASSUME NEW u \in Deps(item[r])
      PROVE  /\ floor[r][u] <= announced[u]
             /\ u \notin asked'[r] => floor[r][u] <= since[u][gens'[r][u]]
  <2>1. u \in Tables
    BY <1>3, Numbers DEF FreshInv, DataInv
  <2>2. floor[r][u] <= announced[u] /\ (u \notin asked[r] => floor[r][u] <= since[u][gens[r][u]])
    BY <1>2, <1>3 DEF FreshInv, Floors
  <2>3. floor[r][u] <= since[u][gen[u]]
    BY <2>1, <2>2, Numbers DEF FreshInv, DataInv, Reached
  <2> QED
    BY <1>2, <2>1, <2>2, <2>3
<1>4. Floors'
  BY <1>1, <1>2, <1>3 DEF FreshInv, Floors, admin
<1> QED
  BY <1>1, <1>2, <1>4 DEF FreshInv, Marks, Reached, KeyFirst, admin

(* Every other step leaves the keys that requests are under way with.       *)
LEMMA RestFresh ==
  ASSUME FreshInv, UNCHANGED <<admin, asked>>,
         \A r \in Readers : stage'[r] # "idle" =>
           /\ stage[r] # "idle" /\ (stage'[r] # "prefix" => stage[r] # "prefix")
           /\ item'[r] = item[r] /\ gens'[r] = gens[r] /\ floor'[r] = floor[r]
  PROVE  Marks' /\ Reached' /\ Floors' /\ KeyFirst'
<1>1. Marks' /\ Reached'
  BY DEF FreshInv, Marks, Reached, admin
<1>2. Floors' /\ KeyFirst'
  BY DEF FreshInv, Floors, KeyFirst, admin
<1> QED
  BY <1>1, <1>2

LEMMA ReaderRest ==
  ASSUME TypeInv, NEW r \in Readers, ReaderStep(r),
         ~ \E t \in Tables : ReadGeneration(r, t) \/ GenerationFails(r, t)
  PROVE  /\ UNCHANGED <<admin, asked>>
         /\ \A q \in Readers : stage'[q] # "idle" =>
              /\ stage[q] # "idle" /\ (stage'[q] # "prefix" => stage[q] # "prefix")
              /\ item'[q] = item[q] /\ gens'[q] = gens[q] /\ floor'[q] = floor[q]
<1> DEFINE Rest ==
      /\ UNCHANGED <<admin, asked>>
      /\ \A q \in Readers : stage'[q] # "idle" =>
           /\ stage[q] # "idle" /\ (stage'[q] # "prefix" => stage[q] # "prefix")
           /\ item'[q] = item[q] /\ gens'[q] = gens[q] /\ floor'[q] = floor[q]
<1> USE DEF TypeInv, ReaderType, Goto, shared
<1>1. CASE AnswerRevision(r) \/ Fill(r) \/ Set(r) \/ Unlock(r)
  BY <1>1 DEF AnswerRevision, Fill, Set, Unlock
<1>2. CASE Lookup(r) \/ LookupFails(r)
  BY <1>2 DEF Lookup, LookupFails, LookingUp, Found, Missed
<1>3. CASE Lock(r) \/ LockRefresh(r)
  BY <1>3 DEF Lock, LockRefresh, TakeLock, Missed
<1>4. CASE Recheck(r) \/ GiveUp(r) \/ FillFails(r)
  BY <1>4 DEF Recheck, GiveUp, FillFails, Found, Missed
<1>5. CASE Poll(r)
  BY <1>5 DEF Poll, Found
<1>6. CASE End(r)
  BY <1>6 DEF End
<1> QED
  BY <1>1, <1>2, <1>3, <1>4, <1>5, <1>6 DEF ReaderStep

(* Only commands on generations use up their budget.                        *)
LEMMA ServedBefore ==
  ASSUME TypeInv, [CacheNext]_cacheVars, GenerationsServed'
  PROVE  /\ GenerationsServed
         /\ \A r \in Readers, t \in Tables : ~ GenerationFails(r, t)
         /\ \A t \in Tables : ~ BumpFails(t)
<1>1. genFaultsLeft \in 0 .. GenFaultBudget /\ GenFaultBudget \in Nat
  BY CatalogCacheAssumption DEF TypeInv, BudgetType
<1>2. genFaultsLeft' = GenFaultBudget
  BY DEF GenerationsServed
<1>3. ~ GenStrikes
  BY <1>1, <1>2 DEF GenStrikes
<1>4. \A r \in Readers, t \in Tables : ~ GenerationFails(r, t)
  BY <1>3 DEF GenerationFails
<1>5. \A t \in Tables : ~ BumpFails(t)
  BY <1>3 DEF BumpFails
<1>6. genFaultsLeft' = genFaultsLeft
  <2>1. CASE \E r \in Readers : ReaderStep(r)
    <3> SUFFICES ASSUME NEW r \in Readers, ReaderStep(r) PROVE genFaultsLeft' = genFaultsLeft
      BY <2>1
    <3>1. CASE \E t \in Tables : ReadGeneration(r, t)
      BY <3>1 DEF ReadGeneration, budgets
    <3>2. CASE AnswerRevision(r) \/ Lookup(r) \/ LookupFails(r)
      BY <3>2 DEF AnswerRevision, Lookup, LookupFails, Found, Missed, shared, budgets
    <3>3. CASE Lock(r) \/ LockRefresh(r) \/ Recheck(r)
      BY <3>3 DEF Lock, LockRefresh, Recheck, TakeLock, Found, Missed, shared
    <3>4. CASE Poll(r) \/ GiveUp(r)
      BY <3>4 DEF Poll, GiveUp, Found, Missed, shared
    <3>5. CASE Fill(r) \/ FillFails(r) \/ Set(r) \/ Unlock(r) \/ End(r)
      BY <3>5 DEF Fill, FillFails, Set, Unlock, End, Missed, shared
    <3> QED
      BY <1>4, <3>1, <3>2, <3>3, <3>4, <3>5 DEF ReaderStep
  <2>2. CASE \E r \in Readers : \E i \in Items : StartRead(r, i)
    BY <2>2 DEF StartRead, shared
  <2>3. CASE \E t \in Tables : Write(t) \/ Bump(t)
    BY <2>3 DEF Write, Bump, budgets
  <2>4. CASE \E scope \in SUBSET Tables : StartInvalidation(scope)
    BY <2>4 DEF StartInvalidation, budgets
  <2>5. CASE (\E k \in Keys : Expire(k)) \/ (\E l \in LockNames : Lapse(l)) \/ UNCHANGED cacheVars
    BY <2>5 DEF Expire, Lapse, cacheVars, budgets
  <2> QED
    BY <1>5, <2>1, <2>2, <2>3, <2>4, <2>5 DEF CacheNext
<1> QED
  BY <1>2, <1>4, <1>5, <1>6 DEF GenerationsServed

ServedInv == DataInv /\ (GenerationsServed => FreshInv)

LEMMA NextServed == ServedInv /\ [CacheNext]_cacheVars => ServedInv'
<1> SUFFICES ASSUME ServedInv, [CacheNext]_cacheVars PROVE ServedInv'
  OBVIOUS
<1>1. DataInv'
  BY NextData DEF ServedInv
<1> SUFFICES ASSUME GenerationsServed' PROVE FreshInv'
  BY <1>1 DEF ServedInv
<1> DEFINE Goal == Marks' /\ Reached' /\ Floors' /\ KeyFirst'
<1>2. /\ FreshInv
      /\ \A r \in Readers, t \in Tables : ~ GenerationFails(r, t)
      /\ \A t \in Tables : ~ BumpFails(t)
  BY ServedBefore DEF ServedInv, DataInv
<1>3. ASSUME NEW r \in Readers, ReaderStep(r) PROVE Goal
  <2>1. CASE \E t \in Tables : ReadGeneration(r, t)
    BY <1>2, <2>1, ReadGenerationFresh
  <2>2. CASE ~ \E t \in Tables : ReadGeneration(r, t)
    BY <1>2, <1>3, <2>2, ReaderRest, RestFresh DEF FreshInv, DataInv
  <2> QED
    BY <2>1, <2>2
<1>4. ASSUME NEW r \in Readers, NEW i \in Items, StartRead(r, i) PROVE Goal
  BY <1>2, <1>4, StartReadFresh
<1>5. ASSUME NEW t \in Tables, Write(t) \/ Bump(t) PROVE Goal
  BY <1>2, <1>5, WriteFresh, BumpFresh
<1>6. ASSUME NEW scope \in SUBSET Tables, StartInvalidation(scope) PROVE Goal
  BY <1>2, <1>6, StartInvalidationFresh
<1>7. ASSUME (\E k \in Keys : Expire(k)) \/ (\E l \in LockNames : Lapse(l)) \/ UNCHANGED cacheVars
      PROVE  Goal
  <2>1. UNCHANGED <<admin, stage, item, asked, gens, floor>>
    BY <1>7 DEF Expire, Lapse, cacheVars
  <2> QED
    BY <1>2, <2>1, RestFresh
<1>8. Goal
  BY <1>2, <1>3, <1>4, <1>5, <1>6, <1>7 DEF CacheNext
<1> QED
  BY <1>1, <1>8 DEF FreshInv

(* As long as no command on a generation has failed, no request that begins *)
(* after an invalidation was answered gets data from before it, for any     *)
(* number of readers, failing fills and lapsing locks, and for entries      *)
(* under both generations.                                                  *)
THEOREM FreshWhileGenerationsServed == CacheSpec => []FreshAfterInvalidation
<1>1. CacheInit => ServedInv
  BY InitFresh DEF ServedInv, FreshInv
<1>2. ServedInv => FreshAfterInvalidation
  <2> SUFFICES ASSUME FreshInv, NEW r \in Readers,
                      stage[r] \in {"answered", "served"}, item[r] # "revision",
                      NEW t \in Deps(item[r])
               PROVE  data[r][t] >= floor[r][t]
    BY DEF ServedInv, FreshAfterInvalidation, InvalidatedNeverServed
  <2>1. t \in Tables /\ gens[r][t] \in 0 .. MaxBumps
    BY Numbers DEF FreshInv, DataInv
  <2>2. floor[r][t] \in Nat /\ data[r][t] \in Nat /\ since[t][gens[r][t]] \in Nat
    BY <2>1, Numbers DEF FreshInv, DataInv
  <2>3. data[r][t] >= since[t][gens[r][t]]
    BY DEF FreshInv, DataInv, AsNew, DataOfGeneration, Carrying
  <2>4. floor[r][t] <= since[t][gens[r][t]]
    BY DEF FreshInv, Floors, KeyFirst
  <2> QED
    BY <2>2, <2>3, <2>4
<1> QED
  BY <1>1, <1>2, NextServed, PTL DEF CacheSpec
-----------------------------------------------------------------------------
(* Locks.                                                                   *)

(* A lock is held from the command that set it to the one that deletes it.  *)
HeldWhere ==
  \A r \in Readers : held[r] # "none" =>
    stage[r] \in {"recheck", "served", "fill", "set", "unlock", "failed"}

(* Readers that believe to hold a lock: the one it was set for, and one for *)
(* every time a lock lapsed while a reader still held it.                   *)
FlightOf(l) ==
  /\ IsFiniteSet(Holders(l))
  /\ Cardinality(Holders(l)) <= (IF l \in locks THEN 1 ELSE 0) + (LapseBudget - lapsesLeft)

FlightInv == HeldWhere /\ \A l \in LockNames : FlightOf(l)

LEMMA InitFlight == CacheInit => FlightInv
<1> SUFFICES ASSUME CacheInit PROVE FlightInv
  OBVIOUS
<1>1. \A l \in LockNames : Holders(l) = {}
  BY DEF CacheInit, LockNames, Holders
<1>2. lapsesLeft = LapseBudget /\ LapseBudget \in Nat /\ locks = {}
  BY CatalogCacheAssumption DEF CacheInit
<1>3. \A l \in LockNames : FlightOf(l)
  BY <1>1, <1>2, FS_EmptySet DEF FlightOf
<1> QED
  BY <1>3 DEF FlightInv, HeldWhere, CacheInit

(* What a step of a reader does to the locks: nothing, ...                  *)
Others(r) ==
  \A s \in Readers : s # r => held'[s] = held[s] /\ Key(s)' = Key(s) /\ stage'[s] = stage[s]

KeepsLocks(r) ==
  /\ locks' = locks /\ held'[r] = held[r]
  /\ held[r] # "none" => Key(r)' = Key(r)
  /\ held[r] # "none" => stage'[r] \in {"recheck", "served", "fill", "set", "unlock", "failed"}

(* ... take one, ...                                                        *)
Takes(r, sort) ==
  /\ held[r] = "none" /\ held'[r] = sort /\ Key(r)' = Key(r)
  /\ stage'[r] \in {"recheck", "served"}
  /\ <<sort, Key(r)>> \notin locks
  /\ locks' = locks \cup {<<sort, Key(r)>>}

(* ... or let go of its own, which may be another's by then.                *)
LetsGo(r) ==
  /\ held'[r] = "none" /\ Key(r)' = Key(r)
  /\ \/ locks' = locks \ {<<held[r], Key(r)>>}
     \/ held[r] # "none" /\ locks' = locks

LEMMA ReaderLocks ==
  ASSUME TypeInv, HeldWhere, NEW r \in Readers,
         ReaderStep(r) \/ \E i \in Items : StartRead(r, i)
  PROVE  /\ Others(r) /\ lapsesLeft' = lapsesLeft
         /\ \/ KeepsLocks(r)
            \/ \E sort \in {"fill", "refresh"} : Takes(r, sort)
            \/ LetsGo(r)
<1> USE DEF TypeInv, ReaderType, Others, Key, Goto
<1>1. CASE \E t \in Tables : ReadGeneration(r, t) \/ GenerationFails(r, t)
  BY <1>1 DEF ReadGeneration, GenerationFails, GenerationAsked, GenStrikes, budgets, KeepsLocks,
     HeldWhere
<1>2. CASE AnswerRevision(r)
  BY <1>2 DEF AnswerRevision, budgets, KeepsLocks, HeldWhere
<1>3. CASE Lookup(r) \/ LookupFails(r)
  BY <1>3 DEF Lookup, LookupFails, LookingUp, Found, Missed, shared, KeepsLocks, HeldWhere
<1>4. CASE Lock(r) \/ LockRefresh(r)
  <2>1. held[r] = "none"
    BY <1>4 DEF Lock, LockRefresh, HeldWhere
  <2>2. CASE TakeLock(r, "fill", "recheck") \/ TakeLock(r, "refresh", "served")
    BY <2>1, <2>2 DEF TakeLock, shared, Takes
  <2>3. CASE Missed(r, "wait") \/ Missed(r, "answered")
    BY <2>1, <2>3 DEF Missed, shared, KeepsLocks
  <2> QED
    BY <1>4, <2>2, <2>3 DEF Lock, LockRefresh
<1>5. CASE Recheck(r) \/ GiveUp(r) \/ FillFails(r)
  BY <1>5 DEF Recheck, GiveUp, FillFails, Found, Missed, shared, KeepsLocks, HeldWhere
<1>6. CASE Poll(r)
  BY <1>6 DEF Poll, Found, shared, KeepsLocks, HeldWhere
<1>7. CASE Fill(r)
  BY <1>7 DEF Fill, shared, KeepsLocks, HeldWhere
<1>8. CASE Set(r)
  BY <1>8 DEF Set, shared, KeepsLocks, HeldWhere
<1>9. CASE Unlock(r)
  BY <1>9 DEF Unlock, shared, LetsGo
<1>10. CASE End(r)
  BY <1>10 DEF End, shared, KeepsLocks, HeldWhere
<1>11. ASSUME NEW i \in Items, StartRead(r, i)
       PROVE  Others(r) /\ lapsesLeft' = lapsesLeft /\ KeepsLocks(r)
  BY <1>11 DEF StartRead, shared, KeepsLocks, HeldWhere
<1> QED
  BY <1>1, <1>2, <1>3, <1>4, <1>5, <1>6, <1>7, <1>8, <1>9, <1>10, <1>11 DEF ReaderStep

(* One more element, at most one more to count.                             *)
LEMMA OneMore ==
  ASSUME NEW S, NEW x, IsFiniteSet(S)
  PROVE  /\ IsFiniteSet(S \cup {x})
         /\ Cardinality(S \cup {x}) <= Cardinality(S) + 1
<1>1. Cardinality(S) \in Nat
  BY FS_CardinalityType
<1>2. IsFiniteSet(S \cup {x})
  BY FS_AddElement
<1>3. Cardinality(S \cup {x}) = IF x \in S THEN Cardinality(S) ELSE Cardinality(S) + 1
  BY FS_AddElement
<1>4. CASE x \in S
  BY <1>1, <1>2, <1>3, <1>4
<1>5. CASE x \notin S
  BY <1>1, <1>2, <1>3, <1>5
<1> QED BY <1>4, <1>5

LEMMA ReaderFlight ==
  ASSUME TypeInv, FlightInv, NEW r \in Readers,
         ReaderStep(r) \/ \E i \in Items : StartRead(r, i)
  PROVE  FlightInv'
<1>1. Others(r) /\ lapsesLeft' = lapsesLeft
  BY ReaderLocks DEF FlightInv
<1>2. lapsesLeft \in 0 .. LapseBudget /\ LapseBudget \in Nat
  BY CatalogCacheAssumption DEF TypeInv, BudgetType
<1>3. \A l \in LockNames : Cardinality(Holders(l)) \in Nat
  BY FS_CardinalityType DEF FlightInv, FlightOf
<1>4. CASE KeepsLocks(r)
  <2>1. \A l \in LockNames : Holders(l)' = Holders(l)
    <3> SUFFICES ASSUME NEW l \in LockNames, NEW s \in Readers
                 PROVE  s \in Holders(l)' <=> s \in Holders(l)
      BY DEF Holders
    <3> l[1] # "none"
      BY DEF LockNames
    <3> QED
      BY <1>1, <1>4 DEF Others, KeepsLocks, Holders
  <2>2. HeldWhere'
    BY <1>1, <1>4 DEF Others, KeepsLocks, HeldWhere, FlightInv
  <2> QED
    BY <1>1, <1>4, <2>1, <2>2 DEF FlightInv, FlightOf, KeepsLocks
<1>5. ASSUME NEW sort \in {"fill", "refresh"}, Takes(r, sort) PROVE FlightInv'
  <2>1. HeldWhere'
    BY <1>1, <1>5 DEF Others, Takes, HeldWhere, FlightInv
  <2> SUFFICES ASSUME NEW l \in LockNames PROVE FlightOf(l)'
    BY <2>1 DEF FlightInv
  <2>2. FlightOf(l)
    BY DEF FlightInv
  <2>3. l[1] # "none" /\ l = <<l[1], l[2]>>
    BY DEF LockNames
  <2>4. CASE l = <<sort, Key(r)>>
    <3>1. Holders(l)' = Holders(l) \cup {r} /\ l \notin locks /\ l \in locks'
      BY <1>1, <1>5, <2>3, <2>4 DEF Others, Takes, Holders
    <3>2. /\ IsFiniteSet(Holders(l)')
          /\ Cardinality(Holders(l)') <= Cardinality(Holders(l)) + 1
      BY <2>2, <3>1, OneMore DEF FlightOf
    <3> QED
      BY <1>1, <1>2, <1>3, <2>2, <3>1, <3>2, FS_CardinalityType DEF FlightOf
  <2>5. CASE l # <<sort, Key(r)>>
    <3>1. Holders(l)' = Holders(l)
      BY <1>1, <1>5, <2>3, <2>5 DEF Others, Takes, Holders
    <3>2. l \in locks' <=> l \in locks
      BY <1>5, <2>5 DEF Takes
    <3> QED
      BY <1>1, <2>2, <3>1, <3>2 DEF FlightOf
  <2> QED
    BY <2>4, <2>5
<1>6. CASE LetsGo(r)
  <2>1. HeldWhere'
    BY <1>1, <1>6 DEF Others, LetsGo, HeldWhere, FlightInv
  <2> SUFFICES ASSUME NEW l \in LockNames PROVE FlightOf(l)'
    BY <2>1 DEF FlightInv
  <2>2. FlightOf(l)
    BY DEF FlightInv
  <2>3. l[1] # "none" /\ l = <<l[1], l[2]>>
    BY DEF LockNames
  <2>4. Holders(l)' = Holders(l) \ {r}
    BY <1>1, <1>6, <2>3 DEF Others, LetsGo, Holders
  <2>5. /\ IsFiniteSet(Holders(l)')
        /\ Cardinality(Holders(l)') =
             IF r \in Holders(l) THEN Cardinality(Holders(l)) - 1
             ELSE Cardinality(Holders(l))
    BY <2>2, <2>4, FS_RemoveElement DEF FlightOf
  <2>6. l \in locks' => l \in locks
    BY <1>6 DEF LetsGo
  <2>7. r \notin Holders(l) => (l \in locks <=> l \in locks')
    <3> SUFFICES ASSUME l = <<held[r], Key(r)>> PROVE r \in Holders(l)
      BY <1>6 DEF LetsGo
    <3> QED
      BY <2>3 DEF Holders
  <2>8. CASE r \in Holders(l)
    BY <1>1, <1>2, <1>3, <2>2, <2>5, <2>6, <2>8 DEF FlightOf
  <2>9. CASE r \notin Holders(l)
    BY <1>1, <2>2, <2>5, <2>7, <2>9 DEF FlightOf
  <2> QED
    BY <2>8, <2>9
<1> QED
  BY <1>4, <1>5, <1>6, ReaderLocks DEF FlightInv

LEMMA LapseFlight ==
  ASSUME TypeInv, FlightInv, NEW m \in LockNames, Lapse(m) PROVE FlightInv'
<1>1. /\ locks' = locks \ {m} /\ m \in locks /\ UNCHANGED <<stage, held, item, gens>>
      /\ IF Holders(m) = {} THEN lapsesLeft' = lapsesLeft
         ELSE lapsesLeft' = lapsesLeft - 1 /\ lapsesLeft > 0
  BY DEF Lapse
<1>2. lapsesLeft \in 0 .. LapseBudget /\ LapseBudget \in Nat
  BY CatalogCacheAssumption DEF TypeInv, BudgetType
<1>3. HeldWhere'
  BY <1>1 DEF HeldWhere, FlightInv
<1>4. \A l \in LockNames : Holders(l)' = Holders(l)
  BY <1>1 DEF Holders, Key
<1> SUFFICES ASSUME NEW l \in LockNames PROVE FlightOf(l)'
  BY <1>3 DEF FlightInv
<1>5. /\ FlightOf(l) /\ Holders(l)' = Holders(l)
      /\ Cardinality(Holders(l)) \in Nat
  BY <1>4, FS_CardinalityType DEF FlightInv, FlightOf
<1>6. CASE l # m
  BY <1>1, <1>2, <1>5, <1>6 DEF FlightOf
<1>7. CASE l = m /\ Holders(m) = {}
  BY <1>1, <1>2, <1>5, <1>7, FS_EmptySet DEF FlightOf
<1>8. CASE l = m /\ Holders(m) # {}
  BY <1>1, <1>2, <1>5, <1>8 DEF FlightOf
<1> QED
  BY <1>6, <1>7, <1>8

LEMMA NextFlight == ASSUME TypeInv, FlightInv, [CacheNext]_cacheVars PROVE FlightInv'
<1>1. ASSUME UNCHANGED <<locks, stage, held, item, gens, lapsesLeft>> PROVE FlightInv'
  <2>1. \A l \in LockNames : Holders(l)' = Holders(l)
    BY <1>1 DEF Holders, Key
  <2> QED
    BY <1>1, <2>1 DEF FlightInv, FlightOf, HeldWhere
<1>2. ASSUME \/ \E t \in Tables : Write(t) \/ Bump(t) \/ BumpFails(t)
             \/ \E scope \in SUBSET Tables : StartInvalidation(scope)
             \/ \E k \in Keys : Expire(k)
             \/ UNCHANGED cacheVars
      PROVE  FlightInv'
  BY <1>1, <1>2 DEF Write, Bump, BumpFails, BumpDone, GenStrikes, StartInvalidation,
     Expire, budgets, cacheVars
<1> QED
  BY <1>2, ReaderFlight, LapseFlight DEF CacheNext

(* Who is at work on a fill without a lock has polled to the end before.     *)
WithoutLock ==
  \A r \in Readers :
    /\ stage[r] = "recheck" => held[r] = "fill"
    /\ stage[r] = "served" => held[r] = "refresh"
    /\ stage[r] \in {"fill", "set"} /\ held[r] = "none" => polls[r] = MaxPolls

LEMMA NextWithoutLock ==
  ASSUME TypeInv, WithoutLock, [CacheNext]_cacheVars
  PROVE  WithoutLock'
<1> USE DEF WithoutLock, TypeInv, ReaderType, Goto
<1>1. ASSUME NEW r \in Readers, ReaderStep(r) \/ \E i \in Items : StartRead(r, i)
      PROVE  WithoutLock'
  <2>1. CASE \E t \in Tables : ReadGeneration(r, t) \/ GenerationFails(r, t)
    BY <2>1 DEF ReadGeneration, GenerationFails, GenerationAsked
  <2>2. CASE AnswerRevision(r) \/ Lookup(r) \/ LookupFails(r)
    BY <2>2 DEF AnswerRevision, Lookup, LookupFails, Found, Missed
  <2>3. CASE Lock(r) \/ LockRefresh(r)
    BY <2>3 DEF Lock, LockRefresh, TakeLock, Missed
  <2>4. CASE Recheck(r)
    BY <2>4 DEF Recheck, Found, Missed
  <2>5. CASE Poll(r)
    BY <2>5 DEF Poll, Found
  <2>6. CASE GiveUp(r) \/ FillFails(r)
    BY <2>6 DEF GiveUp, FillFails, Missed
  <2>7. CASE Fill(r) \/ Set(r)
    BY <2>7 DEF Fill, Set
  <2>8. CASE Unlock(r) \/ End(r)
    BY <2>8 DEF Unlock, End
  <2>9. CASE \E i \in Items : StartRead(r, i)
    BY <2>9 DEF StartRead
  <2> QED BY <1>1, <2>1, <2>2, <2>3, <2>4, <2>5, <2>6, <2>7, <2>8, <2>9 DEF ReaderStep
<1>2. CASE UNCHANGED <<stage, held, polls>>
  BY <1>2
<1>3. ASSUME \/ \E t \in Tables : Write(t) \/ Bump(t) \/ BumpFails(t)
             \/ \E scope \in SUBSET Tables : StartInvalidation(scope)
             \/ \E k \in Keys : Expire(k)
             \/ \E l \in LockNames : Lapse(l)
             \/ UNCHANGED cacheVars
      PROVE  UNCHANGED <<stage, held, polls>>
  BY <1>3 DEF Write, Bump, BumpFails, BumpDone, StartInvalidation, Expire, Lapse, cacheVars
<1> QED BY <1>1, <1>2, <1>3 DEF CacheNext

(* However readers, failures and lapsing locks follow each other: of the    *)
(* readers at work on an entry that have not waited in vain for another     *)
(* one's fill, one has the lock, and there are no more than locks ran out   *)
(* under a reader at work besides.                                          *)
THEOREM FillsAreFew == CacheSpec => []SingleFlight
<1> DEFINE FewInv == TypeInv /\ FlightInv /\ WithoutLock
<1>1. CacheInit => FewInv
  BY InitType, InitFlight DEF CacheInit, WithoutLock
<1>2. FewInv /\ [CacheNext]_cacheVars => FewInv'
  BY NextType, NextFlight, NextWithoutLock
<1>3. FewInv => SingleFlight
  <2> SUFFICES ASSUME FewInv, NEW k \in Keys, NEW sort \in {"fill", "refresh"}
               PROVE  Cardinality({r \in Fetching(k, sort) : polls[r] < MaxPolls})
                        <= (LapseBudget - lapsesLeft) + (IF <<sort, k>> \in locks THEN 1 ELSE 0)
    BY DEF SingleFlight
  <2> DEFINE Early == {r \in Fetching(k, sort) : polls[r] < MaxPolls}
             l == <<sort, k>>
  <2>1. Early \subseteq Holders(l)
    <3> SUFFICES ASSUME NEW r \in Early PROVE held[r] = sort /\ Key(r) = k /\ r \in Readers
      BY DEF Holders
    <3>1. /\ r \in Readers /\ stage[r] \in {"served", "fill", "set"} /\ Key(r) = k
          /\ sort = "refresh" <=> held[r] = "refresh"
          /\ polls[r] < MaxPolls
      BY DEF Fetching
    <3>2. polls[r] # MaxPolls
      BY <3>1, CatalogCacheAssumption DEF TypeInv, ReaderType
    <3>3. held[r] \in {"fill", "refresh"}
      BY <3>1, <3>2 DEF TypeInv, ReaderType, WithoutLock
    <3> QED BY <3>1, <3>3
  <2>2. FlightOf(l)
    BY DEF FlightInv, LockNames
  <2> HIDE DEF Early, l
  <2>3. Cardinality(Early) <= Cardinality(Holders(l)) /\ IsFiniteSet(Early)
    BY <2>1, <2>2, FS_Subset DEF FlightOf
  <2>4. Cardinality(Holders(l)) \in Nat /\ Cardinality(Early) \in Nat
    BY <2>2, <2>3, FS_CardinalityType DEF FlightOf
  <2>5. lapsesLeft \in 0 .. LapseBudget /\ LapseBudget \in Nat
    BY CatalogCacheAssumption DEF TypeInv, BudgetType
  <2>6. Cardinality(Early) <= (LapseBudget - lapsesLeft) + (IF l \in locks THEN 1 ELSE 0)
    BY <2>2, <2>3, <2>4, <2>5 DEF FlightOf
  <2> QED BY <2>6 DEF Early, l
<1> QED
  BY <1>1, <1>2, <1>3, PTL DEF CacheSpec

=============================================================================
