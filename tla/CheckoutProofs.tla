--------------------------- MODULE CheckoutProofs ---------------------------
(***************************************************************************)
(* Proofs about Checkout for any number of requests, products, coupons,    *)
(* customers, keys and faults.  The inductive invariant is built in        *)
(* layers, each proved on top of the ones before it: types, keys, coupons, *)
(* products.                                                               *)
(***************************************************************************)
EXTENDS Checkout, FiniteSetTheorems, WellFoundedInduction, TLAPS

-----------------------------------------------------------------------------
(* Keys: who holds the advisory lock, and what has been written under it.   *)

UnderKey == Stages \ {"new", "validating", "keying", "done"}

Full == {"order", "event", "key"}

KeyLocks ==
  /\ \A r \in Requests : r \in keyed <=> pc[r] \in UnderKey
  /\ \A r, s \in keyed : SameKey(r, s) => r = s

\* The rows of a request grow with its stage; a commit keeps all or none.
Written ==
  /\ \A r \in committed : pc[r] = "done"
  /\ \A r \in Requests :
       /\ wrote[r] = {} \/ "order" \in wrote[r]
       /\ pc[r] = "redeeming" => wrote[r] = Full \ {"key"}
       /\ pc[r] \in {"clearing", "announcing"} => wrote[r] = Full
       /\ pc[r] = "committing" \/ r \in committed
            => \/ wrote[r] = {}
               \/ /\ Full \subseteq wrote[r]
                  /\ r \in announced \/ "retry" \in wrote[r]
       /\ wrote[r] # {} =>
            \/ pc[r] \in {"redeeming", "clearing", "announcing", "committing"}
            \/ r \in committed

\* A request on its way to a new order.
Placing(r) ==
  \/ pc[r] \in UnderKey \ {"looking", "committing"}
  \/ pc[r] = "committing" /\ wrote[r] # {}

FreshKey ==
  \A r \in Requests : Placing(r) => \A s \in Orders : ~ SameKey(r, s)

\* What a request is about to be answered with.
FoundRight ==
  \A r \in Requests :
    /\ pc[r] # "done" => outcome[r] = "none"
    /\ pc[r] = "committing" =>
         \/ wrote[r] # {} /\ found[r] = {r}
         \/ wrote[r] = {} /\ \E s \in Orders : found[r] = {s} /\ SameKey(r, s)

KeyInv ==
  /\ KeyLocks
  /\ Written
  /\ FreshKey
  /\ FoundRight
  /\ OneOrderPerKey
  /\ RepeatsNeverConflict

-----------------------------------------------------------------------------
(* Coupons: every redemption of a running request is under its row lock.    *)

CouponLocks ==
  \A r \in Requests :
    /\ \A s \in Requests \ {r} : coupons[r] \cap coupons[s] = {}
    /\ coupons[r] # {} =>
         pc[r] \in {"redeeming", "clearing", "announcing", "committing"}
    /\ r \notin committed => redeemed[r] \subseteq coupons[r]

\* Coupons are redeemed in the order of the codes, in the end all that were
\* allowed.
RedeemedSoFar ==
  \A r \in Requests :
    /\ wrote[r] = {} => redeemed[r] = {}
    /\ pc[r] = "redeeming" =>
         /\ 1 .. next[r] - 1 \subseteq CodesToTry(r, allowed[r])
         /\ redeemed[r] = {Codes[r][i] : i \in 1 .. next[r] - 1}
    /\ wrote[r] # {} /\ pc[r] # "redeeming" =>
         redeemed[r] = CouponsOf(r, allowed[r])

SpentBy(r, c) == {s \in Redemptions(r, c) : Customer[s] = Customer[r]}

LimitsKept ==
  \A r \in Requests : \A c \in redeemed[r] :
    /\ Cardinality(Redemptions(r, c)) <= TotalLimit[c]
    /\ Cardinality(SpentBy(r, c)) <= CustomerLimit[c]

CouponInv ==
  /\ CouponLocks
  /\ RedeemedSoFar
  /\ LimitsKept

-----------------------------------------------------------------------------
(* Products: locked in the order of their ids, and held while priced.       *)

Priced == {"checking", "ordering", "redeeming", "clearing", "announcing"}

BasketLocks ==
  \A r \in Requests :
    /\ products[r] \subseteq Basket[r]
    /\ pc[r] \in {"new", "validating", "keying", "looking"} => products[r] = {}
    /\ pc[r] \in Priced \cup {"pricing"} => products[r] = Basket[r]
    /\ \A p \in products[r], q \in Basket[r] \ products[r] : p < q

ProductInv ==
  /\ BasketLocks
  /\ PricesHeld

LEMMA TypeInit == ASSUME Init PROVE TypeOK
BY CheckoutAssumption DEF Init, TypeOK, Stages, Customers

LEMMA RollBackType ==
  ASSUME TypeOK, NEW r \in Requests, NEW how \in {"refused", "conflict", "error"},
         RollBack(r, how), faultsLeft' \in 0 .. FaultBudget
  PROVE  TypeOK'
BY DEF TypeOK, Stages, RollBack, Release, Answer, shop

LEMMA StrikesType == ASSUME TypeOK, Strikes PROVE faultsLeft' \in 0 .. FaultBudget
BY CheckoutAssumption DEF TypeOK, Strikes

LEMMA CodeIsCoupon ==
  ASSUME TypeOK, NEW r \in Requests, MoreCodes(r) PROVE Code(r) \in Coupons
<1>1. next[r] \in 1 .. Len(Codes[r]) /\ Codes[r] \in Seq(Coupons)
  BY CheckoutAssumption DEF TypeOK, MoreCodes, CodesToTry
<1> QED BY <1>1 DEF Code

LEMMA TypeKept == ASSUME TypeOK, [Next]_vars PROVE TypeOK'
<1> USE CheckoutAssumption
<1>1. ASSUME NEW r \in Requests,
             Begin(r) \/ RequestStep(r) \/ Fail(r) \/ CommitAnswerLost(r)
               \/ CancelOrder(r)
      PROVE  TypeOK'
  <2>1. CASE Begin(r)
    BY <2>1 DEF TypeOK, Stages, Begin, GoTo, locks, rows, shop
  <2>2. CASE Validate(r)
    BY <2>2 DEF TypeOK, Stages, Validate, GoTo, locks, rows, shop
  <2>3. CASE LockKey(r)
    BY <2>3 DEF TypeOK, Stages, LockKey, GoTo, rows, shop
  <2>4. CASE Replay(r)
    BY <2>4 DEF TypeOK, Stages, Replay, GoTo, Existing, locks, rows, shop
  <2>5. CASE NoReplay(r)
    BY <2>5 DEF TypeOK, Stages, NoReplay, GoTo, locks, rows, shop
  <2>6. CASE LockProduct(r)
    BY <2>6 DEF TypeOK, Stages, LockProduct, NextProduct, rows, shop
  <2>7. CASE ProductsLocked(r)
    BY <2>7 DEF TypeOK, Stages, ProductsLocked, GoTo, locks, rows, shop
  <2>8. CASE Price(r)
    BY <2>8 DEF TypeOK, Stages, Price, GoTo, HasOrder, locks, rows, shop
  <2>9. CASE CheckCoupon(r)
    BY <2>9 DEF TypeOK, Stages, CheckCoupon, locks, rows, shop
  <2>10. CASE CouponsChecked(r)
    BY <2>10 DEF TypeOK, Stages, CouponsChecked, GoTo, locks, rows, shop
  <2>11. CASE InsertOrder(r)
    BY <2>11 DEF TypeOK, Stages, InsertOrder, GoTo, locks, shop
  <2>12. CASE LockCoupon(r)
    BY <2>12, CodeIsCoupon DEF TypeOK, Stages, LockCoupon, rows, shop
  <2>13. CASE Redeem(r)
    BY <2>13, CodeIsCoupon, SMTT(20) DEF TypeOK, Stages, Redeem, AtCoupon, locks,
       shop
  <2>14. CASE CouponExhausted(r)
    BY <2>14, RollBackType DEF TypeOK, CouponExhausted
  <2>15. CASE RecordKey(r)
    <3>1. CASE RivalKeys(r) = {}
      <4>1. /\ wrote' = [wrote EXCEPT ![r] = @ \cup {"key"}]
            /\ pc' = [pc EXCEPT ![r] = "clearing"]
            /\ UNCHANGED <<locks, next, ordersSeen, allowed, quoted, redeemed, committed,
                           shop, cart, announced, found, outcome, faultsLeft>>
        BY <2>15, <3>1 DEF RecordKey, GoTo
      <4> QED BY <4>1 DEF TypeOK, Stages, locks, shop
    <3>2. CASE RivalKeys(r) # {}
      BY <2>15, <3>2, RollBackType DEF TypeOK, RecordKey
    <3> QED BY <3>1, <3>2
  <2>16. CASE ClearCart(r)
    BY <2>16 DEF TypeOK, Stages, ClearCart, GoTo, Customers, locks, rows,
       shop
  <2>17. CASE Announce(r)
    BY <2>17 DEF TypeOK, Stages, Announce, GoTo, locks, rows, shop
  <2>18. CASE AnnounceThrows(r)
    BY <2>18 DEF TypeOK, Stages, AnnounceThrows, GoTo, locks, shop
  <2>19. CASE Commit(r)
    BY <2>19 DEF TypeOK, Stages, Commit, CommitRows, Release, Answer, shop
  <2>20. CASE Refuse(r)
    BY <2>20, RollBackType DEF TypeOK, Refuse
  <2>21. CASE DeadlockAbort(r)
    BY <2>21, RollBackType DEF TypeOK, DeadlockAbort
  <2>22. CASE Fail(r)
    BY <2>22, RollBackType, StrikesType DEF Fail
  <2>23. CASE CommitAnswerLost(r)
    BY <2>23 DEF TypeOK, Stages, CommitAnswerLost, CommitRows, Release,
       Answer, Strikes, shop
  <2>24. CASE CancelOrder(r)
    BY <2>24 DEF TypeOK, Stages, CancelOrder, Orders, locks, rows
  <2> QED BY <1>1, <2>1, <2>2, <2>3, <2>4, <2>5, <2>6, <2>7, <2>8, <2>9, <2>10,
     <2>11, <2>12, <2>13, <2>14, <2>15, <2>16, <2>17, <2>18, <2>19, <2>20,
     <2>21, <2>22, <2>23, <2>24 DEF RequestStep
<1>2. ASSUME NEW p \in Products, ChangePrice(p) PROVE TypeOK'
  BY <1>2 DEF TypeOK, ChangePrice, locks, rows
<1>3. CASE UNCHANGED vars
  BY <1>3 DEF TypeOK, vars
<1> QED BY <1>1, <1>2, <1>3 DEF Next

LEMMA KeyInit == ASSUME Init PROVE KeyInv
BY CheckoutAssumption
DEF Init, KeyInv, KeyLocks, Written, FreshKey, Placing, FoundRight,
    OneOrderPerKey, RepeatsNeverConflict, Orders, UnderKey, Stages, Full

\* The INSERT of the key finds no rival, so it neither waits nor fails.
LEMMA NoRivals ==
  ASSUME TypeOK, KeyInv, NEW r \in Requests, RecordKey(r)
  PROVE  /\ pc[r] = "redeeming" /\ ~ MoreCodes(r)
         /\ wrote' = [wrote EXCEPT ![r] = @ \cup {"key"}]
         /\ pc' = [pc EXCEPT ![r] = "clearing"]
         /\ UNCHANGED <<locks, next, ordersSeen, allowed, quoted, redeemed, committed,
                        shop, cart, announced, found, outcome, faultsLeft>>
<1>1. Placing(r)
  BY DEF RecordKey, Placing, UnderKey, Stages
<1>2. \A s \in RivalKeys(r) : s \in Orders /\ SameKey(r, s)
  BY DEF RecordKey, RivalKeys, HasKeyRow, KeyInv, Written, Orders
<1>3. RivalKeys(r) = {}
  BY <1>1, <1>2 DEF KeyInv, FreshKey
<1> QED BY <1>3 DEF RecordKey, GoTo

\* The steps that write no row and answer nobody.
Quiet(r) ==
  /\ UNCHANGED <<keyed, wrote, committed, announced, found, outcome>>
  /\ \/ pc' = pc
     \/ \E move \in {<<"new", "validating">>, <<"validating", "keying">>,
                     <<"locking", "pricing">>, <<"pricing", "checking">>,
                     <<"checking", "ordering">>, <<"clearing", "announcing">>} :
          pc[r] = move[1] /\ pc' = [pc EXCEPT ![r] = move[2]]

LEMMA QuietKeepsKeys ==
  ASSUME TypeOK, KeyInv, NEW r \in Requests, Quiet(r) PROVE KeyInv'
<1>1. KeyLocks'
  BY DEF TypeOK, KeyInv, KeyLocks, UnderKey, Stages, Quiet
<1>2. Written'
  <2>1. ASSUME NEW s \in Requests
        PROVE  \/ pc'[s] = pc[s]
               \/ pc[s] \in {"new", "validating", "locking", "pricing", "checking"}
                    /\ pc'[s] \in Stages \ {"redeeming", "clearing", "announcing",
                                            "committing", "done"}
               \/ pc[s] = "clearing" /\ pc'[s] = "announcing"
    BY DEF TypeOK, Stages, Quiet
  <2>2. UNCHANGED <<wrote, committed, announced>> /\ committed \subseteq Requests
    BY DEF TypeOK, Quiet
  <2>3. \A s \in committed : pc'[s] = "done"
    BY <2>1, <2>2 DEF KeyInv, Written
  <2> QED BY <2>1, <2>2, <2>3 DEF KeyInv, Written, Full
<1>3. FreshKey'
  <2>1. Orders' = Orders
    BY DEF TypeOK, KeyInv, Written, Orders, Quiet
  <2>2. \A s \in Requests : Placing(s)' => Placing(s)
    BY DEF TypeOK, KeyInv, Written, Placing, UnderKey, Stages, Quiet
  <2> QED BY <2>1, <2>2 DEF KeyInv, FreshKey, SameKey
<1>4. FoundRight'
  BY DEF TypeOK, KeyInv, FoundRight, Orders, SameKey, Written, Quiet
<1>5. OneOrderPerKey'
  BY DEF TypeOK, KeyInv, OneOrderPerKey, Orders, Written, Quiet
<1>6. RepeatsNeverConflict'
  BY DEF TypeOK, KeyInv, RepeatsNeverConflict, Quiet
<1> QED BY <1>1, <1>2, <1>3, <1>4, <1>5, <1>6 DEF KeyInv

LEMMA RollBackKeepsKeys ==
  ASSUME TypeOK, KeyInv, NEW r \in Requests, NEW how \in {"refused", "error"},
         Running(r), RollBack(r, how)
  PROVE  KeyInv'
<1>1. KeyLocks'
  BY DEF TypeOK, KeyInv, KeyLocks, UnderKey, Stages, Running, RollBack,
     Release, Answer
<1>2. Written'
  BY DEF TypeOK, KeyInv, Written, Full, Running, RollBack, Release, Answer
<1>3. FreshKey'
  BY DEF TypeOK, KeyInv, FreshKey, Placing, UnderKey, Stages, Orders,
     SameKey, Written, Running, RollBack, Release, Answer
<1>4. FoundRight'
  <2>1. Orders' = Orders
    BY DEF TypeOK, KeyInv, Written, Orders, Running, RollBack, Release,
       Answer
  <2>2. \A s \in Requests \ {r} :
          /\ pc'[s] = pc[s] /\ wrote'[s] = wrote[s]
          /\ found'[s] = found[s] /\ outcome'[s] = outcome[s]
    BY DEF TypeOK, Running, RollBack, Release, Answer
  <2>3. /\ pc'[r] # "done" => outcome'[r] = "none"
        /\ pc'[r] = "committing" =>
             \/ wrote'[r] # {} /\ found'[r] = {r}
             \/ wrote'[r] = {} /\ \E s \in Orders : found'[r] = {s} /\ SameKey(r, s)
    BY DEF TypeOK, KeyInv, Written, FoundRight, Running, RollBack, Release,
       Answer
  <2> QED BY <2>1, <2>2, <2>3 DEF KeyInv, FoundRight, SameKey
<1>5. OneOrderPerKey'
  BY DEF TypeOK, KeyInv, OneOrderPerKey, Orders, Written, Running, RollBack,
     Release, Answer
<1>6. RepeatsNeverConflict'
  BY DEF TypeOK, KeyInv, RepeatsNeverConflict, Running, RollBack, Release,
     Answer
<1> QED BY <1>1, <1>2, <1>3, <1>4, <1>5, <1>6 DEF KeyInv

LEMMA CommitKeepsKeys ==
  ASSUME TypeOK, KeyInv, NEW r \in Requests, NEW how \in {"ok", "error"},
         CommitRows(r), Answer(r, how)
  PROVE  KeyInv'
<1>1. KeyLocks'
  BY DEF TypeOK, KeyInv, KeyLocks, UnderKey, Stages, CommitRows, Release,
     Answer
<1>2. Written'
  BY DEF TypeOK, KeyInv, Written, Full, CommitRows, Release, Answer
<1>3. FreshKey'
  <2>1. /\ Orders' \subseteq Orders \cup {r}
        /\ \A s \in Requests : Placing(s)' => Placing(s) /\ s # r
    BY DEF TypeOK, Orders, Placing, UnderKey, Stages, CommitRows, Answer
  <2>2. \A s \in Requests : Placing(s) => s \in keyed
    BY DEF KeyInv, KeyLocks, Placing, UnderKey, Stages
  <2>3. r \in keyed
    BY DEF KeyInv, KeyLocks, UnderKey, Stages, CommitRows
  <2> QED BY <2>1, <2>2, <2>3 DEF KeyInv, KeyLocks, FreshKey, SameKey
<1>4. FoundRight'
  <2>1. Orders \subseteq Orders' /\ pc'[r] = "done"
    BY DEF TypeOK, Orders, CommitRows, Answer
  <2>2. \A s \in Requests \ {r} :
          /\ pc'[s] = pc[s] /\ wrote'[s] = wrote[s]
          /\ found'[s] = found[s] /\ outcome'[s] = outcome[s]
    BY DEF TypeOK, CommitRows, Answer
  <2> QED BY <2>1, <2>2 DEF KeyInv, FoundRight, SameKey
<1>5. OneOrderPerKey'
  BY DEF TypeOK, KeyInv, OneOrderPerKey, Orders, Written, FreshKey, Placing,
     Full, SameKey, CommitRows, Release, Answer
<1>6. RepeatsNeverConflict'
  BY DEF TypeOK, KeyInv, RepeatsNeverConflict, CommitRows, Release, Answer
<1> QED BY <1>1, <1>2, <1>3, <1>4, <1>5, <1>6 DEF KeyInv

LEMMA WaitersRun == ASSUME NEW r, Deadlocked(r) PROVE Running(r)
BY DEF Deadlocked, WaitsFor, WaitsForKey, WaitsForProduct, WaitsForCoupon,
   Running

LEMMA KeysKept == ASSUME TypeOK, KeyInv, [Next]_vars PROVE KeyInv'
<1>1. ASSUME NEW r \in Requests,
             Begin(r) \/ RequestStep(r) \/ Fail(r) \/ CommitAnswerLost(r)
               \/ CancelOrder(r)
      PROVE  KeyInv'
  <2>1. CASE \/ Begin(r) \/ Validate(r) \/ LockProduct(r) \/ ProductsLocked(r)
             \/ Price(r) \/ CheckCoupon(r) \/ CouponsChecked(r) \/ LockCoupon(r)
             \/ Redeem(r) \/ ClearCart(r) \/ CancelOrder(r)
    <3>1. Quiet(r)
      BY <2>1 DEF Begin, Validate, LockProduct, ProductsLocked, Price,
         CheckCoupon,
                  CouponsChecked, LockCoupon, Redeem, ClearCart, CancelOrder, GoTo,
                  locks, rows, Quiet
    <3> QED BY <3>1, QuietKeepsKeys
  <2>2. CASE CouponExhausted(r) \/ Refuse(r) \/ DeadlockAbort(r) \/ Fail(r)
    <3>1. Running(r) /\ (RollBack(r, "refused") \/ RollBack(r, "error"))
      BY <2>2, WaitersRun DEF CouponExhausted, AtCoupon, Refuse, DeadlockAbort,
         Fail, Running
    <3> QED BY <3>1, RollBackKeepsKeys
  <2>3. CASE Commit(r) \/ CommitAnswerLost(r)
    BY <2>3, CommitKeepsKeys DEF Commit, CommitAnswerLost
  <2>4. CASE LockKey(r)
    <3>1. KeyLocks'
      BY <2>4, SMTT(20) DEF TypeOK, KeyInv, KeyLocks, UnderKey, Stages, SameKey,
         LockKey, GoTo, rows
    <3>2. Written'
      BY <2>4 DEF TypeOK, KeyInv, Written, Full, LockKey, GoTo, rows
    <3>3. FreshKey'
      BY <2>4 DEF TypeOK, KeyInv, FreshKey, Placing, UnderKey, Stages,
         Orders, SameKey, Written, LockKey, GoTo, rows
    <3>4. FoundRight'
      BY <2>4 DEF TypeOK, KeyInv, FoundRight, Orders, SameKey, Written,
         LockKey, GoTo, rows
    <3>5. OneOrderPerKey'
      BY <2>4 DEF TypeOK, KeyInv, OneOrderPerKey, Orders, Written, LockKey,
         GoTo, rows
    <3>6. RepeatsNeverConflict'
      BY <2>4 DEF TypeOK, KeyInv, RepeatsNeverConflict, LockKey, GoTo, rows
    <3> QED BY <3>1, <3>2, <3>3, <3>4, <3>5, <3>6 DEF KeyInv
  <2>5. CASE Replay(r)
    <3>1. KeyLocks'
      BY <2>5 DEF TypeOK, KeyInv, KeyLocks, UnderKey, Stages, Replay, GoTo,
         locks, rows
    <3>2. Written'
      BY <2>5 DEF TypeOK, KeyInv, Written, Full, Replay, GoTo, locks, rows
    <3>3. FreshKey'
      BY <2>5 DEF TypeOK, KeyInv, FreshKey, Placing, UnderKey, Stages,
         Orders, SameKey, Written, Replay, GoTo, locks, rows
    <3>4. FoundRight'
      <4>1. Orders' = Orders
        BY <2>5 DEF TypeOK, KeyInv, Written, Orders, Replay, GoTo, locks,
           rows
      <4>2. \A s \in Requests \ {r} :
              /\ pc'[s] = pc[s] /\ wrote'[s] = wrote[s]
              /\ found'[s] = found[s] /\ outcome'[s] = outcome[s]
        BY <2>5 DEF TypeOK, Replay, GoTo, locks, rows
      <4>3. /\ pc'[r] # "done" => outcome'[r] = "none"
            /\ pc'[r] = "committing" =>
                 \/ wrote'[r] # {} /\ found'[r] = {r}
                 \/ /\ wrote'[r] = {}
                    /\ \E s \in Orders : found'[r] = {s} /\ SameKey(r, s)
        <5>1. PICK s \in Existing(r) : found' = [found EXCEPT ![r] = {s}]
          BY <2>5 DEF Replay
        <5>2. s \in Orders /\ SameKey(r, s)
          BY DEF TypeOK, KeyInv, Written, Existing, Orders
        <5>3. wrote'[r] = {} /\ pc'[r] = "committing" /\ outcome'[r] = "none"
          BY <2>5 DEF TypeOK, KeyInv, Written, FoundRight, Replay, GoTo, rows
        <5> QED BY <5>1, <5>2, <5>3 DEF TypeOK
      <4> QED BY <4>1, <4>2, <4>3 DEF KeyInv, FoundRight, SameKey
    <3>5. OneOrderPerKey'
      BY <2>5 DEF TypeOK, KeyInv, OneOrderPerKey, Orders, Written, Replay,
         GoTo, locks, rows
    <3>6. RepeatsNeverConflict'
      BY <2>5 DEF TypeOK, KeyInv, RepeatsNeverConflict, Replay, GoTo, locks,
         rows
    <3> QED BY <3>1, <3>2, <3>3, <3>4, <3>5, <3>6 DEF KeyInv
  <2>6. CASE NoReplay(r)
    <3>1. KeyLocks'
      BY <2>6 DEF TypeOK, KeyInv, KeyLocks, UnderKey, Stages, NoReplay,
         GoTo, locks, rows
    <3>2. Written'
      BY <2>6 DEF TypeOK, KeyInv, Written, Full, NoReplay, GoTo, locks, rows
    <3>3. FreshKey'
      <4>1. Orders' = Orders
        BY <2>6 DEF NoReplay, Orders, rows
      <4>2. \A s \in Requests : Placing(s)' => Placing(s) \/ s = r
        BY <2>6 DEF TypeOK, NoReplay, GoTo, rows, Placing, UnderKey, Stages
      <4>3. \A s \in Orders : s \in committed /\ "key" \in wrote[s]
        BY DEF TypeOK, KeyInv, Written, Orders, Full
      <4>4. \A s \in Orders : ~ SameKey(r, s)
        BY <2>6, <4>3 DEF NoReplay, Existing
      <4> QED BY <4>1, <4>2, <4>4 DEF KeyInv, FreshKey, SameKey
    <3>4. FoundRight'
      BY <2>6 DEF TypeOK, KeyInv, FoundRight, Orders, SameKey, Written,
         NoReplay, GoTo, locks, rows
    <3>5. OneOrderPerKey'
      BY <2>6 DEF TypeOK, KeyInv, OneOrderPerKey, Orders, Written, NoReplay,
         GoTo, locks, rows
    <3>6. RepeatsNeverConflict'
      BY <2>6 DEF TypeOK, KeyInv, RepeatsNeverConflict, NoReplay, GoTo,
         locks, rows
    <3> QED BY <3>1, <3>2, <3>3, <3>4, <3>5, <3>6 DEF KeyInv
  <2>7. CASE InsertOrder(r)
    <3>1. KeyLocks'
      BY <2>7 DEF TypeOK, KeyInv, KeyLocks, UnderKey, Stages, InsertOrder,
         GoTo, locks
    <3>2. Written'
      BY <2>7 DEF TypeOK, KeyInv, Written, Full, InsertOrder, GoTo, locks
    <3>3. FreshKey'
      BY <2>7, SMTT(30) DEF TypeOK, KeyInv, FreshKey, Placing, UnderKey, Stages,
         Orders, SameKey, Written, InsertOrder, GoTo, locks
    <3>4. FoundRight'
      BY <2>7 DEF TypeOK, KeyInv, FoundRight, Orders, SameKey, Written,
         InsertOrder, GoTo, locks
    <3>5. OneOrderPerKey'
      BY <2>7 DEF TypeOK, KeyInv, OneOrderPerKey, Orders, Written,
         InsertOrder, GoTo, locks
    <3>6. RepeatsNeverConflict'
      BY <2>7 DEF TypeOK, KeyInv, RepeatsNeverConflict, InsertOrder, GoTo,
         locks
    <3> QED BY <3>1, <3>2, <3>3, <3>4, <3>5, <3>6 DEF KeyInv
  <2>8. CASE RecordKey(r)
    <3>0. Orders' = Orders
      <4>1. r \notin committed
        BY <2>8, NoRivals DEF KeyInv, Written
      <4>2. \A s \in committed : wrote'[s] = wrote[s]
        BY <2>8, <4>1, NoRivals DEF TypeOK
      <4> QED BY <2>8, <4>2, NoRivals DEF Orders
    <3>1. KeyLocks'
      BY <2>8, NoRivals DEF TypeOK, KeyInv, KeyLocks, UnderKey, Stages,
         locks
    <3>2. Written'
      <4>1. /\ wrote[r] = Full \ {"key"} /\ r \notin committed
            /\ UNCHANGED <<committed, announced>>
        BY <2>8, NoRivals DEF KeyInv, Written
      <4>2. wrote'[r] = wrote[r] \cup {"key"} /\ pc'[r] = "clearing"
        BY <2>8, NoRivals DEF TypeOK
      <4>3. \A s \in Requests \ {r} : wrote'[s] = wrote[s] /\ pc'[s] = pc[s]
        BY <2>8, NoRivals DEF TypeOK
      <4>4. \A s \in committed : s # r /\ s \in Requests
        BY <4>1 DEF TypeOK
      <4> QED BY <4>1, <4>2, <4>3, <4>4 DEF KeyInv, Written, Full
    <3>3. FreshKey'
      <4>2. \A s \in Requests : Placing(s)' => Placing(s)
        BY <2>8, NoRivals DEF TypeOK, KeyInv, Written, Placing, UnderKey,
           Stages, locks
      <4> QED BY <3>0, <4>2 DEF KeyInv, FreshKey, SameKey
    <3>4. FoundRight'
      <4>2. \A s \in Requests \ {r} :
              /\ pc'[s] = pc[s] /\ wrote'[s] = wrote[s]
              /\ found'[s] = found[s] /\ outcome'[s] = outcome[s]
        BY <2>8, NoRivals DEF TypeOK, locks
      <4>3. /\ pc'[r] # "done" => outcome'[r] = "none"
            /\ pc'[r] = "committing" =>
                 \/ wrote'[r] # {} /\ found'[r] = {r}
                 \/ /\ wrote'[r] = {}
                    /\ \E s \in Orders : found'[r] = {s} /\ SameKey(r, s)
        BY <2>8, NoRivals, SMTT(20) DEF TypeOK, KeyInv, Written, FoundRight, locks
      <4> QED BY <3>0, <4>2, <4>3 DEF KeyInv, FoundRight, SameKey
    <3>5. OneOrderPerKey'
      BY <3>0 DEF KeyInv, OneOrderPerKey, SameKey
    <3>6. RepeatsNeverConflict'
      BY <2>8, NoRivals DEF TypeOK, KeyInv, RepeatsNeverConflict, locks
    <3> QED BY <3>1, <3>2, <3>3, <3>4, <3>5, <3>6 DEF KeyInv
  <2>9. CASE Announce(r)
    <3>0. Orders' = Orders
      BY <2>9 DEF TypeOK, KeyInv, Written, Orders, Announce, GoTo, locks,
         rows
    <3>1. KeyLocks'
      BY <2>9 DEF TypeOK, KeyInv, KeyLocks, UnderKey, Stages, Announce,
         GoTo, locks, rows
    <3>2. Written'
      BY <2>9 DEF TypeOK, KeyInv, Written, Full, Announce, GoTo, locks, rows
    <3>3. FreshKey'
      BY <2>9 DEF TypeOK, KeyInv, FreshKey, Placing, UnderKey, Stages,
         Orders, SameKey, Written, Announce, GoTo, locks, rows
    <3>4. FoundRight'
      <4>2. \A s \in Requests \ {r} :
              /\ pc'[s] = pc[s] /\ wrote'[s] = wrote[s]
              /\ found'[s] = found[s] /\ outcome'[s] = outcome[s]
        BY <2>9 DEF TypeOK, Announce, GoTo, locks, rows
      <4>3. /\ pc'[r] # "done" => outcome'[r] = "none"
            /\ pc'[r] = "committing" =>
                 \/ wrote'[r] # {} /\ found'[r] = {r}
                 \/ /\ wrote'[r] = {}
                    /\ \E s \in Orders : found'[r] = {s} /\ SameKey(r, s)
        <5>1. wrote'[r] # {}
          BY <2>9 DEF KeyInv, Written, Full, Announce, rows
        <5> QED BY <2>9, <5>1 DEF TypeOK, KeyInv, FoundRight, Announce, GoTo
      <4> QED BY <3>0, <4>2, <4>3 DEF KeyInv, FoundRight, SameKey
    <3>5. OneOrderPerKey'
      BY <3>0 DEF KeyInv, OneOrderPerKey, SameKey
    <3>6. RepeatsNeverConflict'
      BY <2>9 DEF TypeOK, KeyInv, RepeatsNeverConflict, Announce, GoTo,
         locks, rows
    <3> QED BY <3>1, <3>2, <3>3, <3>4, <3>5, <3>6 DEF KeyInv
  <2>10. CASE AnnounceThrows(r)
    <3>0. Orders' = Orders
      BY <2>10 DEF TypeOK, KeyInv, Written, Orders, AnnounceThrows, GoTo,
         locks
    <3>1. KeyLocks'
      BY <2>10 DEF TypeOK, KeyInv, KeyLocks, UnderKey, Stages,
         AnnounceThrows, GoTo, locks
    <3>2. Written'
      BY <2>10 DEF TypeOK, KeyInv, Written, Full, AnnounceThrows, GoTo,
         locks
    <3>3. FreshKey'
      BY <2>10 DEF TypeOK, KeyInv, FreshKey, Placing, UnderKey, Stages,
         Orders, SameKey, Written, AnnounceThrows, GoTo, locks
    <3>4. FoundRight'
      <4>2. \A s \in Requests \ {r} :
              /\ pc'[s] = pc[s] /\ wrote'[s] = wrote[s]
              /\ found'[s] = found[s] /\ outcome'[s] = outcome[s]
        BY <2>10 DEF TypeOK, AnnounceThrows, GoTo, locks
      <4>3. /\ pc'[r] # "done" => outcome'[r] = "none"
            /\ pc'[r] = "committing" =>
                 \/ wrote'[r] # {} /\ found'[r] = {r}
                 \/ /\ wrote'[r] = {}
                    /\ \E s \in Orders : found'[r] = {s} /\ SameKey(r, s)
        BY <2>10 DEF TypeOK, KeyInv, Written, FoundRight, AnnounceThrows,
           GoTo, locks
      <4> QED BY <3>0, <4>2, <4>3 DEF KeyInv, FoundRight, SameKey
    <3>5. OneOrderPerKey'
      BY <3>0 DEF KeyInv, OneOrderPerKey, SameKey
    <3>6. RepeatsNeverConflict'
      BY <2>10 DEF TypeOK, KeyInv, RepeatsNeverConflict, AnnounceThrows,
         GoTo, locks
    <3> QED BY <3>1, <3>2, <3>3, <3>4, <3>5, <3>6 DEF KeyInv
  <2> QED BY <1>1, <2>1, <2>2, <2>3, <2>4, <2>5, <2>6, <2>7, <2>8, <2>9, <2>10
     DEF RequestStep
<1>2. ASSUME NEW p \in Products, ChangePrice(p) PROVE KeyInv'
  BY <1>2 DEF ChangePrice, locks, rows, KeyInv, KeyLocks, Written, FreshKey,
     Placing, FoundRight, Orders, OneOrderPerKey, RepeatsNeverConflict
<1>3. CASE UNCHANGED vars
  BY <1>3 DEF vars, KeyInv, KeyLocks, Written, FreshKey, Placing, FoundRight,
     Orders, OneOrderPerKey, RepeatsNeverConflict
<1> QED BY <1>1, <1>2, <1>3 DEF Next

LEMMA CouponInit == ASSUME Init PROVE CouponInv
BY DEF Init, CouponInv, CouponLocks, RedeemedSoFar, LimitsKept

\* The stages in which a request may hold coupons.
Spending == {"redeeming", "clearing", "announcing", "committing"}

LEMMA RedemptionsFinite ==
  ASSUME TypeOK, NEW r \in Requests, NEW c
  PROVE  /\ IsFiniteSet(Redemptions(r, c)) /\ IsFiniteSet(SpentBy(r, c))
         /\ Cardinality(Redemptions(r, c)) \in Nat
         /\ Cardinality(SpentBy(r, c)) \in Nat
<1>1. Redemptions(r, c) \subseteq Requests /\ SpentBy(r, c) \subseteq Requests
  BY DEF TypeOK, Redemptions, SpentBy
<1> QED BY <1>1, CheckoutAssumption, FS_Subset, FS_CardinalityType

\* The steps that leave coupons and redemptions alone.
SpendsNothing ==
  /\ UNCHANGED <<coupons, redeemed, wrote, committed>>
  /\ \A s \in Requests :
       /\ pc[s] \in Spending => pc'[s] \in Spending
       /\ pc'[s] = "redeeming" => pc[s] = "redeeming" /\ next'[s] = next[s]
       /\ pc[s] = "redeeming" => pc'[s] = "redeeming"
       /\ pc[s] # "pricing" => allowed'[s] = allowed[s]

LEMMA SpendsNothingKeepsCoupons ==
  ASSUME TypeOK, KeyInv, CouponInv, SpendsNothing PROVE CouponInv'
<1>1. CouponLocks'
  BY DEF TypeOK, CouponInv, CouponLocks, SpendsNothing, Spending
<1>2. RedeemedSoFar'
  <2>1. \A s \in Requests : wrote[s] # {} => pc[s] # "pricing"
    BY DEF KeyInv, Written
  <2> QED BY <2>1 DEF TypeOK, CouponInv, RedeemedSoFar, SpendsNothing
<1>3. LimitsKept'
  BY DEF CouponInv, LimitsKept, SpendsNothing, Redemptions, SpentBy
<1> QED BY <1>1, <1>2, <1>3 DEF CouponInv

LEMMA RollBackKeepsCoupons ==
  ASSUME TypeOK, KeyInv, CouponInv, NEW r \in Requests,
         NEW how \in {"refused", "error"}, Running(r), RollBack(r, how)
  PROVE  CouponInv'
<1>1. r \notin committed
  BY DEF KeyInv, Written, Running
<1>2. CouponLocks'
  BY <1>1 DEF TypeOK, CouponInv, CouponLocks, RollBack, Release, Answer
<1>3. RedeemedSoFar'
  BY DEF TypeOK, CouponInv, RedeemedSoFar, RollBack, Answer
<1>4. LimitsKept'
  <2> SUFFICES ASSUME NEW s \in Requests, NEW c \in redeemed'[s]
               PROVE  /\ Redemptions(s, c)' = Redemptions(s, c)
                      /\ SpentBy(s, c)' = SpentBy(s, c) /\ c \in redeemed[s]
    BY DEF CouponInv, LimitsKept
  <2>1. s # r
    BY DEF TypeOK, RollBack
  <2>2. Redemptions(s, c)' = Redemptions(s, c)
    BY <1>1, <2>1 DEF TypeOK, RollBack, Redemptions
  <2> QED BY <2>1, <2>2 DEF TypeOK, RollBack, SpentBy
<1> QED BY <1>2, <1>3, <1>4 DEF CouponInv

\* Two requests that redeem a coupon do it one after the other's commit, so
\* the second counts the first.
LEMMA CommitKeepsCoupons ==
  ASSUME TypeOK, KeyInv, CouponInv, NEW r \in Requests,
         NEW how \in {"ok", "error"}, CommitRows(r), Answer(r, how)
  PROVE  CouponInv'
<1>1. CouponLocks'
  BY DEF TypeOK, CouponInv, CouponLocks, CommitRows, Release, Answer
<1>2. RedeemedSoFar'
  BY DEF TypeOK, CouponInv, RedeemedSoFar, CommitRows, Answer
<1>3. LimitsKept'
  <2> SUFFICES ASSUME NEW s \in Requests, NEW c \in redeemed[s]
               PROVE  /\ Cardinality(Redemptions(s, c)') <= TotalLimit[c]
                      /\ Cardinality(SpentBy(s, c)') <= CustomerLimit[c]
    BY DEF LimitsKept, CommitRows
  <2>1. CASE c \notin redeemed[r]
    <3>1. Redemptions(s, c)' = Redemptions(s, c)
      BY <2>1 DEF CommitRows, Redemptions
    <3> QED BY <3>1 DEF CouponInv, LimitsKept, SpentBy
  <2>2. CASE c \in redeemed[r] /\ s \notin committed \cup {r}
    <3>1. r \notin committed
      BY DEF KeyInv, Written, CommitRows
    <3> QED BY <2>2, <3>1 DEF CouponInv, CouponLocks
  <2>3. CASE c \in redeemed[r] /\ s \in committed \cup {r}
    <3>1. Redemptions(s, c)' = Redemptions(r, c)
      BY <2>3 DEF CommitRows, Redemptions
    <3>2. CASE Customer[s] = Customer[r]
      BY <2>3, <3>1, <3>2 DEF CouponInv, LimitsKept, SpentBy
    <3>3. CASE Customer[s] # Customer[r]
      <4>1. SpentBy(s, c)' = SpentBy(s, c)
        BY <2>3, <3>1, <3>3 DEF SpentBy, Redemptions
      <4> QED BY <2>3, <3>1, <4>1 DEF CouponInv, LimitsKept
    <3> QED BY <3>2, <3>3
  <2> QED BY <2>1, <2>2, <2>3
<1> QED BY <1>1, <1>2, <1>3 DEF CouponInv

LEMMA RedeemKeepsCoupons ==
  ASSUME TypeOK, KeyInv, CouponInv, NEW r \in Requests, Redeem(r)
  PROVE  CouponInv'
<1>1. /\ pc[r] = "redeeming" /\ r \notin committed
      /\ next[r] \in CodesToTry(r, allowed[r])
      /\ Code(r) \in coupons[r] /\ Code(r) \in Coupons
  BY CheckoutAssumption
     DEF TypeOK, KeyInv, Written, Redeem, AtCoupon, MoreCodes, CodesToTry, Code
<1>2. PICK c \in Coupons : c = Code(r)
  BY <1>1
<1>3. /\ UNCHANGED <<pc, coupons, wrote, committed, allowed>>
      /\ \A s \in Requests :
           redeemed'[s] = IF s = r THEN redeemed[r] \cup {c} ELSE redeemed[s]
  BY <1>2 DEF TypeOK, Redeem, locks
<1>4. CouponLocks'
  BY <1>1, <1>2, <1>3 DEF CouponInv, CouponLocks
<1>5. RedeemedSoFar'
  <2>1. \A s \in Requests : next'[s] = IF s = r THEN next[r] + 1 ELSE next[s]
    BY DEF TypeOK, Redeem
  <2>2. next[r] \in Nat \ {0}
    BY DEF TypeOK
  <2>3. /\ redeemed'[r] = {Codes[r][i] : i \in 1 .. next'[r] - 1}
        /\ 1 .. next'[r] - 1 \subseteq CodesToTry(r, allowed[r])
    <3>1. /\ redeemed[r] = {Codes[r][i] : i \in 1 .. next[r] - 1}
          /\ 1 .. next[r] - 1 \subseteq CodesToTry(r, allowed[r])
      BY <1>1 DEF CouponInv, RedeemedSoFar
    <3>2. 1 .. next'[r] - 1 = (1 .. next[r] - 1) \cup {next[r]}
      BY <2>1, <2>2
    <3> QED BY <1>1, <1>2, <1>3, <3>1, <3>2 DEF Code
  <2>4. wrote[r] # {}
    BY <1>1 DEF KeyInv, Written, Full
  <2>6. ASSUME NEW s \in Requests \ {r}
        PROVE  next'[s] = next[s] /\ redeemed'[s] = redeemed[s]
    BY <1>3, <2>1, <2>6
  <2> QED BY <1>1, <1>3, <2>3, <2>4, <2>6 DEF CouponInv, RedeemedSoFar
<1>6. LimitsKept'
  <2> SUFFICES ASSUME NEW s \in Requests, NEW d \in redeemed'[s]
               PROVE  /\ Cardinality(Redemptions(s, d)') <= TotalLimit[d]
                      /\ Cardinality(SpentBy(s, d)') <= CustomerLimit[d]
    BY DEF LimitsKept
  <2>1. CASE s # r
    <3>1. Redemptions(s, d)' = Redemptions(s, d)
      BY <1>1, <1>3, <2>1 DEF TypeOK, Redemptions
    <3> QED BY <1>3, <2>1, <3>1 DEF CouponInv, LimitsKept, SpentBy
  <2>2. CASE s = r /\ d # c
    <3>1. Redemptions(s, d)' = Redemptions(s, d)
      BY <1>1, <1>3, <2>2 DEF TypeOK, Redemptions
    <3> QED BY <1>3, <2>2, <3>1 DEF CouponInv, LimitsKept, SpentBy
  <2>3. CASE s = r /\ d = c
    <3>1. /\ Redemptions(r, c)' = Redemptions(r, c) \cup {r}
          /\ SpentBy(r, c)' = SpentBy(r, c) \cup {r}
      BY <1>1, <1>3 DEF TypeOK, Redemptions, SpentBy
    <3>2. /\ Cardinality(Redemptions(r, c)) < TotalLimit[c]
          /\ Cardinality(SpentBy(r, c)) < CustomerLimit[c]
      <4>1. /\ ~ (Cardinality(Redemptions(r, c)) >= TotalLimit[c])
            /\ ~ (Cardinality(SpentBy(r, c)) >= CustomerLimit[c])
        BY <1>2 DEF Redeem, Exhausted, SpentBy
      <4> QED BY <4>1, RedemptionsFinite, CheckoutAssumption
    <3>3. /\ Cardinality(Redemptions(r, c) \cup {r})
                 <= Cardinality(Redemptions(r, c)) + 1
          /\ Cardinality(SpentBy(r, c) \cup {r}) <= Cardinality(SpentBy(r, c)) + 1
      <4>1. /\ Cardinality(Redemptions(r, c)) \in Nat
            /\ Cardinality(SpentBy(r, c)) \in Nat
        BY RedemptionsFinite
      <4>2. /\ Cardinality(Redemptions(r, c) \cup {r})
                 = IF r \in Redemptions(r, c) THEN Cardinality(Redemptions(r, c))
                   ELSE Cardinality(Redemptions(r, c)) + 1
            /\ Cardinality(SpentBy(r, c) \cup {r})
                 = IF r \in SpentBy(r, c) THEN Cardinality(SpentBy(r, c))
                   ELSE Cardinality(SpentBy(r, c)) + 1
        BY RedemptionsFinite, FS_AddElement
      <4> QED BY <4>1, <4>2
    <3>4. /\ Cardinality(Redemptions(r, c) \cup {r}) \in Nat
          /\ Cardinality(SpentBy(r, c) \cup {r}) \in Nat
      BY RedemptionsFinite, FS_AddElement, FS_CardinalityType
    <3> QED BY <2>3, <3>1, <3>2, <3>3, <3>4, RedemptionsFinite,
       CheckoutAssumption
  <2> QED BY <2>1, <2>2, <2>3
<1> QED BY <1>4, <1>5, <1>6 DEF CouponInv

LEMMA CouponsKept ==
  ASSUME TypeOK, KeyInv, CouponInv, [Next]_vars PROVE CouponInv'
<1>1. ASSUME NEW r \in Requests,
             Begin(r) \/ RequestStep(r) \/ Fail(r) \/ CommitAnswerLost(r)
               \/ CancelOrder(r)
      PROVE  CouponInv'
  <2>1. CASE \/ Begin(r) \/ Validate(r) \/ LockKey(r) \/ Replay(r) \/ NoReplay(r)
             \/ LockProduct(r) \/ ProductsLocked(r) \/ Price(r) \/ CheckCoupon(r)
             \/ CouponsChecked(r) \/ ClearCart(r) \/ Announce(r) \/ CancelOrder(r)
    <3>1. SpendsNothing
      BY <2>1 DEF TypeOK, Begin, Validate, LockKey, Replay, NoReplay,
         LockProduct,
         ProductsLocked, Price, CheckCoupon, CouponsChecked, ClearCart, Announce,
         CancelOrder, GoTo, locks, rows, SpendsNothing, Spending
    <3> QED BY <3>1, SpendsNothingKeepsCoupons
  <2>2. CASE CouponExhausted(r) \/ Refuse(r) \/ DeadlockAbort(r) \/ Fail(r)
    <3>1. Running(r) /\ (RollBack(r, "refused") \/ RollBack(r, "error"))
      BY <2>2, WaitersRun
         DEF CouponExhausted, AtCoupon, Refuse, DeadlockAbort, Fail, Running
    <3> QED BY <3>1, RollBackKeepsCoupons
  <2>3. CASE Commit(r) \/ CommitAnswerLost(r)
    BY <2>3, CommitKeepsCoupons DEF Commit, CommitAnswerLost
  <2>4. CASE Redeem(r)
    BY <2>4, RedeemKeepsCoupons
  <2>5. CASE InsertOrder(r)
    <3>1. wrote[r] = {} /\ redeemed[r] = {}
      BY <2>5 DEF TypeOK, KeyInv, Written, CouponInv, RedeemedSoFar, InsertOrder
    <3>2. CouponLocks'
      BY <2>5 DEF TypeOK, CouponInv, CouponLocks, InsertOrder, GoTo, locks
    <3>3. RedeemedSoFar'
      <4>1. 1 .. 1 - 1 = {}
        OBVIOUS
      <4>2. {Codes[r][i] : i \in {}} = {}
        OBVIOUS
      <4>3. pc'[r] = "redeeming" /\ next'[r] = 1 /\ redeemed'[r] = {}
            /\ wrote'[r] # {}
        BY <2>5, <3>1 DEF TypeOK, InsertOrder, GoTo
      <4>4. ASSUME NEW s \in Requests \ {r}
            PROVE  /\ pc'[s] = pc[s] /\ next'[s] = next[s]
                   /\ redeemed'[s] = redeemed[s] /\ wrote'[s] = wrote[s]
                   /\ allowed'[s] = allowed[s]
        BY <2>5, <4>4 DEF TypeOK, InsertOrder, GoTo
      <4> QED BY <4>1, <4>2, <4>3, <4>4 DEF CouponInv, RedeemedSoFar
    <3>4. LimitsKept'
      BY <2>5 DEF CouponInv, LimitsKept, InsertOrder, Redemptions, SpentBy
    <3> QED BY <3>2, <3>3, <3>4 DEF CouponInv
  <2>6. CASE LockCoupon(r)
    <3>1. CouponLocks'
      BY <2>6 DEF TypeOK, CouponInv, CouponLocks, LockCoupon, rows
    <3>2. RedeemedSoFar'
      BY <2>6 DEF CouponInv, RedeemedSoFar, LockCoupon, rows
    <3>3. LimitsKept'
      BY <2>6 DEF CouponInv, LimitsKept, Redemptions, SpentBy, LockCoupon, rows
    <3> QED BY <3>1, <3>2, <3>3 DEF CouponInv
  <2>7. CASE RecordKey(r)
    <3>1. CouponLocks'
      BY <2>7, NoRivals DEF TypeOK, CouponInv, CouponLocks, locks
    <3>2. redeemed[r] = CouponsOf(r, allowed[r])
      <4>1. /\ 1 .. next[r] - 1 \subseteq CodesToTry(r, allowed[r])
            /\ redeemed[r] = {Codes[r][i] : i \in 1 .. next[r] - 1}
            /\ next[r] \notin CodesToTry(r, allowed[r])
            /\ next[r] \in Nat \ {0} /\ allowed[r] \in Nat
        BY <2>7, NoRivals, CheckoutAssumption
           DEF TypeOK, CouponInv, RedeemedSoFar, MoreCodes
      <4>2. CodesToTry(r, allowed[r]) = 1 .. next[r] - 1
        <5>1. Len(Codes[r]) \in Nat
          BY CheckoutAssumption
        <5> QED BY <4>1, <5>1 DEF CodesToTry
      <4> QED BY <4>1, <4>2 DEF CouponsOf
    <3>3. wrote'[r] = wrote[r] \cup {"key"} /\ pc'[r] = "clearing"
      BY <2>7, NoRivals DEF TypeOK
    <3>4. \A s \in Requests \ {r} : wrote'[s] = wrote[s] /\ pc'[s] = pc[s]
      BY <2>7, NoRivals DEF TypeOK
    <3>5. RedeemedSoFar'
      BY <2>7, <3>2, <3>3, <3>4, NoRivals DEF CouponInv, RedeemedSoFar
    <3>6. LimitsKept'
      BY <2>7, NoRivals DEF CouponInv, LimitsKept, Redemptions, SpentBy
    <3> QED BY <3>1, <3>5, <3>6 DEF CouponInv
  <2>8. CASE AnnounceThrows(r)
    <3>1. CouponLocks'
      BY <2>8 DEF TypeOK, CouponInv, CouponLocks, AnnounceThrows, GoTo, locks
    <3>2. wrote[r] # {}
      BY <2>8 DEF KeyInv, Written, Full, AnnounceThrows
    <3>3. RedeemedSoFar'
      BY <2>8, <3>2 DEF TypeOK, CouponInv, RedeemedSoFar, AnnounceThrows, GoTo
    <3>4. LimitsKept'
      BY <2>8 DEF CouponInv, LimitsKept, Redemptions, SpentBy, AnnounceThrows
    <3> QED BY <3>1, <3>3, <3>4 DEF CouponInv
  <2> QED BY <1>1, <2>1, <2>2, <2>3, <2>4, <2>5, <2>6, <2>7, <2>8 DEF
     RequestStep
<1>2. CASE \/ \E p \in Products : ChangePrice(p)
           \/ UNCHANGED vars
  <2>1. SpendsNothing
    BY <1>2 DEF ChangePrice, vars, locks, rows, SpendsNothing
  <2> QED BY <2>1, SpendsNothingKeepsCoupons
<1> QED BY <1>1, <1>2 DEF Next

LEMMA ProductInit == ASSUME Init PROVE ProductInv
BY CheckoutAssumption DEF Init, ProductInv, BasketLocks, PricesHeld, Priced

LEMMA Smallest ==
  ASSUME NEW T \in SUBSET Nat, T # {}
  PROVE  \E p \in T : \A q \in T : p <= q
<1> DEFINE less == {ss \in Nat \X Nat : ss[1] < ss[2]}
<1>1. IsWellFoundedOn(less, Nat)
  BY NatLessThanWellFounded DEF OpToRel
<1> HIDE DEF less
<1>2. \E p \in T : \A q \in T : ~ (<<q, p>> \in less)
  <2>1. T \subseteq Nat
    OBVIOUS
  <2>2. \A R, S, U : IsWellFoundedOn(R, S) /\ U \subseteq S /\ U # {} =>
                      \E x \in U : \A y \in U : ~ (<<y, x>> \in R)
    BY WFMin, Zenon
  <2> QED BY <1>1, <2>1, <2>2, Zenon
<1>3. \A p, q \in Nat : q < p => <<q, p>> \in less
  BY DEF less
<1>4. PICK p \in T : \A q \in T : <<q, p>> \notin less
  BY <1>2
<1>5. ASSUME NEW q \in T PROVE p <= q
  <2>1. p \in Nat /\ q \in Nat
    OBVIOUS
  <2>2. ~ (q < p)
    BY <1>3, <1>4, <2>1
  <2> QED BY <2>1, <2>2
<1> QED BY <1>5

\* All products are locked when the query that locks them has no next one.
LEMMA AllLocked ==
  ASSUME TypeOK, ProductInv, NEW r \in Requests, NextProduct(r) = {}
  PROVE  products[r] = Basket[r]
<1> DEFINE left == Basket[r] \ products[r]
<1>1. left \in SUBSET Nat
  BY CheckoutAssumption
<1>2. left = {}
  <2> SUFFICES ASSUME left # {} PROVE FALSE
    OBVIOUS
  <2>1. \E p \in left : \A q \in left : p <= q
    BY <1>1, Smallest
  <2> QED BY <2>1 DEF NextProduct
<1> QED BY <1>2 DEF ProductInv, BasketLocks

\* The steps that leave products and prices alone.
PricesNothing ==
  /\ UNCHANGED <<products, quoted, price>>
  /\ \A s \in Requests :
       /\ pc'[s] \in Priced => pc[s] \in Priced
       /\ pc'[s] = "pricing" => pc[s] = "pricing"
       /\ pc'[s] \in {"new", "validating", "keying", "looking"} =>
            pc[s] \in {"new", "validating", "keying", "looking"}

LEMMA PricesNothingKeepsProducts ==
  ASSUME ProductInv, PricesNothing PROVE ProductInv'
<1>1. BasketLocks'
  BY DEF ProductInv, BasketLocks, PricesNothing
<1>2. PricesHeld'
  BY DEF ProductInv, PricesHeld, PricesNothing, Priced
<1> QED BY <1>1, <1>2 DEF ProductInv

LEMMA EndKeepsProducts ==
  ASSUME TypeOK, ProductInv, NEW r \in Requests, NEW how, Release(r),
         Answer(r, how), UNCHANGED <<quoted, price>>
  PROVE  ProductInv'
<1>1. \A s \in Requests :
        /\ products'[s] = IF s = r THEN {} ELSE products[s]
        /\ pc'[s] = IF s = r THEN "done" ELSE pc[s]
  BY DEF TypeOK, Release, Answer
<1>2. BasketLocks'
  BY <1>1 DEF ProductInv, BasketLocks, Priced
<1>3. PricesHeld'
  BY <1>1 DEF ProductInv, PricesHeld
<1> QED BY <1>2, <1>3 DEF ProductInv

LEMMA ProductsKept ==
  ASSUME TypeOK, KeyInv, ProductInv, [Next]_vars PROVE ProductInv'
<1>1. ASSUME NEW r \in Requests,
             Begin(r) \/ RequestStep(r) \/ Fail(r) \/ CommitAnswerLost(r)
               \/ CancelOrder(r)
      PROVE  ProductInv'
  <2>1. CASE \/ Begin(r) \/ Validate(r) \/ LockKey(r) \/ Replay(r) \/ NoReplay(r)
             \/ CheckCoupon(r) \/ CouponsChecked(r) \/ InsertOrder(r)
             \/ LockCoupon(r) \/ Redeem(r) \/ ClearCart(r) \/ Announce(r)
             \/ AnnounceThrows(r) \/ CancelOrder(r)
    <3>1. PricesNothing
      BY <2>1 DEF TypeOK, Begin, Validate, LockKey, Replay, NoReplay,
         CheckCoupon,
         CouponsChecked, InsertOrder, LockCoupon, Redeem, AtCoupon, ClearCart,
         Announce, AnnounceThrows, CancelOrder, GoTo, locks, shop, PricesNothing,
         Priced
    <3> QED BY <3>1, PricesNothingKeepsProducts
  <2>2. CASE CouponExhausted(r) \/ Refuse(r) \/ DeadlockAbort(r) \/ Fail(r)
    <3>1. RollBack(r, "refused") \/ RollBack(r, "error")
      BY <2>2 DEF CouponExhausted, Refuse, DeadlockAbort, Fail
    <3> QED BY <3>1, EndKeepsProducts DEF RollBack, shop
  <2>3. CASE Commit(r) \/ CommitAnswerLost(r)
    BY <2>3, EndKeepsProducts DEF Commit, CommitAnswerLost, CommitRows, shop
  <2>4. CASE RecordKey(r)
    <3>1. PricesNothing
      BY <2>4, NoRivals DEF TypeOK, locks, shop, PricesNothing, Priced
    <3> QED BY <3>1, PricesNothingKeepsProducts
  <2>5. CASE LockProduct(r)
    <3>1. PICK p \in NextProduct(r) :
            products' = [products EXCEPT ![r] = @ \cup {p}]
      BY <2>5 DEF LockProduct
    <3>2. /\ p \in Basket[r] \ products[r]
          /\ \A q \in Basket[r] \ products[r] : p <= q
          /\ Basket[r] \subseteq Nat
      BY CheckoutAssumption DEF NextProduct
    <3>3. \A q \in products[r] \cup {p} :
            \A x \in Basket[r] \ (products[r] \cup {p}) : q < x
      BY <3>2 DEF ProductInv, BasketLocks
    <3>4. /\ pc' = pc /\ pc[r] = "locking" /\ UNCHANGED <<quoted, price>>
          /\ \A s \in Requests :
               products'[s] = IF s = r THEN products[r] \cup {p} ELSE products[s]
      BY <2>5, <3>1 DEF TypeOK, LockProduct, shop
    <3>5. BasketLocks'
      BY <3>2, <3>3, <3>4 DEF ProductInv, BasketLocks, Priced
    <3>6. PricesHeld'
      BY <3>4 DEF ProductInv, PricesHeld
    <3> QED BY <3>5, <3>6 DEF ProductInv
  <2>6. CASE ProductsLocked(r)
    <3>1. products[r] = Basket[r]
      BY <2>6, AllLocked DEF ProductsLocked
    <3>2. BasketLocks'
      BY <2>6, <3>1
         DEF TypeOK, ProductInv, BasketLocks, ProductsLocked, GoTo, locks, Priced
    <3>3. PricesHeld'
      BY <2>6 DEF TypeOK, ProductInv, PricesHeld, ProductsLocked, GoTo, shop
    <3> QED BY <3>2, <3>3 DEF ProductInv
  <2>7. CASE Price(r)
    <3>1. BasketLocks'
      BY <2>7 DEF TypeOK, ProductInv, BasketLocks, Price, GoTo, locks, Priced
    <3>2. Basket[r] \subseteq Products
      BY CheckoutAssumption
    <3>3. PricesHeld'
      BY <2>7, <3>2 DEF TypeOK, ProductInv, PricesHeld, Price, GoTo, shop
    <3> QED BY <3>1, <3>3 DEF ProductInv
  <2> QED BY <1>1, <2>1, <2>2, <2>3, <2>4, <2>5, <2>6, <2>7 DEF RequestStep
<1>2. ASSUME NEW p \in Products, ChangePrice(p) PROVE ProductInv'
  <2>1. BasketLocks'
    BY <1>2 DEF ProductInv, BasketLocks, ChangePrice, locks
  <2>2. \A q \in Products : q # p => price'[q] = price[q]
    BY <1>2 DEF TypeOK, ChangePrice
  <2>3. \A r \in Requests : pc[r] \in Priced => p \notin Basket[r]
    BY <1>2 DEF ProductInv, BasketLocks, ChangePrice
  <2>4. \A r \in Requests : Basket[r] \subseteq Products
    BY CheckoutAssumption
  <2>5. PricesHeld'
    BY <1>2, <2>2, <2>3, <2>4 DEF ProductInv, PricesHeld, ChangePrice, Priced
  <2> QED BY <2>1, <2>5 DEF ProductInv
<1>3. CASE UNCHANGED vars
  BY <1>3, PricesNothingKeepsProducts DEF vars, PricesNothing
<1> QED BY <1>1, <1>2, <1>3 DEF Next

-----------------------------------------------------------------------------
(* What the invariant implies.                                              *)

IInv == TypeOK /\ KeyInv /\ CouponInv /\ ProductInv

LEMMA InitIInv == ASSUME Init PROVE IInv
BY TypeInit, KeyInit, CouponInit, ProductInit DEF IInv

LEMMA NextIInv == ASSUME IInv, [Next]_vars PROVE IInv'
BY TypeKept, KeysKept, CouponsKept, ProductsKept DEF IInv

LEMMA OrdersComplete == ASSUME IInv PROVE OrderComplete
BY DEF IInv, TypeOK, KeyInv, Written, Full, CouponInv, RedeemedSoFar, Orders,
       OrderComplete

LEMMA LimitsHold == ASSUME IInv PROVE CouponWithinLimits
<1> SUFFICES ASSUME NEW c \in Coupons
             PROVE  LET spent == {r \in Orders : c \in redeemed[r]} IN
                    /\ Cardinality(spent) <= TotalLimit[c]
                    /\ \A k \in Customers :
                         Cardinality({r \in spent : Customer[r] = k})
                           <= CustomerLimit[c]
  BY DEF CouponWithinLimits
<1> DEFINE spent == {r \in Orders : c \in redeemed[r]}
           by(k) == {r \in spent : Customer[r] = k}
<1>1. spent \subseteq Requests /\ IsFiniteSet(spent)
  <2>1. spent \subseteq Requests
    BY DEF IInv, TypeOK, Orders
  <2> QED BY <2>1, CheckoutAssumption, FS_Subset
<1>2. TotalLimit[c] \in Nat /\ CustomerLimit[c] \in Nat
  BY CheckoutAssumption
<1>3. ASSUME NEW T \in SUBSET Requests, NEW U \in SUBSET T, NEW n \in Nat,
             Cardinality(T) <= n
      PROVE  Cardinality(U) <= n
  <2>1. IsFiniteSet(T)
    BY CheckoutAssumption, FS_Subset
  <2>2. Cardinality(T) \in Nat /\ Cardinality(U) \in Nat
    BY <2>1, FS_Subset, FS_CardinalityType
  <2>3. Cardinality(U) <= Cardinality(T)
    BY <2>1, FS_Subset
  <2> QED BY <1>3, <2>2, <2>3
<1>4. Cardinality(spent) <= TotalLimit[c]
  <2>1. CASE spent = {}
    <3>1. Cardinality(spent) = 0
      BY <2>1, FS_EmptySet
    <3> QED BY <1>2, <3>1
  <2>2. CASE spent # {}
    <3>1. PICK r \in spent : r \in Requests /\ c \in redeemed[r]
      BY <1>1, <2>2
    <3>2. Redemptions(r, c) \in SUBSET Requests
      BY <3>1 DEF IInv, TypeOK, Redemptions
    <3>3. spent \in SUBSET Redemptions(r, c)
      BY DEF Orders, Redemptions
    <3>4. Cardinality(Redemptions(r, c)) <= TotalLimit[c]
      BY <3>1 DEF IInv, CouponInv, LimitsKept
    <3> HIDE DEF spent
    <3> QED BY <1>2, <1>3, <3>2, <3>3, <3>4
  <2> QED BY <2>1, <2>2
<1>5. ASSUME NEW k \in Customers PROVE Cardinality(by(k)) <= CustomerLimit[c]
  <2>1. CASE by(k) = {}
    BY <1>2, <2>1, FS_EmptySet
  <2>2. CASE by(k) # {}
    <3>1. PICK r \in by(k) : r \in Requests /\ c \in redeemed[r] /\ Customer[r] = k
      BY <1>1, <2>2
    <3>2. SpentBy(r, c) \in SUBSET Requests
      BY <3>1 DEF IInv, TypeOK, SpentBy, Redemptions
    <3>3. by(k) \in SUBSET SpentBy(r, c)
      BY <3>1 DEF Orders, SpentBy, Redemptions
    <3>4. Cardinality(SpentBy(r, c)) <= CustomerLimit[c]
      BY <3>1 DEF IInv, CouponInv, LimitsKept
    <3> HIDE DEF by
    <3> QED BY <1>2, <1>3, <3>2, <3>3, <3>4
  <2> QED BY <2>1, <2>2
<1> QED BY <1>4, <1>5

\* In a set of requests that wait for each other nobody waits for a key or a
\* product: of those that wait for a product, the one that wants the smallest
\* holds only smaller ones, and nobody can be waiting for these.
LEMMA DeadlocksAreOnCoupons == ASSUME IInv PROVE OnlyCouponDeadlocks
<1> SUFFICES ASSUME NEW S \in SUBSET Requests,
                    \A x \in S : /\ \E y \in S : WaitsFor(x, y)
                                 /\ \E y \in S : WaitsFor(y, x),
                    NEW r \in S
             PROVE  pc[r] = "redeeming"
  BY DEF OnlyCouponDeadlocks, Deadlocked
<1> USE DEF WaitsFor, WaitsForKey, WaitsForProduct, WaitsForCoupon
<1>1. \A x \in S : pc[x] \in {"keying", "locking", "redeeming"}
  OBVIOUS
<1>2. \A x \in S : pc[x] # "keying"
  <2> SUFFICES ASSUME NEW x \in S, pc[x] = "keying" PROVE FALSE
    OBVIOUS
  <2>1. x \notin keyed /\ products[x] = {} /\ coupons[x] = {}
    BY DEF IInv, KeyInv, KeyLocks, UnderKey, CouponInv, CouponLocks, ProductInv,
           BasketLocks
  <2> QED BY <2>1
<1>3. ASSUME NEW x \in S, pc[x] = "locking"
      PROVE  \E y \in S : /\ pc[y] = "locking"
                          /\ NextProduct(y) \cap products[x] # {}
  <2>1. coupons[x] = {}
    BY <1>3 DEF IInv, CouponInv, CouponLocks
  <2> QED BY <1>2, <1>3, <2>1
<1>4. \A x \in S : pc[x] # "locking"
  <2> SUFFICES ASSUME NEW x \in S, pc[x] = "locking" PROVE FALSE
    OBVIOUS
  <2> DEFINE wanted == {p \in Products : \E y \in S : pc[y] = "locking"
                                                      /\ p \in NextProduct(y)}
  <2>1. wanted \in SUBSET Nat
    BY CheckoutAssumption
  <2>2. \A y \in S : \A p \in NextProduct(y) :
          p \in Products /\ p \in Basket[y] \ products[y]
    BY CheckoutAssumption DEF NextProduct
  <2>3. wanted # {}
    BY <2>2
  <2>4. PICK p \in wanted : \A q \in wanted : p <= q
    <3> HIDE DEF wanted
    <3> QED BY <2>1, <2>3, Smallest
  <2>5. PICK y \in S : pc[y] = "locking" /\ p \in NextProduct(y)
    OBVIOUS
  <2>6. PICK z \in S : pc[z] = "locking" /\ NextProduct(z) \cap products[y] # {}
    BY <1>3, <2>5
  <2>7. PICK q \in NextProduct(z) : q \in products[y]
    BY <2>6
  <2>8. q < p
    BY <2>2, <2>5, <2>7 DEF IInv, ProductInv, BasketLocks
  <2>9. q \in wanted
    BY <2>2, <2>6, <2>7
  <2>10. p \in Nat /\ q \in Nat /\ p <= q
    BY <2>1, <2>4, <2>9
  <2> QED BY <2>8, <2>10
<1> QED BY <1>1, <1>2, <1>4

-----------------------------------------------------------------------------
(* The transactions implement OrderBook.                                    *)

Reply(r) == IF outcome[r] = "ok" THEN found[r] ELSE {}
Spent(r) == IF r \in Orders THEN redeemed[r] ELSE {}

LEMMA BookInit == ASSUME Init PROVE Book!Init
BY DEF Init, Book!Init, Orders

LEMMA CommitIsBooked ==
  ASSUME IInv, IInv', OrderComplete', CouponWithinLimits', NEW r \in Requests,
         NEW how \in {"ok", "error"}, CommitRows(r), Answer(r, how)
  PROVE  [Book!Next]_(Book!vars)
<1>1. /\ pc[r] = "committing" /\ outcome[r] = "none" /\ r \notin committed
      /\ Orders' = IF wrote[r] = {} THEN Orders ELSE Orders \cup {r}
  <2>1. pc[r] = "committing" /\ outcome[r] = "none" /\ r \notin committed
    BY DEF IInv, KeyInv, FoundRight, Written, CommitRows
  <2>2. wrote[r] = {} \/ "order" \in wrote[r]
    BY DEF IInv, KeyInv, Written
  <2> QED BY <2>1, <2>2 DEF Orders, CommitRows
<1>2. [s \in Requests |-> IF outcome[s] = "ok" THEN found[s] ELSE {}]' =
        IF how = "ok"
        THEN [[s \in Requests |-> IF outcome[s] = "ok" THEN found[s] ELSE {}]
                EXCEPT ![r] = found[r]]
        ELSE [s \in Requests |-> IF outcome[s] = "ok" THEN found[s] ELSE {}]
  BY <1>1 DEF IInv, TypeOK, CommitRows, Answer
<1>5. UNCHANGED redeemed
  BY DEF CommitRows
<1>3. CASE wrote[r] = {}
  <2>1. PICK s \in Orders : found[r] = {s} /\ SameKey(r, s)
    BY <1>1, <1>3 DEF IInv, KeyInv, FoundRight
  <2>2. s \in Requests
    BY DEF IInv, TypeOK, Orders
  <2>3. CASE how = "ok"
    <3>1. Book!Replay(r, s)
      BY <1>1, <1>2, <1>3, <1>5, <2>1, <2>2, <2>3 DEF Book!Replay, SameKey
    <3> QED BY <2>1, <3>1 DEF Book!Next
  <2>4. CASE how = "error"
    BY <1>1, <1>2, <1>3, <1>5, <2>4 DEF Book!vars
  <2> QED BY <2>3, <2>4
<1>4. CASE wrote[r] # {}
  <2>1. Orders' = Orders \cup {r} /\ found[r] = {r}
    BY <1>1, <1>4 DEF IInv, KeyInv, FoundRight
  <2>2. \A s \in Orders : s \in Requests /\ ~ SameKey(r, s)
    BY <1>1, <1>4 DEF IInv, TypeOK, Orders, KeyInv, FreshKey, Placing
  <2>5. /\ CouponsOf(r, allowed[r]) \in {CouponsOf(r, n) : n \in Allowances}
        /\ CouponsOf(r, allowed[r]) \subseteq Coupons
    <3>1. allowed[r] \in Allowances
      BY DEF IInv, TypeOK
    <3>2. \A i \in 1 .. Len(Codes[r]) : Codes[r][i] \in Coupons
      BY CheckoutAssumption
    <3> QED BY <3>1, <3>2 DEF CouponsOf, CodesToTry
  <2>6. redeemed[r] = CouponsOf(r, allowed[r])
    BY <1>1, <1>4 DEF IInv, CouponInv, RedeemedSoFar
  <2>7. [s \in Requests |-> IF s \in Orders THEN redeemed[s] ELSE {}]' =
          [[s \in Requests |-> IF s \in Orders THEN redeemed[s] ELSE {}]
             EXCEPT ![r] = redeemed[r]]
    BY <1>5, <2>1
  <2> DEFINE spenders(c) == {s \in Orders' :
               c \in [x \in Requests |->
                        IF x \in Orders THEN redeemed[x] ELSE {}]'[s]}
  <2>3. ASSUME NEW c \in CouponsOf(r, allowed[r])
        PROVE  Book!WithinLimits(Orders', [s \in Requests |->
                 IF s \in Orders THEN redeemed[s] ELSE {}]', c)
    <3>1. c \in Coupons
      BY <2>5
    <3>2. Orders' \subseteq Requests
      BY DEF IInv, TypeOK, Orders
    <3>3. spenders(c) = {s \in Orders' : c \in redeemed'[s]}
      BY <3>2
    <3>4. /\ Cardinality(spenders(c)) <= TotalLimit[c]
          /\ \A k \in Customers :
               Cardinality({s \in spenders(c) : Customer[s] = k})
                 <= CustomerLimit[c]
      <4> HIDE DEF spenders
      <4> QED BY <3>1, <3>3 DEF CouponWithinLimits
    <3>5. \A s \in Orders' : Customer[s] \in Customers
      BY <3>2 DEF Customers
    <3>6. ASSUME NEW x \in Orders'
          PROVE  Cardinality({s \in spenders(c) : Customer[s] = Customer[x]})
                   <= CustomerLimit[c]
      <4> HIDE DEF spenders
      <4>1. PICK k \in Customers : k = Customer[x]
        BY <3>5
      <4>2. Cardinality({s \in spenders(c) : Customer[s] = k})
              <= CustomerLimit[c]
        BY <3>4
      <4>3. {s \in spenders(c) : Customer[s] = Customer[x]}
              = {s \in spenders(c) : Customer[s] = k}
        BY <4>1
      <4> QED BY <4>2, <4>3
    <3>7. \A T : Book!Cardinality(T) = Cardinality(T)
      BY DEF Book!Cardinality, Cardinality
    <3> QED BY <3>4, <3>6, <3>7 DEF Book!WithinLimits
  <2>4. Book!Place(r)
    BY <1>2, <2>1, <2>2, <2>3, <2>5, <2>6, <2>7 DEF Book!Place, SameKey
  <2> QED BY <2>4 DEF Book!Next
<1> QED BY <1>3, <1>4

\* Every other step leaves the book and the answers alone.
LEMMA StepIsBooked ==
  ASSUME IInv, IInv', OrderComplete', CouponWithinLimits', [Next]_vars
  PROVE  [Book!Next]_(Book!vars)
<1>1. SUFFICES ASSUME \A r \in Requests : ~ Commit(r) /\ ~ CommitAnswerLost(r)
               PROVE  /\ Orders' = Orders
                      /\ \A r \in Requests :
                           Reply(r)' = Reply(r) /\ Spent(r)' = Spent(r)
  BY CommitIsBooked DEF Commit, CommitAnswerLost, Book!vars, Reply, Spent
<1>2. ASSUME NEW r \in Requests,
             Begin(r) \/ RequestStep(r) \/ Fail(r) \/ CancelOrder(r)
      PROVE  /\ Orders' = Orders
             /\ \A s \in Requests :
                  Reply(s)' = Reply(s) /\ Spent(s)' = Spent(s)
  <2>1. CASE \/ Begin(r) \/ Validate(r) \/ LockKey(r) \/ NoReplay(r)
             \/ LockProduct(r) \/ ProductsLocked(r) \/ Price(r) \/ CheckCoupon(r)
             \/ CouponsChecked(r) \/ LockCoupon(r) \/ ClearCart(r)
             \/ CancelOrder(r)
    <3>1. UNCHANGED <<wrote, committed, redeemed, found, outcome>>
      BY <2>1 DEF Begin, Validate, LockKey, NoReplay, LockProduct,
         ProductsLocked, Price, CheckCoupon, CouponsChecked, LockCoupon,
         ClearCart, CancelOrder, rows
    <3> QED BY <3>1 DEF Orders, Reply, Spent
  <2>4. CASE Redeem(r)
    <3>1. r \notin committed /\ UNCHANGED <<wrote, committed, found, outcome>>
      BY <2>4 DEF IInv, KeyInv, Written, Redeem, AtCoupon
    <3>2. \A s \in Requests \ {r} : redeemed'[s] = redeemed[s]
      BY <2>4 DEF IInv, TypeOK, Redeem
    <3> QED BY <3>1, <3>2 DEF Orders, Reply, Spent
  <2>2. CASE Replay(r) \/ Announce(r) \/ AnnounceThrows(r) \/ InsertOrder(r)
               \/ RecordKey(r)
    <3>1. /\ r \notin committed /\ outcome[r] = "none"
          /\ UNCHANGED <<committed, redeemed, outcome>>
      BY <2>2, NoRivals DEF IInv, KeyInv, Written, FoundRight, Replay, Announce,
         AnnounceThrows, InsertOrder, rows
    <3>2. \A s \in Requests \ {r} : wrote'[s] = wrote[s] /\ found'[s] = found[s]
      BY <2>2, NoRivals DEF IInv, TypeOK, Replay, Announce, AnnounceThrows,
         InsertOrder, rows
    <3>3. committed \subseteq Requests \ {r}
      BY <3>1 DEF IInv, TypeOK
    <3> QED BY <3>1, <3>2, <3>3 DEF Orders, Reply, Spent
  <2>3. CASE CouponExhausted(r) \/ Refuse(r) \/ DeadlockAbort(r) \/ Fail(r)
    <3>1. Running(r) /\ (RollBack(r, "refused") \/ RollBack(r, "error"))
      BY <2>3, WaitersRun
         DEF CouponExhausted, AtCoupon, Refuse, DeadlockAbort, Fail, Running
    <3>2. r \notin committed /\ outcome[r] = "none" /\ committed' = committed
          /\ outcome'[r] # "ok"
      BY <3>1 DEF IInv, TypeOK, KeyInv, Written, FoundRight, Running, RollBack,
         Answer
    <3>3. \A s \in Requests \ {r} : /\ wrote'[s] = wrote[s] /\ found'[s] = found[s]
                                    /\ outcome'[s] = outcome[s]
                                    /\ redeemed'[s] = redeemed[s]
      BY <3>1 DEF IInv, TypeOK, RollBack, Answer
    <3>4. committed \subseteq Requests \ {r}
      BY <3>2 DEF IInv, TypeOK
    <3> QED BY <3>2, <3>3, <3>4 DEF Orders, Reply, Spent
  <2> QED BY <1>1, <1>2, <2>1, <2>2, <2>3, <2>4 DEF RequestStep
<1>3. CASE (\E p \in Products : ChangePrice(p)) \/ UNCHANGED vars
  BY <1>3 DEF ChangePrice, vars, rows, Orders, Reply, Spent
<1> QED BY <1>1, <1>2, <1>3 DEF Next

-----------------------------------------------------------------------------
(* Announcements: a request announces its order when only COMMIT is left.   *)

AnnouncedLate ==
  \A r \in announced :
    /\ pc[r] \in {"committing", "done"}
    /\ pc[r] = "committing" => wrote[r] # {}

AnnouncedInv == AnnouncedLate /\ NoPhantoms

\* Steps of requests that have not announced anything yet.
LEMMA QuietStep ==
  ASSUME IInv, AnnouncedInv, NEW r \in Requests,
         pc[r] \notin {"committing", "done"},
         \A s \in Requests \ {r} : pc'[s] = pc[s] /\ wrote'[s] = wrote[s],
         announced' = announced, committed' = committed,
         faultsLeft' = FaultBudget => faultsLeft = FaultBudget
  PROVE  AnnouncedInv'
<1>1. announced \subseteq Requests \ {r}
  BY DEF IInv, TypeOK, AnnouncedInv, AnnouncedLate
<1>2. AnnouncedLate'
  BY <1>1 DEF AnnouncedInv, AnnouncedLate
<1>3. NoPhantoms'
  BY <1>1 DEF AnnouncedInv, NoPhantoms, Orders
<1> QED BY <1>2, <1>3 DEF AnnouncedInv

\* Once a fault has struck the budget is never whole again.
LEMMA AfterStrike == ASSUME IInv, Strikes PROVE faultsLeft' # FaultBudget
BY CheckoutAssumption DEF IInv, TypeOK, Strikes

LEMMA EndOfTransaction ==
  ASSUME IInv, AnnouncedInv, NEW r \in Requests, pc'[r] = "done",
         \A s \in Requests \ {r} : pc'[s] = pc[s] /\ wrote'[s] = wrote[s],
         announced' = announced,
         \/ faultsLeft' # FaultBudget
         \/ /\ faultsLeft' = faultsLeft
            /\ wrote'[r] = wrote[r] /\ committed' = committed \cup {r}
            /\ pc[r] = "committing"
  PROVE  AnnouncedInv'
<1>1. AnnouncedLate'
  BY DEF IInv, TypeOK, AnnouncedInv, AnnouncedLate
<1>2. NoPhantoms'
  <2>1. CASE faultsLeft' # FaultBudget
    BY <2>1 DEF NoPhantoms
  <2>2. CASE /\ faultsLeft' = faultsLeft
             /\ wrote'[r] = wrote[r] /\ committed' = committed \cup {r}
             /\ pc[r] = "committing"
    <3>1. r \in announced => "order" \in wrote[r]
      BY <2>2 DEF IInv, KeyInv, Written, AnnouncedInv, AnnouncedLate
    <3> QED BY <2>2, <3>1 DEF IInv, TypeOK, AnnouncedInv, NoPhantoms, Orders
  <2> QED BY <2>1, <2>2
<1> QED BY <1>1, <1>2 DEF AnnouncedInv

LEMMA NextAnnounced == ASSUME IInv, AnnouncedInv, [Next]_vars PROVE AnnouncedInv'
<1>1. ASSUME NEW r \in Requests,
             Begin(r) \/ Validate(r) \/ LockKey(r) \/ Replay(r) \/ NoReplay(r)
      PROVE  AnnouncedInv'
  BY <1>1, QuietStep DEF IInv, TypeOK, Begin, Validate, LockKey, Replay, NoReplay,
     GoTo, rows
<1>2. ASSUME NEW r \in Requests,
             LockProduct(r) \/ ProductsLocked(r) \/ Price(r) \/ CheckCoupon(r)
               \/ CouponsChecked(r)
      PROVE  AnnouncedInv'
  BY <1>2, QuietStep DEF IInv, TypeOK, LockProduct, ProductsLocked, Price, CheckCoupon,
     CouponsChecked, GoTo, rows
<1>3. ASSUME NEW r \in Requests,
             InsertOrder(r) \/ LockCoupon(r) \/ Redeem(r) \/ ClearCart(r)
               \/ AnnounceThrows(r)
      PROVE  AnnouncedInv'
  BY <1>3, QuietStep, SMTT(20) DEF IInv, TypeOK, InsertOrder, LockCoupon, Redeem, AtCoupon,
     ClearCart, AnnounceThrows, GoTo, rows
<1>4. ASSUME NEW r \in Requests, RecordKey(r) PROVE AnnouncedInv'
  BY <1>4, QuietStep DEF IInv, TypeOK, RecordKey, RollBack, Answer, GoTo, rows
<1>5. ASSUME NEW r \in Requests, CouponExhausted(r) \/ Refuse(r) PROVE AnnouncedInv'
  <2>1. pc[r] \notin {"committing", "done"} /\ UNCHANGED faultsLeft
    BY <1>5 DEF CouponExhausted, AtCoupon, Refuse
  <2>2. \E how \in {"refused"} : RollBack(r, how)
    BY <1>5 DEF CouponExhausted, Refuse
  <2> QED BY <2>1, <2>2, QuietStep DEF IInv, TypeOK, RollBack, Answer
<1>6. ASSUME NEW r \in Requests, DeadlockAbort(r) PROVE AnnouncedInv'
  <2>1. pc[r] = "redeeming"
    BY <1>6, DeadlocksAreOnCoupons DEF OnlyCouponDeadlocks, DeadlockAbort
  <2> QED BY <1>6, <2>1, QuietStep DEF IInv, TypeOK, DeadlockAbort, RollBack, Answer
<1>7. ASSUME NEW r \in Requests, Announce(r) PROVE AnnouncedInv'
  <2>1. wrote[r] # {} /\ pc'[r] = "committing" /\ UNCHANGED <<wrote, committed, faultsLeft>>
    BY <1>7 DEF IInv, TypeOK, KeyInv, Written, Full, Announce, GoTo, rows
  <2>2. announced' = announced \cup {r} /\ \A s \in Requests \ {r} : pc'[s] = pc[s]
    BY <1>7 DEF IInv, TypeOK, Announce, GoTo
  <2>3. announced \subseteq Requests
    BY DEF IInv, TypeOK
  <2> QED BY <2>1, <2>2, <2>3 DEF AnnouncedInv, AnnouncedLate, NoPhantoms, Orders
<1>8. ASSUME NEW r \in Requests, Commit(r) PROVE AnnouncedInv'
  BY <1>8, EndOfTransaction DEF IInv, TypeOK, Commit, CommitRows, Answer
<1>9. ASSUME NEW r \in Requests, Fail(r) \/ CommitAnswerLost(r) PROVE AnnouncedInv'
  BY <1>9, EndOfTransaction, AfterStrike
     DEF IInv, TypeOK, Fail, CommitAnswerLost, CommitRows, RollBack, Answer
<1>10. CASE \/ \E r \in Requests : CancelOrder(r)
            \/ \E p \in Products : ChangePrice(p)
            \/ UNCHANGED vars
  BY <1>10 DEF CancelOrder, ChangePrice, vars, rows, AnnouncedInv, AnnouncedLate,
     NoPhantoms, Orders
<1> QED BY <1>1, <1>2, <1>3, <1>4, <1>5, <1>6, <1>7, <1>8, <1>9, <1>10
   DEF Next, RequestStep

-----------------------------------------------------------------------------
(* Leftover carts: they are deleted by requests that only a fault can stop. *)

Sure(r) == Finishing(r) \/ r \in Orders

LEMMA CartsKept ==
  ASSUME CartsGoWithOrders, cart' = cart,
         faultsLeft' = FaultBudget => faultsLeft = FaultBudget,
         \A r \in Requests : Sure(r) => Sure(r)' \/ faultsLeft' # FaultBudget
  PROVE  CartsGoWithOrders'
BY DEF CartsGoWithOrders, Sure, Finishing, Orders

\* Steps of a request that is not sure yet, which leave its rows or end it.
LEMMA UnsureStep ==
  ASSUME IInv, CartsGoWithOrders, NEW r \in Requests,
         pc[r] \notin {"announcing", "committing", "done"},
         \A s \in Requests \ {r} : pc'[s] = pc[s] /\ wrote'[s] = wrote[s],
         committed' = committed, cart' = cart, faultsLeft' = faultsLeft
  PROVE  CartsGoWithOrders'
<1>1. r \notin committed
  BY DEF IInv, KeyInv, Written
<1>2. ASSUME NEW s \in Requests, Sure(s) PROVE Sure(s)'
  BY <1>1, <1>2 DEF Sure, Finishing, Orders
<1> QED BY <1>2, CartsKept

LEMMA NextCarts == ASSUME IInv, CartsGoWithOrders, [Next]_vars PROVE CartsGoWithOrders'
<1>1. ASSUME NEW r \in Requests,
             Begin(r) \/ Validate(r) \/ LockKey(r) \/ Replay(r) \/ NoReplay(r)
      PROVE  CartsGoWithOrders'
  BY <1>1, UnsureStep DEF IInv, TypeOK, Begin, Validate, LockKey, Replay, NoReplay,
     GoTo, rows
<1>2. ASSUME NEW r \in Requests,
             LockProduct(r) \/ ProductsLocked(r) \/ Price(r) \/ CheckCoupon(r)
               \/ CouponsChecked(r)
      PROVE  CartsGoWithOrders'
  BY <1>2, UnsureStep DEF IInv, TypeOK, LockProduct, ProductsLocked, Price, CheckCoupon,
     CouponsChecked, GoTo, rows
<1>3. ASSUME NEW r \in Requests, InsertOrder(r) \/ LockCoupon(r) \/ Redeem(r)
      PROVE  CartsGoWithOrders'
  BY <1>3, UnsureStep DEF IInv, TypeOK, InsertOrder, LockCoupon, Redeem, AtCoupon,
     GoTo, rows
<1>4. ASSUME NEW r \in Requests, RecordKey(r) PROVE CartsGoWithOrders'
  BY <1>4, UnsureStep DEF IInv, TypeOK, RecordKey, RollBack, Answer, GoTo, rows
<1>5. ASSUME NEW r \in Requests, CouponExhausted(r) \/ Refuse(r)
      PROVE  CartsGoWithOrders'
  <2>1. /\ pc[r] \notin {"announcing", "committing", "done"}
        /\ UNCHANGED faultsLeft /\ RollBack(r, "refused")
    BY <1>5 DEF CouponExhausted, AtCoupon, Refuse
  <2> QED BY <2>1, UnsureStep DEF IInv, TypeOK, RollBack, Answer
<1>6. ASSUME NEW r \in Requests, DeadlockAbort(r) PROVE CartsGoWithOrders'
  <2>1. pc[r] = "redeeming"
    BY <1>6, DeadlocksAreOnCoupons DEF OnlyCouponDeadlocks, DeadlockAbort
  <2> QED BY <1>6, <2>1, UnsureStep DEF IInv, TypeOK, DeadlockAbort, RollBack, Answer
<1>7. ASSUME NEW r \in Requests, ClearCart(r) PROVE CartsGoWithOrders'
  <2>1. /\ pc[r] = "clearing" /\ pc' = [pc EXCEPT ![r] = "announcing"]
        /\ cart' = cart \ {Customer[r]}
        /\ UNCHANGED <<wrote, committed, faultsLeft>>
    BY <1>7 DEF ClearCart, GoTo, rows
  <2>2. Finishing(r)'
    <3>1. pc'[r] = "announcing"
      BY <2>1 DEF IInv, TypeOK
    <3> QED BY <3>1 DEF Finishing
  <2>3. ASSUME NEW s \in Requests \ {r}, Finishing(s) \/ s \in Orders
        PROVE  (Finishing(s) \/ s \in Orders)'
    BY <2>1, <2>3 DEF IInv, TypeOK, Finishing, Orders
  <2>4. ~ Finishing(r) /\ r \notin Orders
    BY <2>1 DEF IInv, KeyInv, Written, Finishing, Orders
  <2> QED BY <2>1, <2>2, <2>3, <2>4 DEF CartsGoWithOrders
<1>8. ASSUME NEW r \in Requests, Announce(r) \/ AnnounceThrows(r)
      PROVE  CartsGoWithOrders'
  <2>1. /\ pc[r] = "announcing" /\ pc' = [pc EXCEPT ![r] = "committing"]
        /\ UNCHANGED <<committed, cart, faultsLeft>>
    BY <1>8 DEF Announce, AnnounceThrows, GoTo, rows
  <2>2. /\ wrote'[r] # {} /\ \A s \in Requests \ {r} : wrote'[s] = wrote[s]
        /\ r \notin committed
    <3>1. wrote[r] # {} /\ r \notin committed
      BY <2>1 DEF IInv, KeyInv, Written, Full
    <3>2. CASE Announce(r)
      BY <3>1, <3>2 DEF Announce, rows
    <3>3. CASE AnnounceThrows(r)
      BY <3>1, <3>3 DEF IInv, TypeOK, AnnounceThrows
    <3> QED BY <1>8, <3>1, <3>2, <3>3
  <2>3. ASSUME NEW s \in Requests, Sure(s) PROVE Sure(s)'
    BY <2>1, <2>2, <2>3 DEF IInv, TypeOK, Sure, Finishing, Orders
  <2> QED BY <2>1, <2>3, CartsKept
<1>9. ASSUME NEW r \in Requests, Commit(r) PROVE CartsGoWithOrders'
  <2>1. /\ pc[r] = "committing" /\ committed' = committed \cup {r}
        /\ UNCHANGED <<wrote, cart, faultsLeft>>
        /\ \A s \in Requests \ {r} : pc'[s] = pc[s]
    BY <1>9 DEF IInv, TypeOK, Commit, CommitRows, Answer
  <2>2. wrote[r] = {} \/ r \in Orders'
    BY <2>1 DEF IInv, KeyInv, Written, Orders
  <2>3. ASSUME NEW s \in Requests, Sure(s) PROVE Sure(s)'
    BY <2>1, <2>2, <2>3 DEF Sure, Finishing, Orders
  <2> QED BY <2>1, <2>3, CartsKept
<1>10. ASSUME NEW r \in Requests, Fail(r) \/ CommitAnswerLost(r)
       PROVE  CartsGoWithOrders'
  <2>1. faultsLeft' # FaultBudget
    BY <1>10, AfterStrike DEF Fail, CommitAnswerLost
  <2> QED BY <2>1 DEF CartsGoWithOrders
<1>11. CASE \/ \E r \in Requests : CancelOrder(r)
            \/ \E p \in Products : ChangePrice(p)
            \/ UNCHANGED vars
  <2>1. UNCHANGED <<pc, wrote, committed, cart, faultsLeft>>
    BY <1>11 DEF CancelOrder, ChangePrice, vars, rows
  <2>2. ASSUME NEW s \in Requests, Sure(s) PROVE Sure(s)'
    BY <2>1, <2>2 DEF Sure, Finishing, Orders
  <2> QED BY <2>1, <2>2, CartsKept
<1> QED BY <1>1, <1>2, <1>3, <1>4, <1>5, <1>6, <1>7, <1>8, <1>9, <1>10, <1>11
   DEF Next, RequestStep

-----------------------------------------------------------------------------
LEMMA Invariant == Spec => []IInv
BY InitIInv, NextIInv, PTL DEF Spec

(* Every variable keeps its type (checkoutStorefront and its repositories). *)
THEOREM TypeCorrect == Spec => []TypeOK
<1>1. IInv => TypeOK
  BY DEF IInv
<1> QED BY <1>1, Invariant, PTL

(* One order per customer and idempotency key, whatever is repeated, fails  *)
(* or is answered late (acquireCheckoutIdempotencyLock, RecordKey).         *)
THEOREM OrdersAreUnique == Spec => []OneOrderPerKey
<1>1. IInv => OneOrderPerKey
  BY DEF IInv, KeyInv
<1> QED BY <1>1, Invariant, PTL

(* No repeated request ever fails on the primary key of                     *)
(* checkout_idempotency: the advisory lock comes first.                     *)
THEOREM NoConflicts == Spec => []RepeatsNeverConflict
<1>1. IInv => RepeatsNeverConflict
  BY DEF IInv, KeyInv
<1> QED BY <1>1, Invariant, PTL

(* The limits of every coupon hold over the placed orders                   *)
(* (insertPromotionRedemption counts under FOR UPDATE).                     *)
THEOREM CouponsWithinLimits == Spec => []CouponWithinLimits
<1>1. IInv => CouponWithinLimits
  BY LimitsHold
<1> QED BY <1>1, Invariant, PTL

(* A placed order has its event, its key, an announcement or a row to retry *)
(* it, and a redemption of every coupon in its price: those it names up to  *)
(* the number the shop allowed when it was priced, none while promotions    *)
(* were paused (checkoutStorefront commits all of them or none).            *)
THEOREM OrdersAreComplete == Spec => []OrderComplete
<1>1. IInv => OrderComplete
  BY OrdersComplete
<1> QED BY <1>1, Invariant, PTL

(* The prices of an order are current until it commits                      *)
(* (lockSellableProducts takes FOR UPDATE OF sp).                           *)
THEOREM PricesAreHeld == Spec => []PricesHeld
<1>1. IInv => PricesHeld
  BY DEF IInv, ProductInv
<1> QED BY <1>1, Invariant, PTL

(* Checkouts deadlock on coupons only, never on keys or products            *)
(* (lockSellableProducts orders its rows, recordPromotionRedemptions not).  *)
THEOREM DeadlocksOnCouponsOnly == Spec => []OnlyCouponDeadlocks
<1>1. IInv => OnlyCouponDeadlocks
  BY DeadlocksAreOnCoupons
<1> QED BY <1>1, Invariant, PTL

(* Only a failing COMMIT or query takes back an order that was announced,   *)
(* never a refused coupon or a deadlock (emitOrderPlaced comes last).       *)
THEOREM AnnouncedOrdersStay == Spec => []PhantomsOnlyByFailure
<1>1. Init => AnnouncedInv /\ CartsGoWithOrders
  BY DEF Init, AnnouncedInv, AnnouncedLate, NoPhantoms, CartsGoWithOrders
<1>2. IInv /\ AnnouncedInv /\ CartsGoWithOrders /\ [Next]_vars
        => (AnnouncedInv /\ CartsGoWithOrders)'
  BY NextAnnounced, NextCarts
<1>3. AnnouncedInv /\ CartsGoWithOrders => PhantomsOnlyByFailure
  BY DEF AnnouncedInv, PhantomsOnlyByFailure
<1> QED BY <1>1, <1>2, <1>3, Invariant, PTL DEF Spec

(* Concurrent transactions with locks, faults and retries implement the     *)
(* order book that places and replays one order at a time.                  *)
THEOREM CheckoutRefinesOrderBook == Spec => ImplementsOrderBook
<1>1. Init => Book!Init
  BY BookInit
<1>2. IInv => OrderComplete /\ CouponWithinLimits
  BY OrdersComplete, LimitsHold
<1>3. IInv /\ IInv' /\ OrderComplete' /\ CouponWithinLimits' /\ [Next]_vars
        => [Book!Next]_(Book!vars)
  BY StepIsBooked
<1> QED BY <1>1, <1>2, <1>3, Invariant, PTL DEF Spec, Book!Spec,
   ImplementsOrderBook
=============================================================================
