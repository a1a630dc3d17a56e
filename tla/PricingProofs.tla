--------------------------- MODULE PricingProofs ---------------------------
(***************************************************************************)
(* Proofs about Pricing, for every shop, any number of calls and whatever  *)
(* changes while they run.  Two invariants carry them.  Inv is about the   *)
(* coupons of a call: which codes were tried and used; of a discount it    *)
(* needs only that it is a natural number.  Bills is about amounts: what   *)
(* each stage took off a cart, to whom it is credited and what the         *)
(* customer is told of it.  A step of a call keeps Bills because the       *)
(* operator it computes the bill with does, for every cart and all rules   *)
(* a shop can have; the lemmas about lines, bundles, offers and coupons    *)
(* say so, and rest on lemmas about sums over finite sets.  What is        *)
(* suggested is computed in one step, by a ranking that is shown to be a   *)
(* permutation of the coupons.                                             *)
(***************************************************************************)
EXTENDS Pricing, TLAPS, FiniteSetTheorems

Early == {"new", "offers", "bundles", "rules"}

BillOK(b) ==
  b \in [lines : {b.lines}, onSale : BOOLEAN, bundle : {b.bundle}, auto : {b.auto},
         afterAuto : Nat, coupon : Nat, remaining : Nat, campaigns : {b.campaigns},
         credit : {b.credit}, given : {b.given}, told : {b.told}, ahead : {b.ahead},
         applied : Seq(Codes), rejected : {b.rejected}]

\* Coupons were applied without repetition, from those already tried.
AppliedOnce(b, tried) ==
  /\ \A i, j \in DOMAIN b.applied : b.applied[i] = b.applied[j] => i = j
  /\ \A i \in DOMAIN b.applied : \E j \in 1 .. tried : b.applied[i] = CodesToTry[j]

AllApplied(b, tried) ==
  /\ Len(b.applied) = tried
  /\ \A i \in 1 .. tried : b.applied[i] = CodesToTry[i]

CallInv(c) ==
  /\ BillOK(bill[c])
  /\ bill[c].coupon + bill[c].remaining = bill[c].afterAuto
  /\ at[c] \in 1 .. Len(CodesToTry) + 1
  /\ AppliedOnce(bill[c], at[c] - 1)
  /\ pc[c] \in Early \cup {"customer"} =>
       at[c] = 1 /\ bill[c].coupon = 0 /\ bill[c].applied = <<>>
  /\ pc[c] \in {"customer", "coupons"} => at[c] <= Len(CodesToTry) /\ ~Bxgy(bill[c])
  /\ bill[c].applied # <<>> => ~Bxgy(bill[c])
  /\ c \notin Previews /\ pc[c] = "coupons" => AllApplied(bill[c], at[c] - 1)
  /\ c \notin Previews /\ pc[c] \in {"done", "answered"} /\ ~sees[c].paused =>
       AllApplied(bill[c], Len(CodesToTry))

Inv ==
  /\ TypeOK
  /\ bill = [c \in Calls |-> bill[c]]
  /\ at = [c \in Calls |-> at[c]]
  /\ \A c \in Calls : CallInv(c)

-----------------------------------------------------------------------------
(* Sets, folds and sums.                                                    *)

\* Induction on finite sets, with a set of good subsets for the predicate.
LEMMA SubsetInduction ==
  ASSUME NEW S, IsFiniteSet(S), NEW Good, {} \in Good,
         \A T \in SUBSET S : T # {} /\ (\A x \in T : T \ {x} \in Good) => T \in Good
  PROVE  \A T \in SUBSET S : T \in Good
<1> DEFINE Bad == {T \in SUBSET S : T \notin Good}
<1> SUFFICES ASSUME Bad # {} PROVE FALSE
  OBVIOUS
<1>1. IsWellFoundedOn(StrictSubsetOrdering(S), SUBSET S)
  BY FS_StrictSubsetOrderingWellFounded, FS_FiniteSubsetsOfFinite
<1>2. Bad \subseteq SUBSET S
  OBVIOUS
<1>3. PICK T \in Bad : \A U \in Bad : ~(<<U, T>> \in StrictSubsetOrdering(S))
  <2> HIDE DEF Bad
  <2> QED BY <1>1, <1>2, WFMin
<1>4. T # {} /\ T \in SUBSET S
  OBVIOUS
<1>5. ASSUME NEW x \in T PROVE T \ {x} \in Good
  <2>1. <<T \ {x}, T>> \in StrictSubsetOrdering(S)
    BY <1>4 DEF StrictSubsetOrdering
  <2>2. T \ {x} \notin Bad
    BY <1>3, <2>1
  <2> QED BY <1>4, <2>2
<1> QED BY <1>4, <1>5

\* Induction on numbers, with a set of good ones for the predicate.
LEMMA NatSets ==
  ASSUME NEW G, 0 \in G, \A n \in Nat : n \in G => n + 1 \in G
  PROVE  \A n \in Nat : n \in G
<1> DEFINE Bad == {n \in Nat : n \notin G}
<1> SUFFICES ASSUME Bad # {} PROVE FALSE
  OBVIOUS
<1>1. Bad \subseteq Nat
  OBVIOUS
<1>2. PICK n \in Bad : \A m \in Bad : ~(<<m, n>> \in OpToRel(<, Nat))
  <2> HIDE DEF Bad
  <2> QED BY <1>1, NatLessThanWellFounded, WFMin
<1>3. n \in Nat /\ n \notin G
  OBVIOUS
<1>4. n # 0 /\ n - 1 \in Nat
  BY <1>3
<1>5. <<n - 1, n>> \in OpToRel(<, Nat)
  BY <1>3, <1>4 DEF OpToRel
<1>6. n - 1 \in G
  BY <1>2, <1>4, <1>5
<1>7. (n - 1) + 1 \in G
  BY <1>4, <1>6
<1> QED BY <1>3, <1>7

\* What a fold over the subsets of S is defined by.
Folds(g, S, base, pick, F) ==
  g = [s \in SUBSET S |-> IF s = {} THEN base ELSE F[<<pick[s], g[s \ {pick[s]}]>>]]

\* A fold over the subsets of a finite set is a function.
LEMMA FoldExists ==
  ASSUME NEW S, IsFiniteSet(S), NEW Y, NEW base \in Y, NEW pick, NEW F,
         \A s \in SUBSET S : s # {} => pick[s] \in s,
         \A x \in S, y \in Y : F[<<x, y>>] \in Y
  PROVE  \E g \in [SUBSET S -> Y] : Folds(g, S, base, pick, F)
<1> DEFINE Upto(k) == {s \in SUBSET S : Cardinality(s) <= k}
           Solves(g, k) ==
             \A s \in Upto(k) : g[s] = IF s = {} THEN base ELSE F[<<pick[s], g[s \ {pick[s]}]>>]
           G == {k \in Nat : \E g \in [Upto(k) -> Y] : Solves(g, k)}
<1>0. \A s \in SUBSET S : IsFiniteSet(s) /\ Cardinality(s) \in Nat
  BY FS_Subset, FS_CardinalityType
<1>1. \A s \in SUBSET S : s # {} => /\ s \ {pick[s]} \in SUBSET S
                                    /\ Cardinality(s \ {pick[s]}) = Cardinality(s) - 1
                                    /\ Cardinality(s) # 0
  <2> SUFFICES ASSUME NEW s \in SUBSET S, s # {}
               PROVE  /\ s \ {pick[s]} \in SUBSET S
                      /\ Cardinality(s \ {pick[s]}) = Cardinality(s) - 1
                      /\ Cardinality(s) # 0
    OBVIOUS
  <2>1. pick[s] \in s /\ IsFiniteSet(s)
    BY <1>0
  <2> QED BY <2>1, FS_RemoveElement, FS_EmptySet
<1>2. 0 \in G
  <2>1. \A s \in Upto(0) : s = {}
    BY <1>0, FS_EmptySet
  <2> DEFINE g == [s \in Upto(0) |-> base]
  <2>2. g \in [Upto(0) -> Y] /\ Solves(g, 0)
    BY <2>1
  <2> QED BY <2>2
<1>3. ASSUME NEW k \in Nat, k \in G PROVE k + 1 \in G
  <2>1. PICK g \in [Upto(k) -> Y] : Solves(g, k)
    BY <1>3
  <2> DEFINE h == [s \in Upto(k + 1) |-> IF Cardinality(s) <= k THEN g[s]
                                         ELSE F[<<pick[s], g[s \ {pick[s]}]>>]]
  <2>2. ASSUME NEW s \in Upto(k + 1)
        PROVE  /\ h[s] \in Y
               /\ h[s] = IF s = {} THEN base ELSE F[<<pick[s], h[s \ {pick[s]}]>>]
    <3>1. CASE s = {}
      <4>1. s \in Upto(k) /\ h[s] = g[s]
        BY <3>1, FS_EmptySet
      <4> QED BY <2>1, <3>1, <4>1
    <3>2. CASE s # {}
      <4> DEFINE t == s \ {pick[s]}
      <4>1. t \in Upto(k) /\ t \in Upto(k + 1) /\ pick[s] \in S
        BY <1>0, <1>1, <3>2
      <4>2. h[t] = g[t] /\ g[t] \in Y
        BY <4>1
      <4>3. CASE Cardinality(s) <= k
        <5>1. s \in Upto(k) /\ h[s] = g[s]
          BY <4>3
        <5> QED BY <2>1, <3>2, <4>2, <5>1
      <4>4. CASE ~(Cardinality(s) <= k)
        BY <3>2, <4>1, <4>2, <4>4
      <4> QED BY <4>3, <4>4
    <3> QED BY <3>1, <3>2
  <2>3. h \in [Upto(k + 1) -> Y] /\ Solves(h, k + 1)
    <3>1. h = [s \in Upto(k + 1) |-> h[s]]
      OBVIOUS
    <3> HIDE DEF h
    <3> QED BY <2>2, <3>1
  <2>4. \E f \in [Upto(k + 1) -> Y] : Solves(f, k + 1)
    <3> HIDE DEF h, Upto, Solves
    <3> QED BY <2>3
  <2>5. k + 1 \in Nat
    OBVIOUS
  <2> QED BY <2>4, <2>5
<1>4. Cardinality(S) \in G
  <2>1. \A k \in Nat : k \in G => k + 1 \in G
    BY <1>3
  <2> HIDE DEF G
  <2>2. \A k \in Nat : k \in G
    BY <1>2, <2>1, NatSets
  <2> QED BY <1>0, <2>2
<1>5. PICK g \in [Upto(Cardinality(S)) -> Y] : Solves(g, Cardinality(S))
  BY <1>4
<1>6. Upto(Cardinality(S)) = SUBSET S
  BY FS_Subset
<1>7. g = [s \in SUBSET S |-> g[s]]
  BY <1>5, <1>6
<1>8. \A s \in SUBSET S : g[s] = IF s = {} THEN base ELSE F[<<pick[s], g[s \ {pick[s]}]>>]
  BY <1>5, <1>6
<1>9. g = [s \in SUBSET S |-> IF s = {} THEN base ELSE F[<<pick[s], g[s \ {pick[s]}]>>]]
  BY <1>7, <1>8
<1> QED BY <1>5, <1>6, <1>9 DEF Folds

\* The maximum of a finite set of integers is in it.
LEMMA MaxIs ==
  ASSUME NEW S, IsFiniteSet(S), S # {}, S \subseteq Int
  PROVE  Max(S) \in S /\ \A x \in S : Max(S) >= x
<1> DEFINE Good == {T \in SUBSET S : T # {} => \E m \in T : \A x \in T : m >= x}
<1>1. {} \in Good
  OBVIOUS
<1>2. ASSUME NEW T \in SUBSET S, T # {}, \A x \in T : T \ {x} \in Good
      PROVE  T \in Good
  <2>1. PICK x \in T : TRUE
    BY <1>2
  <2>2. CASE T \ {x} = {}
    BY <2>1, <2>2
  <2>3. CASE T \ {x} # {}
    <3>1. PICK m \in T \ {x} : \A y \in T \ {x} : m >= y
      BY <1>2, <2>1, <2>3
    <3> QED BY <3>1
  <2> QED BY <2>2, <2>3
<1>3. S \in Good
  <2>1. \A T \in SUBSET S : T # {} /\ (\A x \in T : T \ {x} \in Good) => T \in Good
    BY <1>2
  <2> HIDE DEF Good
  <2> QED BY <1>1, <2>1, SubsetInduction
<1>4. \E m \in S : \A x \in S : m >= x
  BY <1>3
<1> QED BY <1>4 DEF Max

\* g sums f over the subsets of S.
AddsUp(g, S, f) ==
  /\ g \in [SUBSET S -> Int]
  /\ g[{}] = 0
  /\ \A s \in SUBSET S : s # {} =>
       \E x \in s : x = (CHOOSE y \in s : TRUE) /\ g[s] = f[x] + g[s \ {x}]
  /\ SumFunctionOnSet(f, S) = g[S]

\* Some function sums f over the subsets of S.
LEMMA SumIter ==
  ASSUME NEW S, IsFiniteSet(S), NEW f, \A x \in S : f[x] \in Int
  PROVE  \E g : AddsUp(g, S, f)
<1> DEFINE pick == [s \in SUBSET S |-> CHOOSE x \in s : TRUE]
           F == [p \in S \X Int |-> f[p[1]] + p[2]]
           it == CHOOSE g : g = [s \in SUBSET S |-> IF s = {} THEN 0
                   ELSE f[CHOOSE x \in s : TRUE] + g[s \ {CHOOSE x \in s : TRUE}]]
<1>1. SumFunctionOnSet(f, S) = it[S]
  BY DEF SumFunctionOnSet, FoldFunctionOnSet, MapThenFoldSet
<1>2. \A s \in SUBSET S : s # {} => pick[s] \in s
  OBVIOUS
<1>3. \A x \in S, y \in Int : F[<<x, y>>] = f[x] + y /\ f[x] + y \in Int
  OBVIOUS
<1>4. PICK g \in [SUBSET S -> Int] : Folds(g, S, 0, pick, F)
  <2>1. 0 \in Int /\ \A x \in S, y \in Int : F[<<x, y>>] \in Int
    BY <1>3
  <2> HIDE DEF pick, F
  <2> QED BY <1>2, <2>1, FoldExists
<1>5. g = [s \in SUBSET S |-> IF s = {} THEN 0
            ELSE f[CHOOSE x \in s : TRUE] + g[s \ {CHOOSE x \in s : TRUE}]]
  <2>1. ASSUME NEW s \in SUBSET S
        PROVE  g[s] = IF s = {} THEN 0
                      ELSE f[CHOOSE x \in s : TRUE] + g[s \ {CHOOSE x \in s : TRUE}]
    <3>1. g[s] = IF s = {} THEN 0 ELSE F[<<pick[s], g[s \ {pick[s]}]>>]
      <4> HIDE DEF pick, F
      <4> QED BY <1>4 DEF Folds
    <3>2. CASE s # {}
      <4>1. pick[s] \in S /\ s \ {pick[s]} \in SUBSET S
        BY <1>2, <3>2
      <4>2. g[s \ {pick[s]}] \in Int
        <5> HIDE DEF pick
        <5> QED BY <1>4, <4>1
      <4>3. F[<<pick[s], g[s \ {pick[s]}]>>] = f[pick[s]] + g[s \ {pick[s]}]
        <5> HIDE DEF pick, F
        <5> QED BY <1>3, <4>1, <4>2
      <4> QED BY <3>1, <3>2, <4>3
    <3> QED BY <3>1, <3>2
  <2> QED BY <1>4, <2>1
<1>6. it = [s \in SUBSET S |-> IF s = {} THEN 0
            ELSE f[CHOOSE x \in s : TRUE] + it[s \ {CHOOSE x \in s : TRUE}]]
  BY <1>5
<1> HIDE DEF it
<1>7. \A s \in SUBSET S : s # {} =>
        it[s] = f[CHOOSE x \in s : TRUE] + it[s \ {CHOOSE x \in s : TRUE}]
  BY <1>6
<1>8. it[{}] = 0
  BY <1>6
<1>9. \A s \in SUBSET S : it[s] \in Int
  <2> DEFINE Good == {s \in SUBSET S : it[s] \in Int}
  <2>1. {} \in Good
    BY <1>8
  <2>2. ASSUME NEW T \in SUBSET S, T # {}, \A x \in T : T \ {x} \in Good PROVE T \in Good
    <3>1. PICK x \in T : x = (CHOOSE y \in T : TRUE)
      BY <2>2
    <3>2. it[T] = f[x] + it[T \ {x}]
      BY <1>7, <2>2, <3>1
    <3>3. it[T \ {x}] \in Int /\ f[x] \in Int
      BY <2>2
    <3> QED BY <3>2, <3>3
  <2>3. \A T \in SUBSET S : T # {} /\ (\A x \in T : T \ {x} \in Good) => T \in Good
    BY <2>2
  <2>4. \A T \in SUBSET S : T \in Good
    <3> HIDE DEF Good
    <3> QED BY <2>1, <2>3, SubsetInduction
  <2> QED BY <2>4
<1>10. it \in [SUBSET S -> Int]
  BY <1>6, <1>9
<1>11. AddsUp(it, S, f)
  BY <1>1, <1>7, <1>8, <1>10, ZenonT(30) DEF AddsUp
<1> QED BY <1>11

\* A sum takes one term after another, in some order.
LEMMA SumIs ==
  ASSUME NEW S, IsFiniteSet(S), NEW f, \A x \in S : f[x] \in Int
  PROVE  /\ SumFunctionOnSet(f, {}) = 0
         /\ \A T \in SUBSET S :
              /\ SumFunctionOnSet(f, T) \in Int
              /\ T # {} => \E x \in T : SumFunctionOnSet(f, T) =
                                        f[x] + SumFunctionOnSet(f, T \ {x})
<1>1. PICK g : AddsUp(g, S, f)
  BY SumIter
<1>2. ASSUME NEW T \in SUBSET S PROVE SumFunctionOnSet(f, T) = g[T]
  <2>1. IsFiniteSet(T) /\ \A x \in T : f[x] \in Int
    BY FS_Subset
  <2>2. PICK h : AddsUp(h, T, f)
    BY <2>1, SumIter
  <2> DEFINE Good == {s \in SUBSET T : h[s] = g[s]}
  <2>3. {} \in Good
    BY <1>1, <2>2 DEF AddsUp
  <2>4. ASSUME NEW s \in SUBSET T, s # {}, \A x \in s : s \ {x} \in Good PROVE s \in Good
    <3>1. s \in SUBSET S
      OBVIOUS
    <3>2. PICK x \in s : x = (CHOOSE y \in s : TRUE) /\ g[s] = f[x] + g[s \ {x}]
      BY <1>1, <2>4, <3>1 DEF AddsUp
    <3>3. h[s] = f[x] + h[s \ {x}]
      BY <2>2, <2>4, <3>2 DEF AddsUp
    <3>4. h[s \ {x}] = g[s \ {x}]
      BY <2>4
    <3> QED BY <3>2, <3>3, <3>4
  <2>5. \A s \in SUBSET T : s # {} /\ (\A x \in s : s \ {x} \in Good) => s \in Good
    BY <2>4
  <2>6. \A s \in SUBSET T : s \in Good
    <3> HIDE DEF Good
    <3> QED BY <2>1, <2>3, <2>5, SubsetInduction
  <2>7. h[T] = g[T]
    BY <2>6
  <2> QED BY <2>2, <2>7 DEF AddsUp
<1>3. \A T \in SUBSET S : SumFunctionOnSet(f, T) = g[T]
  BY <1>2
<1>4. SumFunctionOnSet(f, {}) = 0
  BY <1>1, <1>3 DEF AddsUp
<1>5. \A T \in SUBSET S : SumFunctionOnSet(f, T) \in Int
  BY <1>1, <1>3 DEF AddsUp
<1>6. ASSUME NEW T \in SUBSET S, T # {}
      PROVE  \E x \in T : SumFunctionOnSet(f, T) = f[x] + SumFunctionOnSet(f, T \ {x})
  <2>1. PICK x \in T : g[T] = f[x] + g[T \ {x}]
    BY <1>1, <1>6 DEF AddsUp
  <2>2. T \ {x} \in SUBSET S
    OBVIOUS
  <2> QED BY <1>3, <2>1, <2>2
<1> QED BY <1>4, <1>5, <1>6

\* A sum takes any of its terms first.
LEMMA SumPick ==
  ASSUME NEW S, IsFiniteSet(S), NEW f, \A x \in S : f[x] \in Int, NEW x \in S
  PROVE  SumFunctionOnSet(f, S) = f[x] + SumFunctionOnSet(f, S \ {x})
<1> DEFINE Sum(T) == SumFunctionOnSet(f, T)
           Good == {T \in SUBSET S : \A y \in T : Sum(T) = f[y] + Sum(T \ {y})}
<1>1. /\ \A T \in SUBSET S : Sum(T) \in Int
      /\ \A T \in SUBSET S : T # {} => \E y \in T : Sum(T) = f[y] + Sum(T \ {y})
  BY SumIs
<1> HIDE DEF Sum
<1>2. {} \in Good
  OBVIOUS
<1>3. ASSUME NEW T \in SUBSET S, T # {}, \A y \in T : T \ {y} \in Good PROVE T \in Good
  <2>1. PICK c \in T : Sum(T) = f[c] + Sum(T \ {c})
    BY <1>1, <1>3
  <2>2. ASSUME NEW y \in T PROVE Sum(T) = f[y] + Sum(T \ {y})
    <3>1. CASE y = c
      BY <2>1, <3>1
    <3>2. CASE y # c
      <4> DEFINE rest == T \ {c, y}
      <4>1. (T \ {c}) \ {y} = rest /\ (T \ {y}) \ {c} = rest /\ rest \in SUBSET S
        OBVIOUS
      <4>2. Sum(T \ {c}) = f[y] + Sum(rest)
        <5>1. T \ {c} \in Good /\ y \in T \ {c}
          BY <1>3, <3>2
        <5> QED BY <4>1, <5>1
      <4>3. Sum(T \ {y}) = f[c] + Sum(rest)
        <5>1. T \ {y} \in Good /\ c \in T \ {y}
          BY <1>3, <3>2
        <5> QED BY <4>1, <5>1
      <4>4. Sum(rest) \in Int /\ f[c] \in Int /\ f[y] \in Int
        BY <1>1, <4>1
      <4> HIDE DEF rest
      <4> QED BY <2>1, <4>2, <4>3, <4>4
    <3> QED BY <3>1, <3>2
  <2> QED BY <2>2
<1>4. S \in Good
  <2>1. \A T \in SUBSET S : T # {} /\ (\A y \in T : T \ {y} \in Good) => T \in Good
    BY <1>3
  <2>2. \A T \in SUBSET S : T \in Good
    <3> HIDE DEF Good
    <3> QED BY <1>2, <2>1, SubsetInduction
  <2> QED BY <2>2
<1> QED BY <1>4 DEF Sum

\* Over any part of S, f is summed element by element.
Adds(f, S) ==
  /\ SumFunctionOnSet(f, {}) = 0
  /\ SumFunctionOnSet(f, S) \in Int
  /\ \A T \in SUBSET S :
       /\ SumFunctionOnSet(f, T) \in Int
       /\ \A x \in T : SumFunctionOnSet(f, T) = f[x] + SumFunctionOnSet(f, T \ {x})

\* The sums over the parts of S add up element by element.
LEMMA SumOn ==
  ASSUME NEW S, IsFiniteSet(S), NEW f, \A x \in S : f[x] \in Int
  PROVE  Adds(f, S)
<1>1. ASSUME NEW T \in SUBSET S, NEW x \in T
      PROVE  SumFunctionOnSet(f, T) = f[x] + SumFunctionOnSet(f, T \ {x})
  <2>1. IsFiniteSet(T) /\ \A y \in T : f[y] \in Int
    BY FS_Subset
  <2> QED BY <2>1, SumPick
<1> QED BY <1>1, SumIs DEF Adds

\* Equal terms, equal sums.
LEMMA SumSame ==
  ASSUME NEW S, IsFiniteSet(S), NEW f, NEW g, \A x \in S : f[x] \in Int /\ g[x] = f[x]
  PROVE  SumFunctionOnSet(g, S) = SumFunctionOnSet(f, S)
<1> DEFINE Sf(T) == SumFunctionOnSet(f, T)
           Sg(T) == SumFunctionOnSet(g, T)
           Good == {T \in SUBSET S : Sg(T) = Sf(T)}
<1>1. /\ Sf({}) = 0 /\ Sg({}) = 0
      /\ \A T \in SUBSET S : \A x \in T : Sf(T) = f[x] + Sf(T \ {x}) /\ Sg(T) = g[x] + Sg(T \ {x})
  <2>1. \A x \in S : g[x] \in Int
    OBVIOUS
  <2>2. Adds(f, S) /\ Adds(g, S)
    BY <2>1, SumOn
  <2> QED BY <2>2 DEF Adds
<1> HIDE DEF Sf, Sg
<1>2. {} \in Good
  BY <1>1
<1>3. ASSUME NEW T \in SUBSET S, T # {}, \A x \in T : T \ {x} \in Good PROVE T \in Good
  <2>1. PICK x \in T : TRUE
    BY <1>3
  <2>2. Sf(T) = f[x] + Sf(T \ {x}) /\ Sg(T) = g[x] + Sg(T \ {x})
    BY <1>1
  <2>3. Sg(T \ {x}) = Sf(T \ {x}) /\ g[x] = f[x]
    BY <1>3
  <2> QED BY <2>2, <2>3
<1>4. S \in Good
  <2>1. \A T \in SUBSET S : T # {} /\ (\A x \in T : T \ {x} \in Good) => T \in Good
    BY <1>3
  <2>2. \A T \in SUBSET S : T \in Good
    <3> HIDE DEF Good
    <3> QED BY <1>2, <2>1, SubsetInduction
  <2> QED BY <2>2
<1> QED BY <1>4 DEF Sf, Sg

\* The sum of sums, term by term.
LEMMA SumPlus ==
  ASSUME NEW S, IsFiniteSet(S), NEW f, NEW g, NEW h,
         \A x \in S : f[x] \in Int /\ g[x] \in Int /\ h[x] = f[x] + g[x]
  PROVE  SumFunctionOnSet(h, S) = SumFunctionOnSet(f, S) + SumFunctionOnSet(g, S)
<1> DEFINE Sf(T) == SumFunctionOnSet(f, T)
           Sg(T) == SumFunctionOnSet(g, T)
           Sh(T) == SumFunctionOnSet(h, T)
           Good == {T \in SUBSET S : Sh(T) = Sf(T) + Sg(T)}
<1>1. /\ Sf({}) = 0 /\ Sg({}) = 0 /\ Sh({}) = 0
      /\ \A T \in SUBSET S :
           /\ Sf(T) \in Int /\ Sg(T) \in Int
           /\ \A x \in T : /\ Sf(T) = f[x] + Sf(T \ {x})
                           /\ Sg(T) = g[x] + Sg(T \ {x})
                           /\ Sh(T) = h[x] + Sh(T \ {x})
  <2>1. \A x \in S : f[x] \in Int /\ g[x] \in Int /\ h[x] \in Int
    OBVIOUS
  <2>2. Adds(f, S) /\ Adds(g, S) /\ Adds(h, S)
    BY <2>1, SumOn
  <2> QED BY <2>2 DEF Adds
<1> HIDE DEF Sf, Sg, Sh
<1>2. {} \in Good
  BY <1>1
<1>3. ASSUME NEW T \in SUBSET S, T # {}, \A x \in T : T \ {x} \in Good PROVE T \in Good
  <2>1. PICK x \in T : TRUE
    BY <1>3
  <2> DEFINE rest == T \ {x}
  <2>2. Sf(T) = f[x] + Sf(rest) /\ Sg(T) = g[x] + Sg(rest) /\ Sh(T) = h[x] + Sh(rest)
    BY <1>1
  <2>3. Sh(rest) = Sf(rest) + Sg(rest) /\ Sf(rest) \in Int /\ Sg(rest) \in Int
    BY <1>1, <1>3
  <2>4. f[x] \in Int /\ g[x] \in Int /\ h[x] = f[x] + g[x]
    OBVIOUS
  <2> HIDE DEF rest
  <2>5. Sh(T) = Sf(T) + Sg(T)
    BY <2>2, <2>3, <2>4
  <2> QED BY <2>5
<1>4. S \in Good
  <2>1. \A T \in SUBSET S : T # {} /\ (\A x \in T : T \ {x} \in Good) => T \in Good
    BY <1>3
  <2>2. \A T \in SUBSET S : T \in Good
    <3> HIDE DEF Good
    <3> QED BY <1>2, <2>1, SubsetInduction
  <2> QED BY <2>2
<1> QED BY <1>4 DEF Sf, Sg, Sh

\* A common factor comes out of a sum.
LEMMA SumTimes ==
  ASSUME NEW S, IsFiniteSet(S), NEW k \in Int, NEW f, NEW g,
         \A x \in S : f[x] \in Int /\ g[x] = k * f[x]
  PROVE  SumFunctionOnSet(g, S) = k * SumFunctionOnSet(f, S)
<1> DEFINE Sf(T) == SumFunctionOnSet(f, T)
           Sg(T) == SumFunctionOnSet(g, T)
           Good == {T \in SUBSET S : Sg(T) = k * Sf(T)}
<1>1. /\ Sf({}) = 0 /\ Sg({}) = 0
      /\ \A T \in SUBSET S :
           /\ Sf(T) \in Int
           /\ \A x \in T : Sf(T) = f[x] + Sf(T \ {x}) /\ Sg(T) = g[x] + Sg(T \ {x})
  <2>1. \A x \in S : f[x] \in Int /\ g[x] \in Int
    OBVIOUS
  <2>2. Adds(f, S) /\ Adds(g, S)
    BY <2>1, SumOn
  <2> QED BY <2>2 DEF Adds
<1> HIDE DEF Sf, Sg
<1>2. {} \in Good
  BY <1>1
<1>3. ASSUME NEW T \in SUBSET S, T # {}, \A x \in T : T \ {x} \in Good PROVE T \in Good
  <2>1. PICK x \in T : TRUE
    BY <1>3
  <2> DEFINE rest == T \ {x}
  <2>2. Sf(T) = f[x] + Sf(rest) /\ Sg(T) = g[x] + Sg(rest)
    BY <1>1
  <2>3. Sg(rest) = k * Sf(rest) /\ Sf(rest) \in Int
    BY <1>1, <1>3
  <2>4. f[x] \in Int /\ g[x] = k * f[x]
    OBVIOUS
  <2> HIDE DEF rest
  <2>5. k * (f[x] + Sf(rest)) = k * f[x] + k * Sf(rest)
    BY <2>3, <2>4
  <2>6. Sg(T) = k * Sf(T)
    BY <2>2, <2>3, <2>4, <2>5
  <2> QED BY <2>6
<1>4. S \in Good
  <2>1. \A T \in SUBSET S : T # {} /\ (\A x \in T : T \ {x} \in Good) => T \in Good
    BY <1>3
  <2>2. \A T \in SUBSET S : T \in Good
    <3> HIDE DEF Good
    <3> QED BY <1>2, <2>1, SubsetInduction
  <2> QED BY <2>2
<1> QED BY <1>4 DEF Sf, Sg

\* Terms that are at most others sum up to at most their sum.
LEMMA SumLeast ==
  ASSUME NEW S, IsFiniteSet(S), NEW f, NEW g,
         \A x \in S : f[x] \in Int /\ g[x] \in Int /\ f[x] <= g[x]
  PROVE  SumFunctionOnSet(f, S) <= SumFunctionOnSet(g, S)
<1> DEFINE Sf(T) == SumFunctionOnSet(f, T)
           Sg(T) == SumFunctionOnSet(g, T)
           Good == {T \in SUBSET S : Sf(T) <= Sg(T)}
<1>1. /\ Sf({}) = 0 /\ Sg({}) = 0
      /\ \A T \in SUBSET S :
           /\ Sf(T) \in Int /\ Sg(T) \in Int
           /\ \A x \in T : Sf(T) = f[x] + Sf(T \ {x}) /\ Sg(T) = g[x] + Sg(T \ {x})
  <2>1. \A x \in S : f[x] \in Int /\ g[x] \in Int
    OBVIOUS
  <2>2. Adds(f, S) /\ Adds(g, S)
    BY <2>1, SumOn
  <2> QED BY <2>2 DEF Adds
<1> HIDE DEF Sf, Sg
<1>2. {} \in Good
  BY <1>1
<1>3. ASSUME NEW T \in SUBSET S, T # {}, \A x \in T : T \ {x} \in Good PROVE T \in Good
  <2>1. PICK x \in T : TRUE
    BY <1>3
  <2> DEFINE rest == T \ {x}
  <2>2. Sf(T) = f[x] + Sf(rest) /\ Sg(T) = g[x] + Sg(rest)
    BY <1>1
  <2>3. Sf(rest) <= Sg(rest) /\ Sf(rest) \in Int /\ Sg(rest) \in Int
    BY <1>1, <1>3
  <2>4. f[x] \in Int /\ g[x] \in Int /\ f[x] <= g[x]
    OBVIOUS
  <2> HIDE DEF rest
  <2>5. Sf(T) <= Sg(T)
    BY <2>2, <2>3, <2>4
  <2> QED BY <2>5
<1>4. S \in Good
  <2>1. \A T \in SUBSET S : T # {} /\ (\A x \in T : T \ {x} \in Good) => T \in Good
    BY <1>3
  <2>2. \A T \in SUBSET S : T \in Good
    <3> HIDE DEF Good
    <3> QED BY <1>2, <2>1, SubsetInduction
  <2> QED BY <2>2
<1> QED BY <1>4 DEF Sf, Sg

\* Zeros sum up to zero.
LEMMA SumZero ==
  ASSUME NEW S, IsFiniteSet(S), NEW f, \A x \in S : f[x] = 0
  PROVE  SumFunctionOnSet(f, S) = 0
<1>1. \A x \in S : f[x] \in Int /\ f[x] = 0 * f[x]
  OBVIOUS
<1>2. SumFunctionOnSet(f, S) \in Int
  BY <1>1, SumOn DEF Adds
<1>3. SumFunctionOnSet(f, S) = 0 * SumFunctionOnSet(f, S)
  BY <1>1, SumTimes
<1> QED BY <1>2, <1>3

\* Natural numbers sum up to one.
LEMMA SumNat ==
  ASSUME NEW S, IsFiniteSet(S), NEW f, \A x \in S : f[x] \in Nat
  PROVE  SumFunctionOnSet(f, S) \in Nat
<1> DEFINE zero == [x \in S |-> 0]
<1>1. \A x \in S : zero[x] \in Int /\ f[x] \in Int /\ zero[x] <= f[x] /\ zero[x] = 0
  OBVIOUS
<1> HIDE DEF zero
<1>2. /\ SumFunctionOnSet(zero, S) = 0 /\ SumFunctionOnSet(f, S) \in Int
      /\ SumFunctionOnSet(zero, S) <= SumFunctionOnSet(f, S)
  BY <1>1, SumZero, SumLeast, SumOn DEF Adds
<1> QED BY <1>2

\* One term of natural numbers is at most their sum.
LEMMA SumTerm ==
  ASSUME NEW S, IsFiniteSet(S), NEW f, \A x \in S : f[x] \in Nat, NEW x \in S
  PROVE  f[x] <= SumFunctionOnSet(f, S)
<1>1. IsFiniteSet(S \ {x}) /\ \A y \in S : f[y] \in Int
  BY FS_RemoveElement
<1>2. SumFunctionOnSet(f, S \ {x}) \in Nat
  BY <1>1, SumNat
<1>3. SumFunctionOnSet(f, S) = f[x] + SumFunctionOnSet(f, S \ {x})
  BY <1>1, SumPick
<1>4. f[x] \in Int
  BY <1>1
<1> QED BY <1>2, <1>3, <1>4

\* A sum above zero has a term above zero.
LEMMA SumPositive ==
  ASSUME NEW S, IsFiniteSet(S), NEW f, \A x \in S : f[x] \in Int,
         SumFunctionOnSet(f, S) > 0
  PROVE  \E x \in S : f[x] > 0
<1> DEFINE zero == [x \in S |-> 0]
<1> SUFFICES ASSUME \A x \in S : ~(f[x] > 0) PROVE FALSE
  OBVIOUS
<1>1. \A x \in S : zero[x] \in Int /\ f[x] \in Int /\ f[x] <= zero[x] /\ zero[x] = 0
  OBVIOUS
<1> HIDE DEF zero
<1>2. /\ SumFunctionOnSet(zero, S) = 0 /\ SumFunctionOnSet(f, S) \in Int
      /\ SumFunctionOnSet(f, S) <= SumFunctionOnSet(zero, S)
  BY <1>1, SumZero, SumLeast, SumOn DEF Adds
<1> QED BY <1>2

\* All but one term are zero.
LEMMA SumOnly ==
  ASSUME NEW S, IsFiniteSet(S), NEW f, NEW c \in S, f[c] \in Int,
         \A x \in S \ {c} : f[x] = 0
  PROVE  SumFunctionOnSet(f, S) = f[c]
<1>1. \A x \in S : f[x] \in Int
  OBVIOUS
<1>2. IsFiniteSet(S \ {c})
  BY FS_RemoveElement
<1>3. SumFunctionOnSet(f, S \ {c}) = 0
  BY <1>2, SumZero
<1>4. SumFunctionOnSet(f, S) = f[c] + SumFunctionOnSet(f, S \ {c})
  BY <1>1, SumPick
<1> QED BY <1>3, <1>4

Handed(f, to, c, S) == [x \in S |-> IF to[x] = c THEN f[x] ELSE 0]

\* Sums of what each c gets are the sum of all that is handed out.
LEMMA SumHandedOut ==
  ASSUME NEW S, IsFiniteSet(S), NEW C, IsFiniteSet(C),
         NEW f, NEW gets, NEW to,
         \A x \in S : f[x] \in Int /\ to[x] \in C,
         \A c \in C : gets[c] = SumFunctionOnSet(Handed(f, to, c, S), S)
  PROVE  /\ \A c \in C : gets[c] \in Int
         /\ SumFunctionOnSet(gets, C) = SumFunctionOnSet(f, S)
<1> DEFINE part(c) == Handed(f, to, c, S)
           G(T) == [c \in C |-> SumFunctionOnSet(part(c), T)]
           Good == {T \in SUBSET S : SumFunctionOnSet(G(T), C) = SumFunctionOnSet(f, T)}
<1>1. \A c \in C : \A x \in S : part(c)[x] \in Int /\ part(c)[x] = IF to[x] = c THEN f[x] ELSE 0
  BY DEF Handed
<1> HIDE DEF part
<1>2. ASSUME NEW c \in C
      PROVE  /\ SumFunctionOnSet(part(c), {}) = 0
             /\ \A T \in SUBSET S :
                  /\ SumFunctionOnSet(part(c), T) \in Int
                  /\ \A x \in T : SumFunctionOnSet(part(c), T) =
                                    part(c)[x] + SumFunctionOnSet(part(c), T \ {x})
  <2>1. \A x \in S : part(c)[x] \in Int
    BY <1>1
  <2> DEFINE p == part(c)
  <2>2. \A x \in S : p[x] \in Int
    BY <2>1
  <2> HIDE DEF p
  <2>3. Adds(p, S)
    BY <2>2, SumOn
  <2> QED BY <2>3 DEF Adds, p
<1>3. /\ SumFunctionOnSet(f, {}) = 0
      /\ \A T \in SUBSET S :
           /\ SumFunctionOnSet(f, T) \in Int
           /\ \A x \in T : SumFunctionOnSet(f, T) = f[x] + SumFunctionOnSet(f, T \ {x})
  <2>1. \A x \in S : f[x] \in Int
    OBVIOUS
  <2>2. Adds(f, S)
    BY <2>1, SumOn
  <2> QED BY <2>2 DEF Adds
<1>4. \A T \in SUBSET S : \A c \in C : G(T)[c] = SumFunctionOnSet(part(c), T) /\ G(T)[c] \in Int
  BY <1>2
<1>5. {} \in Good
  <2>1. \A c \in C : G({})[c] = 0
    BY <1>2
  <2> HIDE DEF G
  <2>2. SumFunctionOnSet(G({}), C) = 0
    BY <2>1, SumZero
  <2> QED BY <1>3, <2>2
<1> HIDE DEF G
<1>6. ASSUME NEW T \in SUBSET S, T # {}, \A x \in T : T \ {x} \in Good PROVE T \in Good
  <2>1. PICK x \in T : TRUE
    BY <1>6
  <2> DEFINE rest == T \ {x}
             one == [c \in C |-> part(c)[x]]
  <2>2. rest \in SUBSET S /\ rest \in Good /\ to[x] \in C /\ f[x] \in Int
    BY <1>6
  <2>3. \A c \in C : /\ G(rest)[c] \in Int /\ one[c] \in Int
                     /\ G(T)[c] = G(rest)[c] + one[c]
    <3> TAKE c \in C
    <3>1. SumFunctionOnSet(part(c), T) = part(c)[x] + SumFunctionOnSet(part(c), rest)
      BY <1>2
    <3>2. part(c)[x] \in Int /\ SumFunctionOnSet(part(c), rest) \in Int
      BY <1>1, <1>2
    <3>3. G(T)[c] = SumFunctionOnSet(part(c), T) /\ G(rest)[c] = SumFunctionOnSet(part(c), rest)
      BY <1>4
    <3> QED BY <3>1, <3>2, <3>3
  <2>4. one[to[x]] = f[x] /\ \A c \in C \ {to[x]} : one[c] = 0
    BY <1>1, <2>2
  <2> HIDE DEF one, rest
  <2>5. SumFunctionOnSet(one, C) = f[x]
    BY <2>2, <2>4, SumOnly
  <2>6. SumFunctionOnSet(G(T), C) = SumFunctionOnSet(G(rest), C) + SumFunctionOnSet(one, C)
    BY <2>3, SumPlus
  <2>7. SumFunctionOnSet(G(rest), C) = SumFunctionOnSet(f, rest)
        /\ SumFunctionOnSet(f, rest) \in Int
    BY <1>3, <2>2
  <2>8. SumFunctionOnSet(f, T) = f[x] + SumFunctionOnSet(f, rest)
    BY <1>3 DEF rest
  <2>9. SumFunctionOnSet(G(T), C) = SumFunctionOnSet(f, T)
    BY <2>2, <2>5, <2>6, <2>7, <2>8
  <2> QED BY <2>9
<1>7. SumFunctionOnSet(G(S), C) = SumFunctionOnSet(f, S)
  <2>1. \A T \in SUBSET S : T # {} /\ (\A x \in T : T \ {x} \in Good) => T \in Good
    BY <1>6
  <2>2. \A T \in SUBSET S : T \in Good
    <3> HIDE DEF Good
    <3> QED BY <1>5, <2>1, SubsetInduction
  <2> QED BY <2>2
<1>8. \A c \in C : G(S)[c] \in Int /\ gets[c] = G(S)[c]
  <2>1. \A c \in C : gets[c] = SumFunctionOnSet(part(c), S)
    BY DEF part
  <2> QED BY <1>4, <2>1
<1>9. SumFunctionOnSet(gets, C) = SumFunctionOnSet(G(S), C)
  BY <1>8, SumSame
<1> QED BY <1>7, <1>8, <1>9

\* The minimum of a finite set of integers is in it.
LEMMA MinIs ==
  ASSUME NEW S, IsFiniteSet(S), S # {}, S \subseteq Int
  PROVE  Min(S) \in S /\ \A x \in S : Min(S) <= x
<1> DEFINE Good == {T \in SUBSET S : T # {} => \E m \in T : \A x \in T : m <= x}
<1>1. {} \in Good
  OBVIOUS
<1>2. ASSUME NEW T \in SUBSET S, T # {}, \A x \in T : T \ {x} \in Good
      PROVE  T \in Good
  <2>1. PICK x \in T : TRUE
    BY <1>2
  <2>2. CASE T \ {x} = {}
    BY <2>1, <2>2
  <2>3. CASE T \ {x} # {}
    <3>1. PICK m \in T \ {x} : \A y \in T \ {x} : m <= y
      BY <1>2, <2>1, <2>3
    <3> QED BY <3>1
  <2> QED BY <2>2, <2>3
<1>3. S \in Good
  <2>1. \A T \in SUBSET S : T # {} /\ (\A x \in T : T \ {x} \in Good) => T \in Good
    BY <1>2
  <2> HIDE DEF Good
  <2> QED BY <1>1, <2>1, SubsetInduction
<1>4. \E m \in S : \A x \in S : m <= x
  BY <1>3
<1> QED BY <1>4 DEF Min

\* In a total order R one of finitely many comes before all the others.
LEMMA LeastExists ==
  ASSUME NEW S, IsFiniteSet(S), S # {}, NEW R,
         \A x, y \in S : x # y => <<x, y>> \in R \/ <<y, x>> \in R,
         \A x, y, z \in S : <<x, y>> \in R /\ <<y, z>> \in R => <<x, z>> \in R
  PROVE  \E x \in S : \A y \in S \ {x} : <<x, y>> \in R
<1> DEFINE Good == {T \in SUBSET S : T # {} => \E x \in T : \A y \in T \ {x} : <<x, y>> \in R}
<1>1. {} \in Good
  OBVIOUS
<1>2. ASSUME NEW T \in SUBSET S, T # {}, \A x \in T : T \ {x} \in Good
      PROVE  T \in Good
  <2>1. PICK x \in T : TRUE
    BY <1>2
  <2>2. CASE T \ {x} = {}
    BY <2>1, <2>2
  <2>3. CASE T \ {x} # {}
    <3>1. PICK m \in T \ {x} : \A y \in (T \ {x}) \ {m} : <<m, y>> \in R
      BY <1>2, <2>1, <2>3
    <3>2. CASE <<m, x>> \in R
      BY <3>1, <3>2
    <3>3. CASE <<x, m>> \in R
      <4>1. ASSUME NEW y \in T \ {x} PROVE <<x, y>> \in R
        BY <3>1, <3>3
      <4> QED BY <4>1
    <3> QED BY <3>1, <3>2, <3>3
  <2> QED BY <2>2, <2>3
<1>3. S \in Good
  <2>1. \A T \in SUBSET S : T # {} /\ (\A x \in T : T \ {x} \in Good) => T \in Good
    BY <1>2
  <2> HIDE DEF Good
  <2> QED BY <1>1, <2>1, SubsetInduction
<1> QED BY <1>3

\* Terms outside of T are zero.
LEMMA SumPart ==
  ASSUME NEW S, IsFiniteSet(S), NEW T \in SUBSET S, NEW f,
         \A x \in S : f[x] \in Int, \A x \in S \ T : f[x] = 0
  PROVE  SumFunctionOnSet(f, S) = SumFunctionOnSet(f, T)
<1> DEFINE Sf(U) == SumFunctionOnSet(f, U)
           Good == {U \in SUBSET S : Sf(U) = Sf(U \cap T)}
<1>1. /\ \A U \in SUBSET S : Sf(U) \in Int
      /\ \A U \in SUBSET S : \A x \in U : Sf(U) = f[x] + Sf(U \ {x})
  <2>1. Adds(f, S)
    BY SumOn
  <2> QED BY <2>1 DEF Adds
<1> HIDE DEF Sf
<1>2. {} \in Good
  <2>1. {} \cap T = {}
    OBVIOUS
  <2> QED BY <2>1
<1>3. ASSUME NEW U \in SUBSET S, U # {}, \A x \in U : U \ {x} \in Good PROVE U \in Good
  <2>1. PICK x \in U : TRUE
    BY <1>3
  <2>2. Sf(U) = f[x] + Sf(U \ {x}) /\ Sf(U \ {x}) = Sf((U \ {x}) \cap T)
    <3>1. U \ {x} \in Good
      BY <1>3
    <3> QED BY <1>1, <3>1
  <2>3. CASE x \in T
    <3>1. (U \ {x}) \cap T = (U \cap T) \ {x} /\ x \in U \cap T /\ U \cap T \in SUBSET S
      BY <2>3
    <3>2. Sf(U \cap T) = f[x] + Sf((U \cap T) \ {x})
      BY <1>1, <2>3, <3>1
    <3> QED BY <2>2, <3>1, <3>2
  <2>4. CASE x \notin T
    <3>1. (U \ {x}) \cap T = U \cap T /\ f[x] = 0 /\ Sf(U \cap T) \in Int
      <4>1. U \cap T \in SUBSET S /\ x \in S
        OBVIOUS
      <4>2. (U \ {x}) \cap T = U \cap T
        BY <2>4
      <4> QED BY <1>1, <2>4, <4>1, <4>2
    <3>2. Sf(U \ {x}) = Sf(U \cap T)
      BY <2>2, <3>1
    <3>3. Sf(U) = Sf(U \cap T)
      BY <2>2, <3>1, <3>2
    <3> QED BY <3>3
  <2> QED BY <2>3, <2>4
<1>4. S \in Good
  <2>1. \A U \in SUBSET S : U # {} /\ (\A x \in U : U \ {x} \in Good) => U \in Good
    BY <1>3
  <2> HIDE DEF Good
  <2> QED BY <1>2, <2>1, SubsetInduction
<1>5. S \cap T = T
  OBVIOUS
<1>6. Sf(S) = Sf(S \cap T)
  BY <1>4
<1> QED BY <1>5, <1>6 DEF Sf

\* Products keep an order.
LEMMA TimesLess ==
  ASSUME NEW a \in Int, NEW b \in Int, NEW n \in Nat, a <= b
  PROVE  n * a <= n * b
  OBVIOUS

\* What division rounds to: the largest multiple that fits.
LEMMA Quotient ==
  ASSUME NEW a \in Int, NEW b \in Nat \ {0}
  PROVE  /\ a \div b \in Int
         /\ b * (a \div b) <= a
         /\ a < b * (a \div b + 1)
         /\ a \in Nat => a \div b \in Nat
  OBVIOUS

\* A quotient is known from its bounds.
LEMMA QuotientIs ==
  ASSUME NEW a \in Int, NEW b \in Nat \ {0}, NEW q \in Int,
         b * q <= a, a < b * (q + 1)
  PROVE  a \div b = q
<1> DEFINE p == a \div b
<1>1. p \in Int /\ b * p <= a /\ a < b * (p + 1)
  BY Quotient
<1> HIDE DEF p
<1>2. b * p \in Int /\ b * q \in Int /\ b * (p + 1) \in Int /\ b * (q + 1) \in Int
  BY <1>1
<1>3. CASE p < q
  <2>1. p + 1 <= q
    BY <1>1, <1>3
  <2>2. b * (p + 1) <= b * q
    BY <1>1, <2>1, TimesLess
  <2> QED BY <1>1, <1>2, <2>2
<1>4. CASE q < p
  <2>1. q + 1 <= p
    BY <1>1, <1>4
  <2>2. b * (q + 1) <= b * p
    BY <1>1, <2>1, TimesLess
  <2> QED BY <1>1, <1>2, <2>2
<1> QED BY <1>1, <1>3, <1>4 DEF p

\* Whole multiples of the divisor pass through a division.
LEMMA QuotientPlus ==
  ASSUME NEW a \in Int, NEW b \in Nat \ {0}, NEW n \in Int
  PROVE  (a + b * n) \div b = a \div b + n
<1> DEFINE p == a \div b
<1>1. p \in Int /\ b * p <= a /\ a < b * (p + 1)
  BY Quotient
<1> HIDE DEF p
<1>2. b * (p + n) = b * p + b * n /\ b * (p + n + 1) = b * (p + 1) + b * n
  BY <1>1
<1>3. b * p \in Int /\ b * n \in Int /\ b * (p + 1) \in Int
  BY <1>1
<1>4. b * (p + n) <= a + b * n /\ a + b * n < b * (p + n + 1)
  BY <1>1, <1>2, <1>3
<1>5. p + n \in Int /\ a + b * n \in Int
  BY <1>1
<1>6. (a + b * n) \div b = p + n
  BY <1>4, <1>5, QuotientIs
<1> QED BY <1>6 DEF p

-----------------------------------------------------------------------------
(* Sequences.                                                               *)

\* The sequence of the places of a sequence.
LEMMA Ids ==
  ASSUME NEW s, NEW n \in Nat, DOMAIN s = 1 .. n
  PROVE  /\ DOMAIN [i \in DOMAIN s |-> i] = 1 .. n
         /\ \A i \in 1 .. n : [j \in DOMAIN s |-> j][i] = i
  OBVIOUS

\* The last of some places.
LEMMA LastPlace ==
  ASSUME NEW n \in Nat, NEW T \in SUBSET (1 .. n), T # {}
  PROVE  Max(T) \in T /\ \A x \in T : Max(T) >= x
<1>1. IsFiniteSet(1 .. n)
  BY FS_Interval
<1>2. IsFiniteSet(T)
  BY <1>1, FS_Subset
<1>3. T \subseteq Int
  OBVIOUS
<1> QED BY <1>2, <1>3, MaxIs

\* it has what is kept of the places in each part of S, the last of them last.
Keeps(it, s, S, places) ==
  /\ it[{}] = <<>>
  /\ \A T \in SUBSET S : T # {} =>
       it[T] = IF Max(T) \in places THEN Append(it[T \ {Max(T)}], s[Max(T)])
               ELSE it[T \ {Max(T)}]

\* Those folds a sequence over its places.
LEMMA ThoseFold ==
  ASSUME NEW s, NEW n \in Nat, DOMAIN s = 1 .. n, NEW places
  PROVE  \E it : Those(s, places) = it[1 .. n] /\ Keeps(it, s, 1 .. n, places)
<1> DEFINE S == 1 .. n
           ids == [i \in DOMAIN s |-> i]
           X == {s[i] : i \in {j \in 1 .. n : j \in places}}
           Y == Seq(X)
           pick == [T \in SUBSET S |-> Max(T)]
           F == [p \in S \X Y |-> IF p[1] \in places THEN Append(p[2], s[p[1]]) ELSE p[2]]
           it == CHOOSE g : g = [T \in SUBSET (DOMAIN ids) |-> IF T = {} THEN <<>>
                   ELSE IF ids[Max(T)] \in places THEN Append(g[T \ {Max(T)}], s[ids[Max(T)]])
                        ELSE g[T \ {Max(T)}]]
<1>1. Those(s, places) = it[DOMAIN ids]
  BY DEF Those, FoldLeftDomain, FoldLeft, MapThenFoldSet
<1>2. DOMAIN ids = S /\ \A i \in S : ids[i] = i
  BY Ids
<1>3. IsFiniteSet(S)
  BY FS_Interval
<1>4. \A T \in SUBSET S : T # {} => Max(T) \in T /\ pick[T] = Max(T)
  <2> SUFFICES ASSUME NEW T \in SUBSET S, T # {} PROVE Max(T) \in T
    OBVIOUS
  <2>1. IsFiniteSet(T)
    <3> HIDE DEF S
    <3> QED BY <1>3, FS_Subset
  <2>2. T \subseteq Int
    OBVIOUS
  <2> HIDE DEF S
  <2> QED BY <2>1, <2>2, MaxIs
<1>5. \A i \in S, y \in Y : /\ F[<<i, y>>] = IF i \in places THEN Append(y, s[i]) ELSE y
                            /\ F[<<i, y>>] \in Y
  <2> TAKE i \in S, y \in Y
  <2>1. F[<<i, y>>] = IF i \in places THEN Append(y, s[i]) ELSE y
    OBVIOUS
  <2>2. i \in places => s[i] \in X
    OBVIOUS
  <2>3. i \in places => Append(y, s[i]) \in Y
    <3> HIDE DEF X
    <3> QED BY <2>2
  <2> QED BY <2>1, <2>3
<1>6. PICK g \in [SUBSET S -> Y] : Folds(g, S, <<>>, pick, F)
  <2>1. <<>> \in Y
    <3> HIDE DEF X
    <3> QED OBVIOUS
  <2>2. \A T \in SUBSET S : T # {} => pick[T] \in T
    <3> HIDE DEF S
    <3> QED BY <1>4
  <2> HIDE DEF Y, pick, F, S
  <2> QED BY <1>3, <1>5, <2>1, <2>2, FoldExists
<1>7. g = [T \in SUBSET (DOMAIN ids) |-> IF T = {} THEN <<>>
                   ELSE IF ids[Max(T)] \in places THEN Append(g[T \ {Max(T)}], s[ids[Max(T)]])
                        ELSE g[T \ {Max(T)}]]
  <2>1. ASSUME NEW T \in SUBSET S, T # {}
        PROVE  g[T] = IF Max(T) \in places THEN Append(g[T \ {Max(T)}], s[Max(T)])
                        ELSE g[T \ {Max(T)}]
    <3>1. Max(T) \in S /\ T \ {Max(T)} \in SUBSET S /\ pick[T] = Max(T)
      BY <1>4, <2>1
    <3>2. g[T] = F[<<Max(T), g[T \ {Max(T)}]>>]
      <4> HIDE DEF pick, F, Y
      <4> QED BY <1>6, <2>1, <3>1 DEF Folds
    <3>3. g[T \ {Max(T)}] \in Y
      <4> HIDE DEF pick, F, Y
      <4> QED BY <1>6, <3>1
    <3> HIDE DEF F, Y, pick
    <3> QED BY <1>5, <3>1, <3>2, <3>3
  <2>2. g[{}] = <<>>
    <3> HIDE DEF pick, F, Y
    <3> QED BY <1>6 DEF Folds
  <2>3. ASSUME NEW T \in SUBSET S
        PROVE  g[T] = IF T = {} THEN <<>>
                   ELSE IF ids[Max(T)] \in places THEN Append(g[T \ {Max(T)}], s[ids[Max(T)]])
                        ELSE g[T \ {Max(T)}]
    <3>1. T # {} => Max(T) \in S /\ ids[Max(T)] = Max(T)
      BY <1>2, <1>4
    <3> HIDE DEF ids, pick, Y, F
    <3> QED BY <2>1, <2>2, <3>1
  <2> HIDE DEF ids, pick, F, Y
  <2> QED BY <1>2, <1>6, <2>3
<1>8. it = [T \in SUBSET (DOMAIN ids) |-> IF T = {} THEN <<>>
                   ELSE IF ids[Max(T)] \in places THEN Append(it[T \ {Max(T)}], s[ids[Max(T)]])
                        ELSE it[T \ {Max(T)}]]
  <2> HIDE DEF ids, S, Y, pick, F
  <2> QED BY <1>7
<1> HIDE DEF it
<1>9. it[{}] = <<>> /\ \A T \in SUBSET S : T # {} =>
        it[T] = IF Max(T) \in places THEN Append(it[T \ {Max(T)}], s[Max(T)])
                        ELSE it[T \ {Max(T)}]
  <2>1. \A T \in SUBSET S : T # {} => Max(T) \in S /\ ids[Max(T)] = Max(T)
    BY <1>2, <1>4
  <2> HIDE DEF ids, S
  <2>2. it = [T \in SUBSET S |-> IF T = {} THEN <<>>
                ELSE IF ids[Max(T)] \in places THEN Append(it[T \ {Max(T)}], s[ids[Max(T)]])
                     ELSE it[T \ {Max(T)}]]
    BY <1>2, <1>8
  <2>3. it[{}] = <<>>
    BY <2>2
  <2>4. ASSUME NEW T \in SUBSET S, T # {}
        PROVE  it[T] = IF Max(T) \in places THEN Append(it[T \ {Max(T)}], s[Max(T)])
                        ELSE it[T \ {Max(T)}]
    BY <2>1, <2>2, <2>4
  <2> QED BY <2>3, <2>4
<1>10. Keeps(it, s, S, places)
  BY <1>9 DEF Keeps
<1>11. Those(s, places) = it[S]
  BY <1>1, <1>2
<1> QED BY <1>10, <1>11

\* Those keeps members of a sequence, from the places asked for.
LEMMA ThoseIs ==
  ASSUME NEW s, NEW n \in Nat, DOMAIN s = 1 .. n, NEW places
  PROVE  Those(s, places) \in Seq({s[i] : i \in {j \in 1 .. n : j \in places}})
<1> DEFINE S == 1 .. n
           X == {s[i] : i \in {j \in 1 .. n : j \in places}}
           Y == Seq(X)
<1>1. PICK it : Those(s, places) = it[S] /\ Keeps(it, s, S, places)
  <2> HIDE DEF X
  <2> QED BY ThoseFold
<1>2. ASSUME NEW i \in S, NEW y \in Y, i \in places PROVE Append(y, s[i]) \in Y
  <2>1. s[i] \in X
    BY <1>2
  <2> HIDE DEF X
  <2> QED BY <2>1
<1>3. <<>> \in Y
  <2> HIDE DEF X
  <2> QED OBVIOUS
<1> HIDE DEF X, Y
<1>4. \A T \in SUBSET S : it[T] \in Y
  <2> DEFINE Good == {T \in SUBSET S : it[T] \in Y}
  <2>1. {} \in Good
    BY <1>1, <1>3 DEF Keeps
  <2>2. ASSUME NEW T \in SUBSET S, T # {}, \A x \in T : T \ {x} \in Good PROVE T \in Good
    <3>1. Max(T) \in T /\ Max(T) \in S
      BY <2>2, LastPlace
    <3>2. it[T \ {Max(T)}] \in Y
      BY <2>2, <3>1
    <3>3. it[T] = IF Max(T) \in places THEN Append(it[T \ {Max(T)}], s[Max(T)])
                  ELSE it[T \ {Max(T)}]
      BY <1>1, <2>2 DEF Keeps
    <3> HIDE DEF S
    <3>4. it[T] \in Y
      BY <1>2, <3>1, <3>2, <3>3
    <3> QED BY <3>4
  <2>3. \A T \in SUBSET S : T # {} /\ (\A x \in T : T \ {x} \in Good) => T \in Good
    BY <2>2
  <2>4. IsFiniteSet(S)
    BY FS_Interval
  <2> HIDE DEF Good, S
  <2>5. \A T \in SUBSET S : T \in Good
    BY <2>1, <2>3, <2>4, SubsetInduction
  <2> QED BY <2>5 DEF Good
<1> QED BY <1>1, <1>4 DEF X, Y

\* Members of a sequence of X are of X, and come from the places.
LEMMA ThoseOf ==
  ASSUME NEW X, NEW s \in Seq(X), NEW places
  PROVE  /\ Those(s, places) \in Seq(X)
         /\ \A n \in DOMAIN Those(s, places) :
              \E i \in DOMAIN s : i \in places /\ Those(s, places)[n] = s[i]
<1> DEFINE kept == Those(s, places)
           Z == {s[i] : i \in {j \in 1 .. Len(s) : j \in places}}
<1>1. kept \in Seq(Z)
  BY ThoseIs
<1>2. Z \subseteq X /\ \A z \in Z : \E i \in DOMAIN s : i \in places /\ z = s[i]
  OBVIOUS
<1> HIDE DEF kept, Z
<1>3. kept \in Seq(X) /\ \A n \in DOMAIN kept : kept[n] \in Z
  BY <1>1, <1>2
<1>4. \A n \in DOMAIN kept : \E i \in DOMAIN s : i \in places /\ kept[n] = s[i]
  BY <1>2, <1>3
<1> QED BY <1>3, <1>4 DEF kept

\* it has what each part of the first n rules makes of base, the last of them
\* last.
Gives(it, base, rules, n) ==
  /\ it[{}] = base
  /\ \A T \in SUBSET (1 .. n) : T # {} =>
       Max(T) \in T /\ it[T] = ApplyBundle(it[T \ {Max(T)}], rules[Max(T)])

\* A list of offers is applied one after the other.
LEMMA BundlesFold ==
  ASSUME NEW n \in Nat, NEW rules, DOMAIN rules = 1 .. n, NEW Y, NEW base \in Y,
         \A y \in Y, i \in 1 .. n : ApplyBundle(y, rules[i]) \in Y
  PROVE  \E it : FoldLeft(ApplyBundle, base, rules) = it[1 .. n] /\ Gives(it, base, rules, n)
<1> DEFINE S == 1 .. n
           pick == [T \in SUBSET S |-> Max(T)]
           F == [p \in S \X Y |-> ApplyBundle(p[2], rules[p[1]])]
           it == CHOOSE g : g = [T \in SUBSET (DOMAIN rules) |-> IF T = {} THEN base
                   ELSE ApplyBundle(g[T \ {Max(T)}], rules[Max(T)])]
<1>1. FoldLeft(ApplyBundle, base, rules) = it[DOMAIN rules]
  BY DEF FoldLeft, MapThenFoldSet
<1>3. IsFiniteSet(S)
  BY FS_Interval
<1>4. \A T \in SUBSET S : T # {} => Max(T) \in T /\ Max(T) \in S /\ pick[T] = Max(T)
  <2> SUFFICES ASSUME NEW T \in SUBSET S, T # {} PROVE Max(T) \in T
    OBVIOUS
  <2>1. IsFiniteSet(T)
    <3> HIDE DEF S
    <3> QED BY <1>3, FS_Subset
  <2>2. T \subseteq Int
    OBVIOUS
  <2> HIDE DEF S
  <2> QED BY <2>1, <2>2, MaxIs
<1>5. \A i \in S, y \in Y : F[<<i, y>>] = ApplyBundle(y, rules[i]) /\ F[<<i, y>>] \in Y
  OBVIOUS
<1>6. PICK g \in [SUBSET S -> Y] : Folds(g, S, base, pick, F)
  <2>2. \A T \in SUBSET S : T # {} => pick[T] \in T
    <3> HIDE DEF S, pick
    <3> QED BY <1>4
  <2> HIDE DEF pick, F, S
  <2> QED BY <1>3, <1>5, <2>2, FoldExists
<1> HIDE DEF F
<1>7. g = [T \in SUBSET (DOMAIN rules) |-> IF T = {} THEN base
                   ELSE ApplyBundle(g[T \ {Max(T)}], rules[Max(T)])]
  <2>1. ASSUME NEW T \in SUBSET S, T # {}
        PROVE  g[T] = ApplyBundle(g[T \ {Max(T)}], rules[Max(T)])
    <3>1. Max(T) \in S /\ T \ {Max(T)} \in SUBSET S /\ pick[T] = Max(T)
      BY <1>4, <2>1
    <3> HIDE DEF pick, S
    <3>2. g[T] = F[<<Max(T), g[T \ {Max(T)}]>>]
      BY <1>6, <2>1, <3>1 DEF Folds
    <3>3. g[T \ {Max(T)}] \in Y
      BY <1>6, <3>1
    <3> QED BY <1>5, <3>1, <3>2, <3>3
  <2>2. g[{}] = base
    <3> HIDE DEF pick, S
    <3> QED BY <1>6 DEF Folds
  <2>3. ASSUME NEW T \in SUBSET S
        PROVE  g[T] = IF T = {} THEN base
                   ELSE ApplyBundle(g[T \ {Max(T)}], rules[Max(T)])
    BY <2>1, <2>2
  <2>4. DOMAIN rules = S
    OBVIOUS
  <2> HIDE DEF pick, S
  <2> QED BY <1>6, <2>3, <2>4
<1>8. it = [T \in SUBSET (DOMAIN rules) |-> IF T = {} THEN base
                   ELSE ApplyBundle(it[T \ {Max(T)}], rules[Max(T)])]
  <2> HIDE DEF S, pick
  <2> QED BY <1>7
<1> HIDE DEF it
<1>9. it[{}] = base /\ \A T \in SUBSET S : T # {} =>
        it[T] = ApplyBundle(it[T \ {Max(T)}], rules[Max(T)])
  BY <1>8
<1>10. FoldLeft(ApplyBundle, base, rules) = it[S]
  BY <1>1
<1>11. Gives(it, base, rules, n)
  BY <1>4, <1>9 DEF Gives
<1> QED BY <1>10, <1>11

\* What each offer keeps, a list of offers keeps.
LEMMA FoldBundles ==
  ASSUME NEW n \in Nat, NEW rules, DOMAIN rules = 1 .. n, NEW Y, NEW base \in Y,
         \A y \in Y, i \in 1 .. n : ApplyBundle(y, rules[i]) \in Y
  PROVE  FoldLeft(ApplyBundle, base, rules) \in Y
<1>1. PICK it : FoldLeft(ApplyBundle, base, rules) = it[1 .. n] /\ Gives(it, base, rules, n)
  BY BundlesFold
<1> DEFINE S == 1 .. n
           Good == {T \in SUBSET S : it[T] \in Y}
<1>2. {} \in Good
  BY <1>1 DEF Gives
<1>3. ASSUME NEW T \in SUBSET S, T # {}, \A x \in T : T \ {x} \in Good PROVE T \in Good
  <2>1. Max(T) \in T /\ it[T] = ApplyBundle(it[T \ {Max(T)}], rules[Max(T)])
    BY <1>1, <1>3 DEF Gives
  <2>2. it[T \ {Max(T)}] \in Y
    BY <1>3, <2>1
  <2>3. ApplyBundle(it[T \ {Max(T)}], rules[Max(T)]) \in Y
    BY <2>1, <2>2
  <2> QED BY <2>1, <2>3
<1>4. \A T \in SUBSET S : T # {} /\ (\A x \in T : T \ {x} \in Good) => T \in Good
  BY <1>3
<1>5. IsFiniteSet(S)
  BY FS_Interval
<1> HIDE DEF Good, S
<1>6. \A T \in SUBSET S : T \in Good
  BY <1>2, <1>4, <1>5, SubsetInduction
<1> QED BY <1>1, <1>6 DEF Good, S

\* Those at every place is the sequence itself.
LEMMA ThoseAll ==
  ASSUME NEW s, NEW n \in Nat, DOMAIN s = 1 .. n, NEW places, 1 .. n \subseteq places
  PROVE  /\ DOMAIN Those(s, places) = 1 .. n
         /\ \A i \in 1 .. n : Those(s, places)[i] = s[i]
<1> DEFINE S == 1 .. n
           Same(t, m) == /\ t \in Seq({s[i] : i \in S}) /\ Len(t) = m
                         /\ \A i \in 1 .. m : t[i] = s[i]
<1>1. PICK it : Those(s, places) = it[S] /\ Keeps(it, s, S, places)
  BY ThoseFold
<1> DEFINE Good == {m \in Nat : m <= n => Same(it[1 .. m], m)}
<1>2. 0 \in Good
  <2>1. 1 .. 0 = {} /\ it[{}] = <<>>
    BY <1>1 DEF Keeps
  <2>2. Same(<<>>, 0)
    OBVIOUS
  <2> HIDE DEF Same
  <2> QED BY <2>1, <2>2
<1>3. ASSUME NEW m \in Nat, m \in Good PROVE m + 1 \in Good
  <2> SUFFICES ASSUME m + 1 <= n PROVE Same(it[1 .. m + 1], m + 1)
    BY <1>3
  <2> DEFINE T == 1 .. m + 1
  <2>1. T \in SUBSET S /\ T # {} /\ m + 1 \in T /\ T \ {m + 1} = 1 .. m
    OBVIOUS
  <2>2. Max(T) = m + 1
    <3>1. Max(T) \in T /\ \A x \in T : Max(T) >= x
      BY <2>1, LastPlace
    <3> QED BY <2>1, <3>1
  <2>3. it[T] = Append(it[1 .. m], s[m + 1])
    <3>1. m + 1 \in places
      BY <2>1
    <3> HIDE DEF T, S
    <3> QED BY <1>1, <2>1, <2>2, <3>1 DEF Keeps
  <2>4. Same(it[1 .. m], m)
    BY <1>3
  <2>5. m + 1 \in S
    BY <2>1
  <2> HIDE DEF T
  <2>6. \A t : Same(t, m) => Same(Append(t, s[m + 1]), m + 1)
    <3> TAKE t
    <3> HAVE Same(t, m)
    <3> DEFINE X == {s[i] : i \in S}
    <3>1. s[m + 1] \in X
      BY <2>5
    <3>2. t \in Seq(X) /\ Len(t) = m /\ \A i \in 1 .. m : t[i] = s[i]
      OBVIOUS
    <3> HIDE DEF X
    <3>3. /\ Append(t, s[m + 1]) \in Seq(X) /\ Len(Append(t, s[m + 1])) = m + 1
          /\ \A i \in 1 .. m + 1 : Append(t, s[m + 1])[i] = IF i <= m THEN t[i] ELSE s[m + 1]
      BY <3>1, <3>2
    <3>4. \A i \in 1 .. m + 1 : Append(t, s[m + 1])[i] = s[i]
      BY <3>2, <3>3
    <3> QED BY <3>3, <3>4 DEF X
  <2> HIDE DEF Same
  <2> QED BY <2>3, <2>4, <2>6 DEF T
<1>4. \A m \in Nat : m \in Good
  <2>1. \A m \in Nat : m \in Good => m + 1 \in Good
    BY <1>3
  <2> HIDE DEF Good
  <2> QED BY <1>2, <2>1, NatSets
<1>5. Same(it[S], n)
  <2>1. n \in Good
    BY <1>4
  <2> HIDE DEF Same
  <2> QED BY <2>1
<1> QED BY <1>1, <1>5

\* Nothing that is asked for is left out.
LEMMA ThoseKeep ==
  ASSUME NEW s, NEW n \in Nat, DOMAIN s = 1 .. n, NEW places,
         NEW i \in 1 .. n, i \in places
  PROVE  \E m \in DOMAIN Those(s, places) : Those(s, places)[m] = s[i]
<1> DEFINE S == 1 .. n
           X == {s[j] : j \in S}
           Has(t) == t \in Seq(X) /\ \E m \in DOMAIN t : t[m] = s[i]
<1>1. PICK it : Those(s, places) = it[S] /\ Keeps(it, s, S, places)
  <2> HIDE DEF X
  <2> QED BY ThoseFold
<1>2. \A t, x : t \in Seq(X) /\ x \in X =>
        /\ Append(t, x) \in Seq(X)
        /\ (x = s[i] \/ Has(t)) => Has(Append(t, x))
  <2> HIDE DEF X, S
  <2> TAKE t, x
  <2> HAVE t \in Seq(X) /\ x \in X
  <2>1. /\ Append(t, x) \in Seq(X) /\ Len(t) + 1 \in DOMAIN Append(t, x)
        /\ Append(t, x)[Len(t) + 1] = x
        /\ \A m \in DOMAIN t : m \in DOMAIN Append(t, x) /\ Append(t, x)[m] = t[m]
    OBVIOUS
  <2> QED BY <2>1
<1>3. <<>> \in Seq(X) /\ \A j \in S : s[j] \in X
  <2>1. \A j \in S : s[j] \in X
    OBVIOUS
  <2> HIDE DEF X
  <2> QED BY <2>1
<1> HIDE DEF X, Has
<1>4. \A T \in SUBSET S : it[T] \in Seq(X) /\ (i \in T => Has(it[T]))
  <2> DEFINE Good == {T \in SUBSET S : it[T] \in Seq(X) /\ (i \in T => Has(it[T]))}
  <2>1. {} \in Good
    BY <1>1, <1>3 DEF Keeps
  <2>2. ASSUME NEW T \in SUBSET S, T # {}, \A x \in T : T \ {x} \in Good PROVE T \in Good
    <3>1. Max(T) \in T /\ Max(T) \in S
      BY <2>2, LastPlace
    <3>2. /\ it[T \ {Max(T)}] \in Seq(X)
          /\ i \in T /\ i # Max(T) => Has(it[T \ {Max(T)}])
      BY <2>2, <3>1
    <3>3. it[T] = IF Max(T) \in places THEN Append(it[T \ {Max(T)}], s[Max(T)])
                  ELSE it[T \ {Max(T)}]
      BY <1>1, <2>2 DEF Keeps
    <3> HIDE DEF S
    <3>4. it[T] \in Seq(X)
      BY <1>2, <1>3, <3>1, <3>2, <3>3
    <3>5. i \in T => Has(it[T])
      <4>1. CASE i = Max(T)
        BY <1>2, <1>3, <3>1, <3>2, <3>3, <4>1
      <4>2. CASE i # Max(T)
        BY <1>2, <1>3, <3>1, <3>2, <3>3, <4>2
      <4> QED BY <4>1, <4>2
    <3> QED BY <3>4, <3>5
  <2>3. \A T \in SUBSET S : T # {} /\ (\A x \in T : T \ {x} \in Good) => T \in Good
    BY <2>2
  <2>4. IsFiniteSet(S)
    BY FS_Interval
  <2> HIDE DEF Good, S
  <2>5. \A T \in SUBSET S : T \in Good
    BY <2>1, <2>3, <2>4, SubsetInduction
  <2> QED BY <2>5 DEF Good
<1>5. Has(it[S])
  BY <1>4
<1> QED BY <1>1, <1>5 DEF Has

\* Who comes before i, by what each is worth and then by place.
Ahead(worth, n, i) ==
  {j \in 1 .. n : worth[j] > worth[i] \/ (worth[j] = worth[i] /\ j < i)}

\* Each of n has a rank of its own, and every rank is taken.
LEMMA Ranks ==
  ASSUME NEW n \in Nat, NEW worth, \A i \in 1 .. n : worth[i] \in Nat
  PROVE  /\ \A i \in 1 .. n : Cardinality(Ahead(worth, n, i)) \in 0 .. n - 1
         /\ \A m \in 0 .. n - 1 : \E i \in 1 .. n : Cardinality(Ahead(worth, n, i)) = m
         /\ \A i, j \in 1 .. n :
              \/ i = j
              \/ Cardinality(Ahead(worth, n, i)) < Cardinality(Ahead(worth, n, j))
                   /\ worth[j] <= worth[i]
              \/ Cardinality(Ahead(worth, n, j)) < Cardinality(Ahead(worth, n, i))
                   /\ worth[i] <= worth[j]
<1> DEFINE S == 1 .. n
           A(i) == Ahead(worth, n, i)
           R == [i \in S |-> Cardinality(A(i))]
<1>1. IsFiniteSet(S) /\ Cardinality(S) = n
  BY FS_Interval
<1>2. \A T \in SUBSET S : IsFiniteSet(T) /\ Cardinality(T) \in Nat
  BY <1>1, FS_Subset, FS_CardinalityType
<1>3. \A i, j \in S :
        worth[j] > worth[i] \/ (worth[j] = worth[i] /\ j < i) =>
          Cardinality(A(j)) < Cardinality(A(i)) /\ worth[i] <= worth[j]
  <2> SUFFICES ASSUME NEW i \in S, NEW j \in S,
                      worth[j] > worth[i] \/ (worth[j] = worth[i] /\ j < i)
               PROVE  Cardinality(A(j)) < Cardinality(A(i)) /\ worth[i] <= worth[j]
    OBVIOUS
  <2>1. A(j) \subseteq A(i) /\ j \in A(i) /\ j \notin A(j) /\ A(i) \in SUBSET S
    BY DEF Ahead
  <2>2. Cardinality(A(j)) <= Cardinality(A(i)) /\ Cardinality(A(i)) # Cardinality(A(j))
    <3> DEFINE U == A(i)
               V == A(j)
    <3>1. IsFiniteSet(U) /\ V \in SUBSET U /\ U # V
      BY <1>2, <2>1
    <3> HIDE DEF U, V
    <3>2. Cardinality(V) <= Cardinality(U) /\ Cardinality(U) # Cardinality(V)
      BY <3>1, FS_Subset
    <3> QED BY <3>2 DEF U, V
  <2>3. Cardinality(A(i)) \in Nat /\ Cardinality(A(j)) \in Nat
    BY <1>2, <2>1
  <2>4. worth[i] <= worth[j]
    OBVIOUS
  <2> QED BY <2>2, <2>3, <2>4
<1>4. \A i, j \in S : \/ i = j
                      \/ Cardinality(A(i)) < Cardinality(A(j)) /\ worth[j] <= worth[i]
                      \/ Cardinality(A(j)) < Cardinality(A(i)) /\ worth[i] <= worth[j]
  <2> SUFFICES ASSUME NEW i \in S, NEW j \in S, i # j
               PROVE  \/ worth[j] > worth[i] \/ (worth[j] = worth[i] /\ j < i)
                      \/ worth[i] > worth[j] \/ (worth[i] = worth[j] /\ i < j)
    BY <1>3
  <2> QED OBVIOUS
<1>5. \A i \in S : Cardinality(A(i)) \in 0 .. n - 1
  <2> TAKE i \in S
  <2> DEFINE U == A(i)
  <2>1. U \in SUBSET S /\ U # S
    BY DEF Ahead
  <2> HIDE DEF U, S
  <2>2. Cardinality(U) <= Cardinality(S) /\ Cardinality(U) # Cardinality(S) /\ Cardinality(U) \in Nat
    BY <1>1, <1>2, <2>1, FS_Subset
  <2> QED BY <1>1, <2>2 DEF U
<1>6. \A m \in 0 .. n - 1 : \E i \in S : Cardinality(A(i)) = m
  <2> DEFINE T == 0 .. n - 1
  <2>1. IsFiniteSet(T) /\ Cardinality(T) = n
    BY FS_Interval
  <2>2. R \in [S -> T] /\ \A i, j \in S : R[i] = R[j] => i = j
    BY <1>2, <1>4, <1>5
  <2>3. R \in Injection(S, T)
    BY <2>2 DEF Injection, IsInjective
  <2> HIDE DEF R, S, T
  <2>4. R \in Surjection(S, T)
    BY <1>1, <2>1, <2>3, FS_Injection
  <2> QED BY <2>4 DEF Surjection, R, T
<1> QED BY <1>4, <1>5, <1>6

-----------------------------------------------------------------------------
(* Charges.                                                                 *)

\* A function on 1 .. n is a sequence.
LEMMA SequenceOf ==
  ASSUME NEW X, NEW n \in Nat, NEW f \in [1 .. n -> X]
  PROVE  f \in Seq(X) /\ Len(f) = n /\ DOMAIN f = 1 .. n
  OBVIOUS

\* A sum of natural numbers is one, and no term is above it.
LEMMA SumType ==
  ASSUME NEW f, IsFiniteSet(DOMAIN f), \A x \in DOMAIN f : f[x] \in Nat
  PROVE  SumFunction(f) \in Nat /\ \A x \in DOMAIN f : f[x] <= SumFunction(f)
  BY SumNat, SumTerm DEF SumFunction

\* The places of a sequence are finitely many.
LEMMA Places ==
  ASSUME NEW X, NEW s \in Seq(X)
  PROVE  /\ Len(s) \in Nat /\ DOMAIN s = 1 .. Len(s) /\ IsFiniteSet(DOMAIN s)
         /\ \A i \in DOMAIN s : i \in Nat \ {0} /\ s[i] \in X
<1>1. Len(s) \in Nat /\ DOMAIN s = 1 .. Len(s)
  OBVIOUS
<1>2. IsFiniteSet(1 .. Len(s))
  BY <1>1, FS_Interval
<1> QED BY <1>1, <1>2

\* Math.max(0, x) is a natural number.
LEMMA NonNegativeType ==
  ASSUME NEW x PROVE NonNegative(x) \in Nat
  BY DEF NonNegative

\* Math.max(0, x) leaves natural numbers as they are.
LEMMA NonNegativeIs ==
  ASSUME NEW x \in Nat PROVE NonNegative(x) = x
  BY DEF NonNegative

\* A rounded quotient of natural numbers is one.
LEMMA RoundDivType ==
  ASSUME NEW a \in Nat, NEW b \in Nat \ {0}
  PROVE  RoundDiv(a, b) \in Nat
<1>1. 2 * a + b \in Nat /\ 2 * b \in Nat \ {0}
  OBVIOUS
<1> DEFINE x == 2 * a + b
           y == 2 * b
<1> HIDE DEF x, y
<1>2. x \div y \in Nat
  <2>1. x \in Nat /\ y \in Nat \ {0}
    BY <1>1 DEF x, y
  <2> QED BY <2>1, Quotient
<1> QED BY <1>2 DEF RoundDiv, x, y

\* Whole multiples of the divisor pass through a rounded division.
LEMMA RoundDivPlus ==
  ASSUME NEW a \in Nat, NEW b \in Nat \ {0}, NEW n \in Int
  PROVE  RoundDiv(a + b * n, b) = RoundDiv(a, b) + n
<1> DEFINE x == 2 * a + b
           y == 2 * b
<1>1. x \in Nat /\ y \in Nat \ {0}
  OBVIOUS
<1>2. 2 * (a + b * n) + b = x + y * n
  <2>1. b * n \in Int /\ (2 * b) * n = 2 * (b * n)
    OBVIOUS
  <2> QED BY <2>1
<1> HIDE DEF x, y
<1>3. (x + y * n) \div y = x \div y + n
  <2>1. x \in Int /\ y \in Nat \ {0}
    BY <1>1
  <2> QED BY <2>1, QuotientPlus, Zenon
<1>4. RoundDiv(a, b) = x \div y
  BY DEF RoundDiv, x, y
<1>5. RoundDiv(a + b * n, b) = (x + y * n) \div y
  BY <1>2 DEF RoundDiv, y
<1> QED BY <1>3, <1>4, <1>5

\* A unit has ticks.
LEMMA TicksType == Ticks \in Nat \ {0}
  BY PriceRulesAssumption

\* A charge is a natural number.
LEMMA ChargeType ==
  ASSUME NEW unit \in Nat, NEW t \in Nat
  PROVE  Charge(unit, t) \in Nat
<1>1. unit * t \in Nat
  OBVIOUS
<1> QED BY <1>1, TicksType, RoundDivType DEF Charge

\* What costs nothing is charged nothing.
LEMMA ChargeNothing ==
  ASSUME NEW t \in Nat
  PROVE  Charge(0, t) = 0
<1>1. 0 * t = 0 /\ 2 * Ticks \in Nat \ {0} /\ 2 * 0 + Ticks = Ticks
  BY TicksType
<1>2. Ticks \div (2 * Ticks) = 0
  <2> DEFINE y == 2 * Ticks
  <2>1. y * 0 <= Ticks /\ Ticks < y * (0 + 1) /\ y \in Nat \ {0}
    BY TicksType
  <2> HIDE DEF y
  <2> QED BY <2>1, TicksType, QuotientIs DEF y
<1> QED BY <1>1, <1>2 DEF Charge, RoundDiv

\* Whole units are charged at the price of a unit, whatever the rest is.
LEMMA ChargePlus ==
  ASSUME NEW unit \in Nat, NEW t \in Nat, NEW n \in Int
  PROVE  unit * (t + n * Ticks) = unit * t + Ticks * (unit * n)
         /\ Charge(unit, t + n * Ticks) = Charge(unit, t) + unit * n
<1>1. unit * (t + n * Ticks) = unit * t + Ticks * (unit * n)
  <2>1. n * Ticks \in Int /\ unit * (t + n * Ticks) = unit * t + unit * (n * Ticks)
    BY TicksType
  <2>2. unit * (n * Ticks) = Ticks * (unit * n)
    BY TicksType
  <2> QED BY <2>1, <2>2
<1>2. unit * t \in Nat /\ unit * n \in Int
  OBVIOUS
<1>3. RoundDiv(unit * t + Ticks * (unit * n), Ticks) = RoundDiv(unit * t, Ticks) + unit * n
  BY <1>2, TicksType, RoundDivPlus
<1> QED BY <1>1, <1>3 DEF Charge

\* Whole units, in ticks, are as many units.
LEMMA UnitsBack ==
  ASSUME NEW n \in Nat
  PROVE  n * Ticks \in Nat /\ (n * Ticks) \div Ticks = n
<1>1. n * Ticks \in Nat /\ Ticks * n <= n * Ticks /\ n * Ticks < Ticks * (n + 1)
  BY TicksType
<1> QED BY <1>1, TicksType, QuotientIs

-----------------------------------------------------------------------------
(* Sales and lines.                                                         *)

\* An image of a finite set is finite.
LEMMA ImageFinite ==
  ASSUME NEW S, IsFiniteSet(S), NEW f
  PROVE  IsFiniteSet({f[x] : x \in S})
<1> DEFINE Good == {T \in SUBSET S : IsFiniteSet({f[x] : x \in T})}
<1>1. {} \in Good
  <2>1. {f[x] : x \in {}} = {}
    OBVIOUS
  <2> QED BY <2>1, FS_EmptySet
<1>2. ASSUME NEW T \in SUBSET S, T # {}, \A x \in T : T \ {x} \in Good PROVE T \in Good
  <2>1. PICK x \in T : TRUE
    BY <1>2
  <2>2. IsFiniteSet({f[y] : y \in T \ {x}})
    BY <1>2
  <2>3. {f[y] : y \in T} = {f[y] : y \in T \ {x}} \cup {f[x]}
    OBVIOUS
  <2>4. IsFiniteSet({f[y] : y \in T \ {x}} \cup {f[x]})
    BY <2>2, FS_AddElement
  <2>5. IsFiniteSet({f[y] : y \in T})
    BY <2>3, <2>4
  <2> QED BY <2>5
<1>3. \A T \in SUBSET S : T # {} /\ (\A x \in T : T \ {x} \in Good) => T \in Good
  BY <1>2
<1>4. \A T \in SUBSET S : T \in Good
  <2> HIDE DEF Good
  <2> QED BY <1>1, <1>3, SubsetInduction
<1> QED BY <1>4

\* The sale that wins is one of the sales: their order is total.
LEMMA WinningSaleIs ==
  ASSUME NEW s \in Shops, NEW sales \in SUBSET ToSet(s.overlays), NEW default,
         NEW product, \A o \in sales : o.product = product,
         IsFiniteSet(sales), sales # {}
  PROVE  WinningSale(sales, default) \in sales
<1> DEFINE mode == OverlapMode(sales, default)
           R == {p \in sales \X sales : SaleBefore(p[1], p[2], mode)}
<1>1. \A o \in sales : /\ o.campaign \in Nat /\ o.price \in Nat
                       /\ o.priority \in Int /\ o.created \in Int
  BY ShopsAssumption, PriceRulesAssumption
<1>2. \A x, y \in sales : x # y => x.campaign # y.campaign
  BY ShopsAssumption
<1>3. \A x, y \in sales : <<x, y>> \in R <=> SaleBefore(x, y, mode)
  OBVIOUS
<1> HIDE DEF mode, R
<1>4. \A x, y \in sales : x # y => SaleBefore(x, y, mode) \/ SaleBefore(y, x, mode)
  BY <1>1, <1>2 DEF SaleBefore
<1>5. \A x, y, z \in sales :
        SaleBefore(x, y, mode) /\ SaleBefore(y, z, mode) => SaleBefore(x, z, mode)
  BY <1>1 DEF SaleBefore
<1>6. \E x \in sales : \A y \in sales \ {x} : <<x, y>> \in R
  BY <1>3, <1>4, <1>5, LeastExists
<1>7. \E x \in sales : \A y \in sales \ {x} : SaleBefore(x, y, mode)
  BY <1>3, <1>6
<1> QED BY <1>7 DEF WinningSale, mode

IsSale(sale) ==
  sale = {} \/ \E price \in Nat, k \in Campaigns : sale = {[price |-> price, campaign |-> k]}

\* A product is in no sale or in one, at a price, of a campaign.
LEMMA SaleOfIs ==
  ASSUME NEW s \in Shops, NEW product, NEW default
  PROVE  IsSale(SaleOf(product, s.overlays, default))
<1> DEFINE all == s.overlays
           rows == {i \in DOMAIN all : all[i].product = product}
           sales == {all[i] : i \in rows}
           price == WinningSale(sales, default).price
           same == {i \in rows : all[i].price = price}
           first == Min(same)
<1> SUFFICES ASSUME rows # {}
             PROVE  price \in Nat /\ all[first].campaign \in Campaigns
  BY DEF SaleOf, IsSale
<1>1. /\ all \in Seq(ToSet(all)) /\ DOMAIN all \subseteq Int /\ IsFiniteSet(DOMAIN all)
      /\ \A o \in ToSet(all) : o.campaign \in Campaigns /\ o.price \in Nat
  <2>1. /\ all \in Seq(ToSet(all))
        /\ \A o \in ToSet(all) : o.campaign \in Campaigns /\ o.price \in Nat
    BY ShopsAssumption
  <2> HIDE DEF all
  <2> QED BY <2>1, Places
<1>2. IsFiniteSet(rows)
  BY <1>1, FS_Subset
<1>3. /\ sales \in SUBSET ToSet(all) /\ sales # {} /\ \A o \in sales : o.product = product
  BY DEF ToSet
<1>4. IsFiniteSet(sales)
  <2> HIDE DEF rows
  <2> QED BY <1>2, ImageFinite
<1>5. WinningSale(sales, default) \in sales
  <2> HIDE DEF sales
  <2> QED BY <1>3, <1>4, WinningSaleIs
<1>6. price \in Nat /\ \E i \in rows : all[i].price = price
  <2> HIDE DEF all
  <2> QED BY <1>1, <1>3, <1>5
<1> HIDE DEF price
<1>7. same # {} /\ same \subseteq Int /\ IsFiniteSet(same)
  <2>1. same \subseteq rows /\ same # {} /\ same \subseteq Int
    BY <1>1, <1>6
  <2> HIDE DEF same, rows
  <2> QED BY <1>2, <2>1, FS_Subset
<1>8. first \in same
  <2> HIDE DEF same
  <2> QED BY <1>7, MinIs
<1>9. first \in DOMAIN all
  BY <1>8
<1> QED BY <1>1, <1>6, <1>9 DEF ToSet

Whole(t) == \E n \in Nat : t = n * Ticks

\* The sale a line is in is of one campaign; what is not weighed is paid for
\* in whole units.
Lines ==
  {l \in [product : Products, category : {shop.shelf[p].category : p \in Products},
          unit : Nat, paid : Nat, free : Nat, campaigns : SUBSET Campaigns, sale : Nat] :
     /\ l.campaigns = {} => l.sale = 0
     /\ l.campaigns # {} => \E k \in Campaigns : l.campaigns = {k}
     /\ shop.shelf[l.product].weighed \/ Whole(l.paid)}

IsItem(x) ==
  /\ x.product \in Products /\ x.ticks \in Nat
  /\ x.weighed => shop.shelf[x.product].weighed

\* What is not weighed is sold in whole units.
LEMMA QuantityIs ==
  ASSUME NEW x, x.ticks \in Nat
  PROVE  Quantity(x) \in Nat /\ (x.weighed \/ Whole(Quantity(x)))
<1> DEFINE n == x.ticks \div Ticks
<1>1. n \in Nat
  BY TicksType, Quotient
<1> HIDE DEF n
<1>2. n * Ticks \in Nat
  BY <1>1, UnitsBack
<1>3. Quantity(x) = IF x.weighed THEN x.ticks ELSE n * Ticks
  BY DEF Quantity, n
<1> QED BY <1>1, <1>2, <1>3 DEF Whole

\* An item becomes a line, at the price of its sale if it is in one.
LEMMA PricedLineIs ==
  ASSUME shop \in Shops, NEW x, IsItem(x), NEW sale, IsSale(sale)
  PROVE  LET l == PricedLine(x, shop.shelf[x.product], sale)
         IN /\ l \in Lines /\ l.free = 0
            /\ sale = {} => l.campaigns = {} /\ l.sale = 0
            /\ [l EXCEPT !.campaigns = {}, !.sale = 0] \in Lines
            /\ [l EXCEPT !.campaigns = {}, !.sale = 0].free = 0
            /\ [l EXCEPT !.campaigns = {}, !.sale = 0].campaigns = {}
<1> DEFINE p == shop.shelf[x.product]
           q == Quantity(x)
           base == Baseline(p)
           unit == IF sale = {} THEN base ELSE (CHOOSE s \in sale : TRUE).price
           campaigns == {s.campaign : s \in sale}
           saved == Charge(NonNegative(base - unit), q)
           l == PricedLine(x, p, sale)
<1>1. base \in Nat
  <2>1. p.list \in Nat /\ p.offer \in Int
    BY ShopsAssumption DEF IsItem
  <2> QED BY <2>1 DEF Baseline
<1>2. unit \in Nat
  <2>1. CASE sale = {}
    BY <1>1, <2>1
  <2>2. CASE sale # {}
    <3>1. PICK price \in Nat, k \in Campaigns : sale = {[price |-> price, campaign |-> k]}
      BY <2>2 DEF IsSale
    <3> DEFINE the == CHOOSE s \in sale : TRUE
    <3>2. the = [price |-> price, campaign |-> k]
      BY <3>1
    <3>3. unit = the.price
      BY <2>2
    <3> HIDE DEF the, unit
    <3>4. unit = price
      BY <3>2, <3>3
    <3> QED BY <3>4
  <2> QED BY <2>1, <2>2
<1>3. campaigns \in SUBSET Campaigns
      /\ (sale = {} => campaigns = {})
      /\ (sale # {} => \E k \in Campaigns : campaigns = {k})
  <2>1. CASE sale = {}
    BY <2>1
  <2>2. CASE sale # {}
    <3>1. PICK price \in Nat, k \in Campaigns : sale = {[price |-> price, campaign |-> k]}
      BY <2>2 DEF IsSale
    <3>2. campaigns = {k}
      BY <3>1
    <3> QED BY <2>2, <3>2
  <2> QED BY <2>1, <2>2
<1>4. q \in Nat /\ (p.weighed \/ Whole(q))
  BY QuantityIs DEF IsItem
<1>5. saved \in Nat /\ (sale = {} => saved = 0)
  <2> HIDE DEF q, base, unit
  <2>1. NonNegative(base - unit) \in Nat
    BY NonNegativeType
  <2>2. saved \in Nat
    BY <1>4, <2>1, ChargeType
  <2>3. ASSUME sale = {} PROVE saved = 0
    <3>1. base - unit = 0
      BY <1>1, <2>3 DEF unit
    <3>2. NonNegative(base - unit) = 0
      BY <3>1 DEF NonNegative
    <3> QED BY <1>4, <3>2, ChargeNothing
  <2> QED BY <2>2, <2>3
<1>6. l = [product |-> x.product, category |-> p.category, unit |-> unit, paid |-> q,
           free |-> 0, campaigns |-> campaigns, sale |-> saved]
  BY DEF PricedLine
<1>7. x.product \in Products /\ p.category \in {shop.shelf[y].category : y \in Products}
  BY DEF IsItem
<1> HIDE DEF p, q, base, unit, campaigns, saved, l
<1>8. l \in [product : Products, category : {shop.shelf[y].category : y \in Products},
          unit : Nat, paid : Nat, free : Nat, campaigns : SUBSET Campaigns, sale : Nat]
  BY <1>2, <1>3, <1>4, <1>5, <1>6, <1>7
<1>9. l.product = x.product /\ l.paid = q /\ l.free = 0 /\ l.campaigns = campaigns /\ l.sale = saved
  BY <1>6
<1>10. l \in Lines
  <2>1. shop.shelf[l.product].weighed \/ Whole(l.paid)
    BY <1>4, <1>9 DEF p
  <2>2. l.campaigns = {} => l.sale = 0
    BY <1>3, <1>5, <1>9
  <2>3. l.campaigns # {} => \E k \in Campaigns : l.campaigns = {k}
    BY <1>3, <1>9
  <2> QED BY <1>8, <2>1, <2>2, <2>3 DEF Lines
<1>11. [l EXCEPT !.campaigns = {}, !.sale = 0] \in Lines
  BY <1>4, <1>8, <1>9 DEF Lines, p
<1>12. [l EXCEPT !.campaigns = {}, !.sale = 0].free = 0
       /\ [l EXCEPT !.campaigns = {}, !.sale = 0].campaigns = {}
  BY <1>6
<1> QED BY <1>3, <1>5, <1>9, <1>10, <1>11, <1>12 DEF l, p

Items(s) == \E n \in Nat : DOMAIN s = 1 .. n /\ \A i \in 1 .. n : IsItem(s[i])

\* A quantity of a basket is a natural number.
LEMMA QuantityOfType ==
  ASSUME shop \in Shops, NEW product
  PROVE  QuantityOf(shop.basket, product) \in Nat
<1> DEFINE f == [i \in DOMAIN shop.basket |->
                 IF shop.basket[i].product = product THEN shop.basket[i].ticks ELSE 0]
<1>1. IsFiniteSet(DOMAIN f) /\ \A i \in DOMAIN f : f[i] \in Nat
  <2>1. /\ shop.basket \in Seq(ToSet(shop.basket))
        /\ \A item \in ToSet(shop.basket) : item.ticks \in Nat
    BY ShopsAssumption
  <2>2. IsFiniteSet(DOMAIN shop.basket) /\ \A i \in DOMAIN shop.basket : shop.basket[i].ticks \in Nat
    BY <2>1, Places
  <2> QED BY <2>2
<1> HIDE DEF f
<1>2. SumFunction(f) \in Nat
  BY <1>1, SumType
<1> QED BY <1>2 DEF QuantityOf, f

\* Products of a basket become items.
LEMMA LinesForIs ==
  ASSUME shop \in Shops, NEW products \in Seq(Products)
  PROVE  Items(LinesFor(products, shop.basket, shop.shelf))
<1> DEFINE s == LinesFor(products, shop.basket, shop.shelf)
           n == Len(products)
<1>1. n \in Nat /\ DOMAIN s = 1 .. n
  BY DEF LinesFor
<1>2. ASSUME NEW i \in 1 .. n PROVE IsItem(s[i])
  <2>1. s[i] = [product |-> products[i],
                ticks   |-> QuantityOf(shop.basket, products[i]),
                weighed |-> shop.shelf[products[i]].weighed]
    BY <1>2 DEF LinesFor
  <2>2. products[i] \in Products /\ QuantityOf(shop.basket, products[i]) \in Nat
    BY <1>2, QuantityOfType
  <2> HIDE DEF s
  <2> QED BY <2>1, <2>2 DEF IsItem
<1> QED BY <1>1, <1>2 DEF Items

\* What a basket asks for are products.
LEMMA AskedForIs ==
  ASSUME shop \in Shops
  PROVE  AskedFor(shop.basket) \in Seq(Products)
<1> DEFINE products == [i \in DOMAIN shop.basket |-> shop.basket[i].product]
<1>1. products \in Seq(Products)
  <2>1. /\ shop.basket \in Seq(ToSet(shop.basket))
        /\ \A item \in ToSet(shop.basket) : item.product \in Products
    BY ShopsAssumption
  <2>2. /\ Len(shop.basket) \in Nat /\ DOMAIN shop.basket = 1 .. Len(shop.basket)
        /\ \A i \in DOMAIN shop.basket : shop.basket[i].product \in Products
    BY <2>1, Places
  <2>3. products \in [1 .. Len(shop.basket) -> Products]
    BY <2>2
  <2> HIDE DEF products
  <2> QED BY <2>2, <2>3, SequenceOf
<1> HIDE DEF products
<1>2. \A places : Those(products, places) \in Seq(Products)
  BY <1>1, ThoseOf
<1> QED BY <1>2 DEF AskedFor, products

\* The cart of a preview or a checkout is a list of items.
LEMMA CartIs ==
  ASSUME shop \in Shops, NEW c
  PROVE  Items(Cart(c))
<1>1. AskedFor(shop.basket) \in Seq(Products)
  BY AskedForIs
<1>2. \A places : Those(AskedFor(shop.basket), places) \in Seq(Products)
  BY <1>1, ThoseOf
<1>3. LiveProducts(AskedFor(shop.basket), shop.shelf) \in Seq(Products)
  BY <1>2 DEF LiveProducts
<1>4. Items(PreviewCart(shop.basket, shop.shelf))
  BY <1>3, LinesForIs DEF PreviewCart
<1>5. \A places : Those(ProductsById, places) \in Seq(Products)
  BY BasketsAssumption, ThoseOf
<1>6. Items(CheckoutCart(shop.basket, shop.shelf))
  BY <1>5, LinesForIs DEF CheckoutCart
<1> QED BY <1>4, <1>6 DEF Cart

\* Units of lines are counted by natural numbers.
LEMMA UnitsOfType ==
  ASSUME NEW lines \in Seq(Lines), NEW product
  PROVE  UnitsOf(lines, product) \in Nat /\ PaidOf(lines, product) \in Nat
<1> DEFINE f == [i \in DOMAIN lines |->
                 IF lines[i].product = product THEN lines[i].paid \div Ticks ELSE 0]
           g == [i \in DOMAIN lines |->
                 IF lines[i].product = product THEN lines[i].paid ELSE 0]
<1>1. IsFiniteSet(DOMAIN lines) /\ \A i \in DOMAIN lines : lines[i].paid \in Nat
  <2>1. \A l \in Lines : l.paid \in Nat
    BY DEF Lines
  <2> QED BY <2>1, Places
<1>2. \A i \in DOMAIN lines : lines[i].paid \div Ticks \in Nat
  BY <1>1, TicksType, Quotient
<1>3. DOMAIN f = DOMAIN lines /\ \A i \in DOMAIN lines : f[i] \in Nat
  BY <1>2
<1>4. DOMAIN g = DOMAIN lines /\ \A i \in DOMAIN lines : g[i] \in Nat
  BY <1>1
<1> HIDE DEF f, g
<1>5. SumFunction(f) \in Nat /\ SumFunction(g) \in Nat
  BY <1>1, <1>3, <1>4, SumType, SMTT(30)
<1> QED BY <1>5 DEF UnitsOf, PaidOf, f, g

\* Rewards a cart lacks are items, in whole units.
LEMMA MissingRewardsIs ==
  ASSUME shop \in Shops, NEW lines \in Seq(Lines), NEW bundles \in {shop.bundles, <<>>}
  PROVE  Items(MissingRewards(lines, bundles))
<1> DEFINE missing(r) == (UnitsOf(lines, r.bought) \div r.buy) * r.get
                      - UnitsOf(lines, r.rewarded)
           lacks(r) == /\ r.scope = "cross"
                       /\ r.bought # r.rewarded
                       /\ UnitsOf(lines, r.bought) >= r.buy
                       /\ missing(r) > 0
           places == {i \in DOMAIN bundles : lacks(bundles[i])}
           rules == Those(bundles, places)
<1>1. bundles \in Seq(ToSet(shop.bundles))
  <2>1. shop.bundles \in Seq(ToSet(shop.bundles))
    BY ShopsAssumption
  <2> DEFINE all == ToSet(shop.bundles)
  <2> HIDE DEF all
  <2>2. <<>> \in Seq(all)
    OBVIOUS
  <2> QED BY <2>1, <2>2 DEF all
<1>2. ASSUME NEW r \in ToSet(shop.bundles), lacks(r)
      PROVE  r.rewarded \in Products /\ missing(r) \in Nat
  <2>1. /\ r.buy \in Nat \ {0} /\ r.get \in Nat
        /\ r.scope = "cross" => r.rewarded \in Products
    BY ShopsAssumption
  <2> DEFINE u == UnitsOf(lines, r.bought)
             v == UnitsOf(lines, r.rewarded)
             w == u \div r.buy
  <2>2. u \in Nat /\ v \in Nat
    BY UnitsOfType
  <2> HIDE DEF u, v
  <2>3. w \in Nat
    BY <2>1, <2>2, Quotient
  <2>4. missing(r) = w * r.get - v
    BY DEF u, v
  <2> HIDE DEF w
  <2>5. w * r.get \in Nat
    BY <2>1, <2>3
  <2>6. missing(r) \in Int
    <3> HIDE DEF missing
    <3> QED BY <2>2, <2>4, <2>5
  <2>7. missing(r) > 0 /\ r.scope = "cross"
    BY <1>2
  <2> HIDE DEF missing
  <2> QED BY <2>1, <2>6, <2>7
<1> HIDE DEF missing
<1>3. /\ rules \in Seq(ToSet(shop.bundles))
      /\ \A n \in DOMAIN rules : \E i \in DOMAIN bundles : i \in places /\ rules[n] = bundles[i]
  <2> HIDE DEF places, lacks
  <2> QED BY <1>1, ThoseOf
<1>4. \A n \in DOMAIN rules : rules[n] \in ToSet(shop.bundles) /\ lacks(rules[n])
  <2>1. \A n \in DOMAIN rules : lacks(rules[n])
    <3> HIDE DEF rules, lacks
    <3> QED BY <1>3 DEF places
  <2> HIDE DEF rules, lacks
  <2> QED BY <1>3, <2>1
<1> DEFINE made == [i \in DOMAIN rules |-> [product |-> rules[i].rewarded,
                              ticks |-> missing(rules[i]) * Ticks,
                              weighed |-> FALSE]]
<1>5. ASSUME NEW i \in DOMAIN rules PROVE IsItem(made[i])
  <2>1. rules[i].rewarded \in Products /\ missing(rules[i]) \in Nat
    <3> HIDE DEF rules, lacks
    <3> QED BY <1>2, <1>4, <1>5
  <2>2. missing(rules[i]) * Ticks \in Nat
    BY <2>1, TicksType
  <2>3. made[i] = [product |-> rules[i].rewarded,
                   ticks |-> missing(rules[i]) * Ticks, weighed |-> FALSE]
    BY <1>5
  <2> HIDE DEF made, rules
  <2> QED BY <2>1, <2>2, <2>3 DEF IsItem
<1>6. Len(rules) \in Nat /\ DOMAIN rules = 1 .. Len(rules)
  <2> HIDE DEF rules
  <2> QED BY <1>3, SMTT(30)
<1>7. Items(made)
  <2>1. DOMAIN made = DOMAIN rules
    OBVIOUS
  <2> HIDE DEF made, rules
  <2> QED BY <1>5, <1>6, <2>1 DEF Items
<1> QED BY <1>7 DEF MissingRewards, missing

\* A cart becomes lines: none free so far, in sales only if these are read.
LEMMA LinesOfIs ==
  ASSUME shop \in Shops, NEW cart, Items(cart),
         NEW overlays \in {shop.overlays, <<>>}, NEW bundles \in {shop.bundles, <<>>}
  PROVE  LET lines == LinesOf(cart, overlays, bundles)
         IN /\ lines \in Seq(Lines)
            /\ \A i \in DOMAIN lines : lines[i].free = 0
            /\ overlays = <<>> => \A i \in DOMAIN lines : lines[i].campaigns = {}
<1> DEFINE sale(x) == SaleOf(x.product, overlays, shop.overlap)
           asked == [i \in DOMAIN cart |->
                       PricedLine(cart[i], shop.shelf[cart[i].product],
                                  SaleOf(cart[i].product, overlays, shop.overlap))]
           rewards == MissingRewards(asked, bundles)
           places == {i \in DOMAIN rewards :
                                   /\ shop.shelf[rewards[i].product].sellable
                                   /\ shop.shelf[rewards[i].product].list > 0}
           missing == Those(rewards, places)
           taken(i) == IF \E j \in DOMAIN cart : cart[j].product = missing[i].product
                       THEN SaleOf(missing[i].product, overlays, shop.overlap)
                       ELSE {}
           added == [i \in DOMAIN missing |->
                       [PricedLine(missing[i], shop.shelf[missing[i].product], taken(i))
                          EXCEPT !.campaigns = {}, !.sale = 0]]
           Fresh(l) == l \in Lines /\ l.free = 0 /\ (overlays = <<>> => l.campaigns = {})
<1>1. ASSUME NEW product
      PROVE  /\ IsSale(SaleOf(product, overlays, shop.overlap))
             /\ overlays = <<>> => SaleOf(product, overlays, shop.overlap) = {}
  <2>1. SaleOf(product, <<>>, shop.overlap) = {}
    BY DEF SaleOf
  <2>2. IsSale(SaleOf(product, shop.overlays, shop.overlap))
    BY SaleOfIs
  <2> QED BY <2>1, <2>2 DEF IsSale
<1>2. PICK n \in Nat : DOMAIN cart = 1 .. n /\ \A i \in 1 .. n : IsItem(cart[i])
  BY DEF Items
<1>3. ASSUME NEW i \in 1 .. n PROVE Fresh(asked[i])
  <2> DEFINE one == SaleOf(cart[i].product, overlays, shop.overlap)
             l == PricedLine(cart[i], shop.shelf[cart[i].product], one)
  <2>1. asked[i] = l
    BY <1>2
  <2>2. IsSale(one) /\ (overlays = <<>> => one = {}) /\ IsItem(cart[i])
    BY <1>1, <1>2, SMTT(30)
  <2> HIDE DEF one, asked
  <2>3. l \in Lines /\ l.free = 0 /\ (one = {} => l.campaigns = {})
    BY <2>2, PricedLineIs
  <2> HIDE DEF l
  <2> QED BY <2>1, <2>2, <2>3
<1>4. asked \in Seq(Lines) /\ DOMAIN asked = 1 .. n /\ Len(asked) = n
  <2>1. DOMAIN asked = 1 .. n /\ \A i \in 1 .. n : asked[i] \in Lines
    BY <1>2, <1>3
  <2>2. asked \in [1 .. n -> Lines]
    BY <1>2, <2>1
  <2> HIDE DEF asked
  <2> QED BY <2>2, SequenceOf
<1>5. PICK m \in Nat : DOMAIN rewards = 1 .. m /\ \A i \in 1 .. m : IsItem(rewards[i])
  <2> HIDE DEF asked
  <2>1. Items(rewards)
    BY <1>4, MissingRewardsIs
  <2> QED BY <2>1 DEF Items
<1>6. missing \in Seq({x \in {rewards[i] : i \in 1 .. m} : IsItem(x)})
  <2> DEFINE X == {x \in {rewards[i] : i \in 1 .. m} : IsItem(x)}
             Z == {rewards[i] : i \in {j \in 1 .. m : j \in places}}
  <2>1. Z \subseteq X
    <3> HIDE DEF rewards
    <3> QED BY <1>5
  <2>2. missing \in Seq(Z)
    <3> HIDE DEF rewards, places
    <3> QED BY <1>5, ThoseIs
  <2> HIDE DEF X, Z, missing
  <2>3. missing \in Seq(X)
    BY <2>1, <2>2
  <2> QED BY <2>3 DEF X
<1>7. Len(missing) \in Nat /\ DOMAIN missing = 1 .. Len(missing)
      /\ \A i \in DOMAIN missing : IsItem(missing[i])
  <2> HIDE DEF missing, rewards
  <2> QED BY <1>6
<1> HIDE DEF asked, rewards, missing
<1>8. ASSUME NEW i \in DOMAIN missing PROVE Fresh(added[i])
  <2> DEFINE one == taken(i)
             l == PricedLine(missing[i], shop.shelf[missing[i].product], one)
  <2>1. added[i] = [l EXCEPT !.campaigns = {}, !.sale = 0]
    BY <1>8
  <2>2. IsSale(one) /\ IsItem(missing[i])
    BY <1>1, <1>7, <1>8, SMTT(30) DEF IsSale
  <2> HIDE DEF one, added
  <2>3. /\ [l EXCEPT !.campaigns = {}, !.sale = 0] \in Lines
        /\ [l EXCEPT !.campaigns = {}, !.sale = 0].free = 0
        /\ [l EXCEPT !.campaigns = {}, !.sale = 0].campaigns = {}
    BY <2>2, PricedLineIs, ZenonT(40)
  <2> HIDE DEF l
  <2> QED BY <2>1, <2>3
<1>9. added \in Seq(Lines) /\ DOMAIN added = DOMAIN missing
  <2>1. DOMAIN added = 1 .. Len(missing) /\ \A i \in 1 .. Len(missing) : added[i] \in Lines
    BY <1>7, <1>8
  <2>2. added \in [1 .. Len(missing) -> Lines]
    BY <1>7, <2>1
  <2> HIDE DEF added
  <2> QED BY <1>7, <2>1, <2>2, SequenceOf
<1>10. LinesOf(cart, overlays, bundles) = asked \o added
  BY DEF LinesOf, asked, rewards, missing
<1>11. \A i \in DOMAIN asked : Fresh(asked[i])
  BY <1>3, <1>4
<1>12. \A i \in DOMAIN added : Fresh(added[i])
  <2> HIDE DEF added
  <2> QED BY <1>8, <1>9
<1> HIDE DEF added, Fresh
<1>13. asked \o added \in Seq(Lines)
  BY <1>4, <1>9
<1>14. \A i \in DOMAIN (asked \o added) : Fresh((asked \o added)[i])
  <2> TAKE i \in DOMAIN (asked \o added)
  <2>1. CASE i \in DOMAIN asked
    BY <1>4, <1>9, <1>11, <2>1
  <2>2. CASE i \notin DOMAIN asked
    <3>1. i - Len(asked) \in DOMAIN added /\ (asked \o added)[i] = added[i - Len(asked)]
      BY <1>4, <1>9, <2>2
    <3> QED BY <1>12, <3>1
  <2> QED BY <2>1, <2>2
<1>15. asked \o added \in Seq(Lines) /\ \A i \in DOMAIN (asked \o added) : Fresh((asked \o added)[i])
  BY <1>13, <1>14
<1> QED BY <1>10, <1>15 DEF Fresh

-----------------------------------------------------------------------------
(* "Buy X get Y".                                                           *)

\* The fields of a line.
LEMMA LineTypes ==
  ASSUME NEW line \in Lines
  PROVE  /\ line.unit \in Nat /\ line.paid \in Nat /\ line.free \in Nat
         /\ line.sale \in Nat /\ line.campaigns \in SUBSET Campaigns
         /\ line.product \in Products
         /\ shop.shelf[line.product].weighed \/ Whole(line.paid)
  BY DEF Lines

\* The fields of the lines of a sequence.
LEMMA LineFacts ==
  ASSUME NEW lines \in Seq(Lines)
  PROVE  /\ Len(lines) \in Nat /\ DOMAIN lines = 1 .. Len(lines) /\ IsFiniteSet(DOMAIN lines)
         /\ \A i \in DOMAIN lines :
              /\ i \in Nat \ {0} /\ lines[i] \in Lines
              /\ lines[i].unit \in Nat /\ lines[i].paid \in Nat /\ lines[i].free \in Nat
              /\ lines[i].sale \in Nat /\ lines[i].campaigns \in SUBSET Campaigns
              /\ lines[i].product \in Products
              /\ shop.shelf[lines[i].product].weighed \/ Whole(lines[i].paid)
<1> DEFINE X == Lines
<1>2. lines \in Seq(X)
  OBVIOUS
<1> HIDE DEF X
<1>3. /\ Len(lines) \in Nat /\ DOMAIN lines = 1 .. Len(lines) /\ IsFiniteSet(DOMAIN lines)
      /\ \A i \in DOMAIN lines : i \in Nat \ {0} /\ lines[i] \in X
  BY <1>2, Places
<1>4. \A i \in DOMAIN lines : i \in Nat \ {0} /\ lines[i] \in Lines
  BY <1>3 DEF X
<1> QED BY <1>3, <1>4, LineTypes

\* The least of two numbers is one of them and at most either.
LEMMA LeastIs ==
  ASSUME NEW a \in Nat, NEW b \in Nat
  PROVE  Least(a, b) \in Nat /\ Least(a, b) \in {a, b} /\ Least(a, b) <= a /\ Least(a, b) <= b
  BY DEF Least

\* Whole units are multiples of the ticks of a unit.
LEMMA WholeFacts ==
  /\ \A t : Whole(t) => t \in Nat /\ t \div Ticks \in Nat /\ t = (t \div Ticks) * Ticks
  /\ \A n \in Nat : Whole(n * Ticks)
  /\ Whole(0)
<1>1. \A t : Whole(t) => t \in Nat /\ t \div Ticks \in Nat /\ t = (t \div Ticks) * Ticks
  BY UnitsBack DEF Whole
<1>2. \A n \in Nat : Whole(n * Ticks)
  BY DEF Whole
<1>3. 0 \in Nat /\ 0 * Ticks = 0
  BY TicksType
<1> QED BY <1>1, <1>2, <1>3 DEF Whole

\* Whole units less whole units are whole units.
LEMMA WholeMinus ==
  ASSUME NEW s, NEW t, Whole(s), Whole(t)
  PROVE  /\ Whole(NonNegative(s - t))
         /\ t <= s => Whole(s - t)
<1>1. PICK n \in Nat : s = n * Ticks
  BY DEF Whole
<1>2. PICK m \in Nat : t = m * Ticks
  BY DEF Whole
<1>3. s - t = (n - m) * Ticks /\ s - t \in Int /\ s \in Nat /\ t \in Nat
  BY <1>1, <1>2, TicksType
<1>4. ASSUME n - m \in Nat PROVE Whole(s - t) /\ s - t \in Nat
  BY <1>3, <1>4, WholeFacts
<1>5. ASSUME n - m \notin Nat PROVE ~(t <= s) /\ s - t \notin Nat
  <2>1. m - n \in Nat \ {0}
    BY <1>5
  <2>2. (m - n) * Ticks \in Nat \ {0}
    BY <2>1, TicksType
  <2>3. t - s = (m - n) * Ticks
    BY <1>1, <1>2, TicksType
  <2> QED BY <1>3, <2>2, <2>3
<1> QED BY <1>4, <1>5, WholeFacts DEF NonNegative

\* Whole units sum up to whole units.
LEMMA SumWhole ==
  ASSUME NEW f, IsFiniteSet(DOMAIN f), \A x \in DOMAIN f : Whole(f[x])
  PROVE  Whole(SumFunction(f))
<1> DEFINE g == [x \in DOMAIN f |-> f[x] \div Ticks]
<1>1. \A x \in DOMAIN f : g[x] \in Nat /\ f[x] \in Nat /\ f[x] = Ticks * g[x] /\ g[x] \in Int
  <2> SUFFICES ASSUME NEW x \in DOMAIN f
               PROVE  g[x] \in Nat /\ f[x] \in Nat /\ f[x] = Ticks * g[x]
    OBVIOUS
  <2>1. f[x] \in Nat /\ f[x] \div Ticks \in Nat /\ f[x] = (f[x] \div Ticks) * Ticks
    BY WholeFacts
  <2>2. g[x] = f[x] \div Ticks
    OBVIOUS
  <2> HIDE DEF g
  <2>3. g[x] \in Nat /\ f[x] \in Nat /\ f[x] = g[x] * Ticks
    BY <2>1, <2>2
  <2>4. g[x] * Ticks = Ticks * g[x]
    BY <2>3, TicksType
  <2> QED BY <2>3, <2>4
<1> HIDE DEF g
<1>2. SumFunctionOnSet(g, DOMAIN f) \in Nat
  BY <1>1, SumNat
<1>3. Ticks \in Int
  BY TicksType
<1>4. SumFunctionOnSet(f, DOMAIN f) = Ticks * SumFunctionOnSet(g, DOMAIN f)
  BY <1>1, <1>3, SumTimes
<1>5. Ticks * SumFunctionOnSet(g, DOMAIN f) = SumFunctionOnSet(g, DOMAIN f) * Ticks
  BY <1>2, TicksType
<1> QED BY <1>2, <1>4, <1>5, WholeFacts DEF SumFunction

Bundle(r) ==
  /\ r.campaign \in Campaigns /\ r.buy \in Nat \ {0} /\ r.get \in Nat \ {0}
  /\ r.scope \in {"same", "category", "cross"} /\ r.bps \in Int

\* The parts FreeTicks is made of.
Sets(r, paid) == (paid \div (r.buy * Ticks)) * r.get
Left(all, taken) == NonNegative(all - SumFunction(taken))

\* Units given for sets are a natural number.
LEMMA SetsType ==
  ASSUME NEW r, Bundle(r), NEW paid \in Nat
  PROVE  Sets(r, paid) \in Nat /\ Whole(Sets(r, paid) * Ticks)
<1>1. r.buy \in Nat \ {0} /\ r.get \in Nat
  BY DEF Bundle
<1>2. r.buy * Ticks \in Nat \ {0}
  BY <1>1, TicksType
<1>3. paid \div (r.buy * Ticks) \in Nat
  <2> DEFINE d == r.buy * Ticks
  <2> HIDE DEF d
  <2> QED BY <1>2, Quotient DEF d
<1>4. Sets(r, paid) \in Nat
  <2> DEFINE q == paid \div (r.buy * Ticks)
  <2> HIDE DEF q
  <2>1. q * r.get \in Nat
    BY <1>1, <1>3 DEF q
  <2> QED BY <2>1 DEF Sets, q
<1> QED BY <1>4, WholeFacts

\* An offer on a product gives whole units of it.
LEMMA FreeSame ==
  ASSUME NEW lines \in Seq(Lines), NEW r, Bundle(r), r.scope = "same", NEW i \in DOMAIN lines
  PROVE  Whole(FreeTicks(lines, r)[i])
<1>1. FreeTicks(lines, r)[i] = IF lines[i].product = r.target
                               THEN Sets(r, lines[i].paid) * Ticks ELSE 0
  BY DEF FreeTicks, Sets
<1>2. lines[i].paid \in Nat
  BY LineFacts
<1> QED BY <1>1, <1>2, SetsType, WholeFacts

\* An offer on a category gives whole units of its products.
LEMMA FreePool ==
  ASSUME NEW lines \in Seq(Lines), NEW r, Bundle(r), r.scope = "category", NEW i \in DOMAIN lines
  PROVE  Whole(FreeTicks(lines, r)[i])
<1> DEFINE matches(k) == MatchesCategory(lines[k].category, r.target)
           slots(k) == IF matches(k) THEN (lines[k].paid + Ticks - 1) \div Ticks ELSE 0
           cheaper(k) == {j \in DOMAIN lines :
                       \/ lines[j].unit < lines[k].unit
                       \/ lines[j].unit = lines[k].unit /\ j < k}
           pool == Sets(r, SumFunction([k \in DOMAIN lines |->
                                          IF matches(k) THEN lines[k].paid ELSE 0]))
           left == Left(pool, [j \in cheaper(i) |-> slots(j)])
           n == Least(slots(i), left)
<1>1. FreeTicks(lines, r)[i] = n * Ticks
  BY DEF FreeTicks, Sets, Left
<1>2. slots(i) \in Nat
  <2>1. lines[i].paid \in Nat
    BY LineFacts
  <2> DEFINE t == lines[i].paid + Ticks - 1
  <2>2. t \in Nat
    BY <2>1, TicksType
  <2> HIDE DEF t
  <2>3. t \div Ticks \in Nat
    BY <2>2, TicksType, Quotient
  <2> QED BY <2>3 DEF t
<1>3. left \in Nat
  BY NonNegativeType DEF Left
<1>4. n \in Nat
  <2> HIDE DEF left, slots
  <2> QED BY <1>2, <1>3, LeastIs
<1> HIDE DEF n
<1> QED BY <1>1, <1>4, WholeFacts

\* An offer across products gives at most what the cart holds of the reward.
LEMMA FreeCross ==
  ASSUME NEW lines \in Seq(Lines), NEW r, Bundle(r), r.scope = "cross", NEW i \in DOMAIN lines
  PROVE  LET free == FreeTicks(lines, r)[i]
         IN /\ free \in Nat /\ free <= lines[i].paid
            /\ lines[i].product # r.rewarded => free = 0
            /\ shop.shelf[r.rewarded].weighed \/ Whole(free)
<1> DEFINE rewards(k) == IF lines[k].product = r.rewarded THEN lines[k].paid ELSE 0
           all == Sets(r, PaidOf(lines, r.bought)) * Ticks
           taken == [j \in 1 .. i - 1 |-> rewards(j)]
           left == Left(all, taken)
           free == Least(rewards(i), left)
<1>1. FreeTicks(lines, r)[i] = free
  BY DEF FreeTicks, Sets, Left
<1>2. /\ rewards(i) \in Nat /\ rewards(i) <= lines[i].paid
      /\ lines[i].product # r.rewarded => rewards(i) = 0
  <2>1. lines[i].paid \in Nat
    BY LineFacts
  <2> QED BY <2>1
<1>3. left \in Nat
  BY NonNegativeType DEF Left
<1>4. /\ free \in Nat /\ free \in {rewards(i), left} /\ free <= rewards(i)
  <2> HIDE DEF rewards, left
  <2> QED BY <1>2, <1>3, LeastIs
<1>5. ASSUME ~shop.shelf[r.rewarded].weighed PROVE Whole(free)
  <2>1. \A k \in DOMAIN lines : Whole(rewards(k))
    <3> SUFFICES ASSUME NEW k \in DOMAIN lines PROVE Whole(rewards(k))
      OBVIOUS
    <3>1. shop.shelf[lines[k].product].weighed \/ Whole(lines[k].paid)
      BY LineFacts
    <3> QED BY <1>5, <3>1, WholeFacts
  <2>2. DOMAIN taken \subseteq DOMAIN lines /\ IsFiniteSet(DOMAIN taken)
        /\ \A j \in DOMAIN taken : taken[j] = rewards(j)
    <3>1. i - 1 \in Int /\ DOMAIN taken = 1 .. i - 1
      BY LineFacts
    <3>2. IsFiniteSet(DOMAIN taken)
      <4>1. \A m \in Int : IsFiniteSet(1 .. m)
        BY FS_Interval
      <4> HIDE DEF taken
      <4> QED BY <3>1, <4>1
    <3>3. DOMAIN taken \subseteq DOMAIN lines
      BY LineFacts
    <3> QED BY <3>2, <3>3
  <2> HIDE DEF rewards, taken
  <2>3. \A j \in DOMAIN taken : Whole(taken[j])
    BY <2>1, <2>2
  <2>4. Whole(SumFunction(taken))
    BY <2>2, <2>3, SumWhole
  <2>5. Whole(all)
    <3>1. PaidOf(lines, r.bought) \in Nat
      BY UnitsOfType
    <3> QED BY <3>1, SetsType
  <2> HIDE DEF all
  <2>6. Whole(left)
    BY <2>4, <2>5, WholeMinus DEF Left
  <2> HIDE DEF left, free
  <2>7. Whole(rewards(i))
    BY <2>1
  <2> QED BY <1>4, <2>6, <2>7
<1> HIDE DEF rewards, free
<1>6. free \in Nat /\ free <= lines[i].paid /\ (lines[i].product # r.rewarded => free = 0)
  <2>1. lines[i].paid \in Nat
    BY LineFacts
  <2> QED BY <1>2, <1>4, <2>1
<1> QED BY <1>1, <1>5, <1>6

\* What a bundle makes of a line when it gives t ticks of it.
GivenLine(line, r, t) ==
  [line EXCEPT !.free = @ + t, !.paid = IF r.scope = "cross" THEN @ - t ELSE @]

AllUnits(line) == Charge(line.unit, line.paid + line.free)

\* A line stays a line when a bundle gives units of it.
LEMMA GivenLineIs ==
  ASSUME NEW line \in Lines, NEW r, NEW t \in Nat,
         r.scope = "cross" => /\ t <= line.paid
                              /\ shop.shelf[line.product].weighed \/ Whole(t)
  PROVE  LET given == GivenLine(line, r, t)
         IN /\ given \in Lines
            /\ given.unit = line.unit /\ given.free = line.free + t
            /\ given.paid = (IF r.scope = "cross" THEN line.paid - t ELSE line.paid)
            /\ given.campaigns = line.campaigns /\ given.sale = line.sale
<1> DEFINE given == GivenLine(line, r, t)
           paid == IF r.scope = "cross" THEN line.paid - t ELSE line.paid
           free == line.free + t
<1>1. /\ line.unit \in Nat /\ line.paid \in Nat /\ line.free \in Nat
      /\ shop.shelf[line.product].weighed \/ Whole(line.paid)
  BY LineTypes
<1>2. paid \in Nat /\ free \in Nat
  BY <1>1
<1>3. shop.shelf[line.product].weighed \/ Whole(paid)
  BY <1>1, WholeMinus
<1>4. given = [line EXCEPT !.free = free, !.paid = paid]
  BY DEF GivenLine
<1> HIDE DEF paid, free
<1> DEFINE Rows == [product : Products, category : {shop.shelf[p].category : p \in Products},
                    unit : Nat, paid : Nat, free : Nat, campaigns : SUBSET Campaigns, sale : Nat]
<1>5. line \in Rows
  BY DEF Lines
<1> HIDE DEF given
<1>6. /\ given \in Rows /\ given.product = line.product /\ given.unit = line.unit
      /\ given.free = free /\ given.paid = paid
      /\ given.campaigns = line.campaigns /\ given.sale = line.sale
  BY <1>2, <1>4, <1>5
<1>7. /\ line.campaigns = {} => line.sale = 0
      /\ line.campaigns # {} => \E k \in Campaigns : line.campaigns = {k}
  BY DEF Lines
<1> HIDE DEF Rows
<1>8. shop.shelf[given.product].weighed \/ Whole(given.paid)
  BY <1>3, <1>6
<1>9. given \in Lines
  BY <1>6, <1>7, <1>8 DEF Lines, Rows
<1> QED BY <1>6, <1>9 DEF given, paid, free

\* The units that come for nothing are worth what they cost.
LEMMA GivenLineCharge ==
  ASSUME NEW line \in Lines, NEW r, NEW t, Whole(t), r.scope = "cross" => t <= line.paid
  PROVE  LET given == GivenLine(line, r, t)
         IN /\ AllUnits(given) \in Nat /\ Payable(given) \in Nat
            /\ AllUnits(line) \in Nat /\ Payable(line) \in Nat
            /\ line.unit * (t \div Ticks) \in Nat
            /\ AllUnits(given) + Payable(line) =
                 AllUnits(line) + Payable(given) + line.unit * (t \div Ticks)
<1> DEFINE given == GivenLine(line, r, t)
           n == t \div Ticks
           unit == line.unit
           value == unit * n
<1>1. unit \in Nat /\ line.paid \in Nat /\ line.free \in Nat
  BY LineTypes
<1>2. t \in Nat /\ n \in Nat /\ t = n * Ticks /\ value \in Nat
  <2>1. t \in Nat /\ n \in Nat /\ t = n * Ticks
    BY WholeFacts
  <2> HIDE DEF n, unit
  <2> QED BY <1>1, <2>1
<1>3. /\ given \in Lines /\ given.unit = unit /\ given.free = line.free + t
      /\ given.paid = (IF r.scope = "cross" THEN line.paid - t ELSE line.paid)
  BY <1>2, GivenLineIs
<1>4. /\ AllUnits(given) \in Nat /\ Payable(given) \in Nat
      /\ AllUnits(line) \in Nat /\ Payable(line) \in Nat
  <2>1. \A l \in Lines : AllUnits(l) \in Nat /\ Payable(l) \in Nat
    <3> TAKE l \in Lines
    <3>1. l.unit \in Nat /\ l.paid \in Nat /\ l.free \in Nat
      BY LineTypes
    <3>2. l.paid + l.free \in Nat
      BY <3>1
    <3> QED BY <3>1, <3>2, ChargeType DEF AllUnits, Payable
  <2> QED BY <1>3, <2>1
<1> HIDE DEF given, n, unit, value
<1>5. CASE r.scope = "cross"
  <2>1. given.paid + given.free = line.paid + line.free /\ given.paid \in Nat
        /\ line.paid = given.paid + n * Ticks
    <3> HIDE DEF given
    <3>1. given.paid = line.paid - t /\ given.free = line.free + t /\ t <= line.paid
      BY <1>3, <1>5
    <3>2. given.paid \in Nat /\ given.paid + t = line.paid
      BY <1>1, <1>2, <3>1
    <3> QED BY <1>1, <1>2, <3>1, <3>2
  <2>2. Charge(unit, given.paid + n * Ticks) = Charge(unit, given.paid) + value
    <3> DEFINE rest == given.paid
    <3>1. rest \in Nat
      BY <2>1
    <3> HIDE DEF rest
    <3>2. n \in Int /\ unit \in Nat
      BY <1>1, <1>2
    <3>3. Charge(unit, rest + n * Ticks) = Charge(unit, rest) + unit * n
      BY <3>1, <3>2, ChargePlus
    <3> QED BY <3>3 DEF rest, value
  <2>3. AllUnits(given) = AllUnits(line)
    BY <1>3, <2>1 DEF AllUnits, unit
  <2>4. Payable(line) = Payable(given) + value
    BY <1>3, <2>1, <2>2 DEF Payable, unit
  <2>5. AllUnits(given) + Payable(line) = AllUnits(line) + Payable(given) + value
    BY <1>2, <1>4, <2>3, <2>4
  <2> QED BY <1>2, <1>4, <2>5 DEF given, value, n, unit
<1>6. CASE r.scope # "cross"
  <2>1. given.paid = line.paid /\ line.paid + line.free \in Nat
        /\ given.paid + given.free = (line.paid + line.free) + n * Ticks
    <3>1. given.paid = line.paid /\ given.free = line.free + t
      BY <1>3, <1>6
    <3> QED BY <1>1, <1>2, <3>1
  <2>2. Charge(unit, (line.paid + line.free) + n * Ticks)
          = Charge(unit, line.paid + line.free) + value
    BY <1>1, <1>2, <2>1, ChargePlus DEF value
  <2>3. Payable(given) = Payable(line)
    BY <1>3, <2>1 DEF Payable, unit
  <2>4. AllUnits(given) = AllUnits(line) + value
    BY <1>3, <2>1, <2>2 DEF AllUnits, unit
  <2>5. AllUnits(given) + Payable(line) = AllUnits(line) + Payable(given) + value
    BY <1>2, <1>4, <2>3, <2>4
  <2> QED BY <1>2, <1>4, <2>5 DEF given, value, n, unit
<1> QED BY <1>5, <1>6

\* A reward is worth a natural number.
LEMMA RewardValueType ==
  ASSUME NEW r, Bundle(r), NEW unit \in Nat, NEW t \in Nat
  PROVE  /\ RewardValue(r, unit, t) \in Nat
         /\ r.reward = "free" => RewardValue(r, unit, t) = unit * (t \div Ticks)
<1> DEFINE base == unit * (t \div Ticks)
           bps == Least(10000, r.bps)
<1>1. base \in Nat
  <2>1. t \div Ticks \in Nat
    BY TicksType, Quotient
  <2> QED BY <2>1
<1> HIDE DEF base
<1>2. CASE r.reward = "free"
  BY <1>1, <1>2 DEF RewardValue, base
<1>3. CASE r.reward = "percent_off_reward" /\ r.bps > 0
  <2>1. bps \in Nat
    <3>1. r.bps \in Nat /\ 10000 \in Nat
      BY <1>3 DEF Bundle
    <3> QED BY <3>1, LeastIs
  <2>2. base * bps \in Nat
    <3> HIDE DEF bps
    <3> QED BY <1>1, <2>1
  <2>3. RoundDiv(base * bps, 10000) \in Nat
    BY <2>2, RoundDivType
  <2>4. RewardValue(r, unit, t) = RoundDiv(base * bps, 10000)
    BY <1>3 DEF RewardValue, base
  <2> QED BY <1>3, <2>3, <2>4
<1>4. CASE ~(r.reward = "free") /\ ~(r.reward = "percent_off_reward" /\ r.bps > 0)
  BY <1>4 DEF RewardValue
<1> QED BY <1>2, <1>3, <1>4

\* What an offer gives of a line: of a product that is not weighed, whole units.
LEMMA FreeTicksIs ==
  ASSUME NEW lines \in Seq(Lines), NEW r, Bundle(r), NEW i \in DOMAIN lines
  PROVE  LET t == FreeTicks(lines, r)[i]
         IN /\ t \in Nat
            /\ r.scope = "cross" => /\ t <= lines[i].paid
                                    /\ shop.shelf[lines[i].product].weighed \/ Whole(t)
            /\ (r.scope = "cross" /\ shop.shelf[r.rewarded].weighed) \/ Whole(t)
<1> DEFINE t == FreeTicks(lines, r)[i]
<1>1. CASE r.scope = "same"
  <2>1. Whole(t)
    BY <1>1, FreeSame
  <2> HIDE DEF t
  <2>2. t \in Nat
    BY <2>1, WholeFacts
  <2> QED BY <1>1, <2>1, <2>2 DEF t
<1>2. CASE r.scope = "category"
  <2>1. Whole(t)
    BY <1>2, FreePool
  <2> HIDE DEF t
  <2>2. t \in Nat
    BY <2>1, WholeFacts
  <2> QED BY <1>2, <2>1, <2>2 DEF t
<1>3. CASE r.scope = "cross"
  <2>1. /\ t \in Nat /\ t <= lines[i].paid
        /\ lines[i].product # r.rewarded => t = 0
        /\ shop.shelf[r.rewarded].weighed \/ Whole(t)
    BY <1>3, FreeCross
  <2> HIDE DEF t
  <2>2. shop.shelf[lines[i].product].weighed \/ Whole(t)
    <3>1. CASE lines[i].product = r.rewarded
      BY <2>1, <3>1
    <3>2. CASE lines[i].product # r.rewarded
      BY <2>1, <3>2, WholeFacts
    <3> QED BY <3>1, <3>2
  <2> QED BY <1>3, <2>1, <2>2 DEF t
<1> QED BY <1>1, <1>2, <1>3 DEF Bundle

\* A credit to one campaign adds to the sum of the credits.
LEMMA CreditPlus ==
  ASSUME NEW f \in [Campaigns -> Nat], NEW k \in Campaigns, NEW v \in Nat
  PROVE  LET g == Plus(f, Only(k, v))
         IN /\ g \in [Campaigns -> Nat]
            /\ \A c \in Campaigns : g[c] = f[c] + (IF c = k THEN v ELSE 0)
            /\ SumFunction(f) \in Nat
            /\ SumFunction(g) = SumFunction(f) + v
<1> DEFINE o == Only(k, v)
           g == Plus(f, o)
<1>1. \A c \in Campaigns : o[c] = (IF c = k THEN v ELSE 0)
  BY DEF Only, Nothing
<1>2. \A c \in Campaigns : o[c] \in Nat
  BY <1>1
<1> HIDE DEF o
<1>3. DOMAIN g = Campaigns /\ \A c \in Campaigns : g[c] = f[c] + o[c]
  BY DEF Plus
<1>4. g \in [Campaigns -> Nat]
  BY <1>2 DEF Plus
<1> HIDE DEF g
<1>5. IsFiniteSet(Campaigns)
  BY PriceRulesAssumption
<1>6. \A c \in Campaigns : f[c] \in Nat /\ f[c] \in Int /\ o[c] \in Int
  BY <1>2
<1>7. SumFunctionOnSet(g, Campaigns) = SumFunctionOnSet(f, Campaigns) + SumFunctionOnSet(o, Campaigns)
  BY <1>3, <1>5, <1>6, SumPlus
<1>8. SumFunctionOnSet(o, Campaigns) = v
  <2>1. o[k] = v /\ o[k] \in Int /\ \A c \in Campaigns \ {k} : o[c] = 0
    BY <1>1
  <2> QED BY <1>5, <2>1, SumOnly
<1>9. SumFunctionOnSet(f, Campaigns) \in Nat
  BY <1>5, <1>6, SumNat
<1>10. SumFunction(g) = SumFunctionOnSet(g, Campaigns)
       /\ SumFunction(f) = SumFunctionOnSet(f, Campaigns)
  BY <1>3 DEF SumFunction
<1> QED BY <1>1, <1>3, <1>4, <1>7, <1>8, <1>9, <1>10 DEF g, o

\* Nothing is credited to start with.
LEMMA NothingCredited ==
  /\ Nothing \in [Campaigns -> Nat] /\ SumFunction(Nothing) = 0
  /\ \A c \in Campaigns : Nothing[c] = 0
<1>1. \A c \in Campaigns : Nothing[c] = 0
  BY DEF Nothing
<1>2. IsFiniteSet(Campaigns)
  BY PriceRulesAssumption
<1>3. DOMAIN Nothing = Campaigns /\ Nothing \in [Campaigns -> Nat]
  BY DEF Nothing
<1>4. SumFunctionOnSet(Nothing, Campaigns) = 0
  BY <1>1, <1>2, SumZero
<1> QED BY <1>1, <1>3, <1>4 DEF SumFunction

Units(lines) == SumFunction([i \in DOMAIN lines |-> AllUnits(lines[i])])
Due(lines) == SumFunction([i \in DOMAIN lines |-> Payable(lines[i])])

WholeOffer(r) ==
  r.reward = "free" /\ (r.scope = "cross" => ~shop.shelf[r.rewarded].weighed)
WholeOffers == \A i \in DOMAIN shop.bundles : WholeOffer(shop.bundles[i])

Alike(lines, base) ==
  /\ DOMAIN lines = DOMAIN base
  /\ \A i \in DOMAIN base : lines[i].campaigns = base[i].campaigns
                            /\ lines[i].sale = base[i].sale

\* What bundles may make of lines, and what they account for.
Gifts(base) ==
  {y \in [lines : Seq(Lines), discount : Nat, credit : [Campaigns -> Nat]] :
     /\ Alike(y.lines, base)
     /\ SumFunction(y.credit) = y.discount
     /\ WholeOffers => Units(y.lines) = Due(y.lines) + y.discount}

\* Totals of lines are natural numbers.
LEMMA LinesTotal ==
  ASSUME NEW lines \in Seq(Lines)
  PROVE  /\ Units(lines) \in Nat /\ Due(lines) \in Nat
         /\ \A i \in DOMAIN lines : AllUnits(lines[i]) \in Nat /\ Payable(lines[i]) \in Nat
<1>1. ASSUME NEW i \in DOMAIN lines
      PROVE  AllUnits(lines[i]) \in Nat /\ Payable(lines[i]) \in Nat
  <2>1. lines[i].unit \in Nat /\ lines[i].paid \in Nat /\ lines[i].free \in Nat
    BY LineFacts
  <2>2. lines[i].paid + lines[i].free \in Nat
    BY <2>1
  <2> QED BY <2>1, <2>2, ChargeType DEF AllUnits, Payable
<1> DEFINE u == [i \in DOMAIN lines |-> AllUnits(lines[i])]
           d == [i \in DOMAIN lines |-> Payable(lines[i])]
<1>2. /\ IsFiniteSet(DOMAIN u) /\ \A i \in DOMAIN u : u[i] \in Nat
      /\ IsFiniteSet(DOMAIN d) /\ \A i \in DOMAIN d : d[i] \in Nat
  BY <1>1, LineFacts
<1> HIDE DEF u, d
<1>3. SumFunction(u) \in Nat /\ SumFunction(d) \in Nat
  BY <1>2, SumType
<1> QED BY <1>1, <1>3 DEF u, d, Units, Due

Offer(r) == Bundle(r) /\ (WholeOffers => WholeOffer(r))

\* A bundle keeps what Gifts says.
LEMMA ApplyBundleIs ==
  ASSUME NEW base, NEW y \in Gifts(base), NEW r, Offer(r)
  PROVE  ApplyBundle(y, r) \in Gifts(base)
<1> DEFINE lines == y.lines
           free == FreeTicks(lines, r)
           values == [i \in DOMAIN lines |-> RewardValue(r, lines[i].unit, free[i])]
           value == SumFunction(values)
           given == [i \in DOMAIN lines |-> GivenLine(lines[i], r, free[i])]
           credit == Plus(y.credit, Only(r.campaign, value))
           z == ApplyBundle(y, r)
<1>1. /\ y \in [lines : Seq(Lines), discount : Nat, credit : [Campaigns -> Nat]]
      /\ Alike(lines, base) /\ SumFunction(y.credit) = y.discount
      /\ WholeOffers => Units(lines) = Due(lines) + y.discount
  BY DEF Gifts
<1>2. lines \in Seq(Lines) /\ y.discount \in Nat /\ y.credit \in [Campaigns -> Nat]
  BY <1>1
<1>3. z = [lines |-> given, discount |-> y.discount + value, credit |-> credit]
  BY DEF ApplyBundle, GivenLine
<1> HIDE DEF lines, z
<1>4. /\ Len(lines) \in Nat /\ DOMAIN lines = 1 .. Len(lines) /\ IsFiniteSet(DOMAIN lines)
      /\ \A i \in DOMAIN lines : lines[i] \in Lines /\ lines[i].unit \in Nat
  BY <1>2, LineFacts
<1>5. Bundle(r) /\ r.campaign \in Campaigns
  BY DEF Offer, Bundle
<1>6. ASSUME NEW i \in DOMAIN lines
      PROVE  /\ free[i] \in Nat
             /\ r.scope = "cross" => /\ free[i] <= lines[i].paid
                                     /\ shop.shelf[lines[i].product].weighed \/ Whole(free[i])
             /\ WholeOffers => Whole(free[i])
  <2>1. /\ free[i] \in Nat
        /\ r.scope = "cross" => /\ free[i] <= lines[i].paid
                                /\ shop.shelf[lines[i].product].weighed \/ Whole(free[i])
        /\ (r.scope = "cross" /\ shop.shelf[r.rewarded].weighed) \/ Whole(free[i])
    BY <1>2, <1>5, FreeTicksIs
  <2>2. WholeOffers => (r.scope = "cross" => ~shop.shelf[r.rewarded].weighed)
    BY DEF Offer, WholeOffer
  <2> QED BY <2>1, <2>2
<1> HIDE DEF free
<1>7. ASSUME NEW i \in DOMAIN lines
      PROVE  /\ given[i] \in Lines
             /\ given[i].campaigns = lines[i].campaigns /\ given[i].sale = lines[i].sale
             /\ values[i] \in Nat
             /\ WholeOffers => AllUnits(given[i]) + Payable(lines[i]) =
                                 AllUnits(lines[i]) + Payable(given[i]) + values[i]
  <2> DEFINE line == lines[i]
             t == free[i]
             new == GivenLine(line, r, t)
  <2>1. given[i] = new /\ values[i] = RewardValue(r, line.unit, t)
    OBVIOUS
  <2>2. /\ line \in Lines /\ t \in Nat /\ line.unit \in Nat
        /\ r.scope = "cross" => /\ t <= line.paid
                                /\ shop.shelf[line.product].weighed \/ Whole(t)
        /\ WholeOffers => Whole(t)
    BY <1>4, <1>6
  <2> HIDE DEF line, t, given, values
  <2>3. /\ new \in Lines /\ new.campaigns = line.campaigns /\ new.sale = line.sale
    BY <2>2, GivenLineIs
  <2>4. /\ RewardValue(r, line.unit, t) \in Nat
        /\ r.reward = "free" => RewardValue(r, line.unit, t) = line.unit * (t \div Ticks)
    BY <1>5, <2>2, RewardValueType
  <2>5. ASSUME WholeOffers
        PROVE  AllUnits(new) + Payable(line) = AllUnits(line) + Payable(new) + values[i]
    <3>1. Whole(t) /\ r.reward = "free"
      BY <2>2, <2>5 DEF Offer, WholeOffer
    <3>2. AllUnits(new) + Payable(line) =
            AllUnits(line) + Payable(new) + line.unit * (t \div Ticks)
      BY <2>2, <3>1, GivenLineCharge
    <3> QED BY <2>1, <2>4, <3>1, <3>2
  <2> QED BY <2>1, <2>3, <2>4, <2>5 DEF line
<1>8. /\ DOMAIN given = 1 .. Len(lines) /\ DOMAIN values = DOMAIN lines
      /\ given \in Seq(Lines) /\ Len(given) = Len(lines)
  <2>1. given \in [1 .. Len(lines) -> Lines] /\ DOMAIN values = DOMAIN lines
    BY <1>4, <1>7
  <2> HIDE DEF given, values
  <2> QED BY <1>4, <2>1, SequenceOf
<1> HIDE DEF given, values
<1>9. value \in Nat
  BY <1>4, <1>7, <1>8, SumType
<1> HIDE DEF value
<1>10. credit \in [Campaigns -> Nat] /\ SumFunction(credit) = y.discount + value
  <2> DEFINE before == y.credit
             k == r.campaign
  <2>1. /\ before \in [Campaigns -> Nat] /\ k \in Campaigns
        /\ SumFunction(before) = y.discount
    BY <1>1, <1>2, <1>5
  <2> HIDE DEF before, k
  <2>2. LET g == Plus(before, Only(k, value))
        IN g \in [Campaigns -> Nat] /\ SumFunction(g) = SumFunction(before) + value
    BY <1>9, <2>1, CreditPlus
  <2> QED BY <2>1, <2>2 DEF before, k
<1> HIDE DEF credit
<1>11. Alike(given, base)
  <2>1. DOMAIN lines = DOMAIN base
        /\ \A i \in DOMAIN base : lines[i].campaigns = base[i].campaigns
                                  /\ lines[i].sale = base[i].sale
    BY <1>1 DEF Alike
  <2>2. \A i \in DOMAIN lines : given[i].campaigns = lines[i].campaigns
                                /\ given[i].sale = lines[i].sale
    BY <1>7
  <2> QED BY <1>4, <1>8, <2>1, <2>2 DEF Alike
<1>12. ASSUME WholeOffers PROVE Units(given) = Due(given) + (y.discount + value)
  <2> DEFINE au == [i \in DOMAIN lines |-> AllUnits(given[i])]
             al == [i \in DOMAIN lines |-> AllUnits(lines[i])]
             pu == [i \in DOMAIN lines |-> Payable(given[i])]
             pl == [i \in DOMAIN lines |-> Payable(lines[i])]
             x == [i \in DOMAIN lines |-> AllUnits(given[i]) + Payable(lines[i])]
             w == [i \in DOMAIN lines |-> Payable(given[i]) + values[i]]
  <2>1. \A i \in DOMAIN lines :
          /\ au[i] \in Nat /\ al[i] \in Nat /\ pu[i] \in Nat /\ pl[i] \in Nat
          /\ values[i] \in Nat
          /\ x[i] = au[i] + pl[i] /\ w[i] = pu[i] + values[i] /\ x[i] = al[i] + w[i]
    <3>1. \A i \in DOMAIN lines :
            /\ AllUnits(lines[i]) \in Nat /\ Payable(lines[i]) \in Nat
            /\ AllUnits(given[i]) \in Nat /\ Payable(given[i]) \in Nat
      BY <1>2, <1>4, <1>8, LinesTotal
    <3>2. \A i \in DOMAIN lines : /\ values[i] \in Nat
            /\ AllUnits(given[i]) + Payable(lines[i]) =
                 AllUnits(lines[i]) + Payable(given[i]) + values[i]
      BY <1>7, <1>12
    <3> QED BY <3>1, <3>2
  <2> HIDE DEF au, al, pu, pl, x, w
  <2> DEFINE S == DOMAIN lines
             Total(f) == SumFunctionOnSet(f, S)
  <2>2. IsFiniteSet(S)
    BY <1>4
  <2>3. \A i \in S : /\ au[i] \in Int /\ pl[i] \in Int /\ al[i] \in Int /\ pu[i] \in Int
                     /\ values[i] \in Int /\ w[i] \in Int
                     /\ x[i] = au[i] + pl[i] /\ w[i] = pu[i] + values[i] /\ x[i] = al[i] + w[i]
    BY <2>1
  <2> HIDE DEF S
  <2>4. Total(x) = Total(au) + Total(pl)
    BY <2>2, <2>3, SumPlus
  <2>5. Total(w) = Total(pu) + Total(values)
    BY <2>2, <2>3, SumPlus
  <2>6. Total(x) = Total(al) + Total(w)
    BY <2>2, <2>3, SumPlus
  <2>7. /\ Units(given) = Total(au) /\ Due(given) = Total(pu)
        /\ Units(lines) = Total(al) /\ Due(lines) = Total(pl)
        /\ value = Total(values)
    <3>1. DOMAIN given = DOMAIN lines
      BY <1>4, <1>8
    <3>2. DOMAIN au = S /\ DOMAIN pu = S /\ DOMAIN al = S /\ DOMAIN pl = S
      BY DEF au, pu, al, pl, S
    <3>3. /\ Units(given) = SumFunction(au) /\ Due(given) = SumFunction(pu)
          /\ Units(lines) = SumFunction(al) /\ Due(lines) = SumFunction(pl)
      BY <3>1 DEF Units, Due, au, pu, al, pl
    <3>4. value = SumFunction(values) /\ DOMAIN values = S
      BY <1>8 DEF value, S
    <3> QED BY <3>2, <3>3, <3>4 DEF SumFunction
  <2>8. Units(lines) = Due(lines) + y.discount
    BY <1>1, <1>12
  <2>9. /\ Units(given) \in Nat /\ Due(given) \in Nat
        /\ Units(lines) \in Nat /\ Due(lines) \in Nat
    BY <1>2, <1>8, LinesTotal
  <2> HIDE DEF Total
  <2>10. Units(given) + Due(lines) = Units(lines) + (Due(given) + value)
    BY <2>4, <2>5, <2>6, <2>7
  <2>11. y.discount \in Nat
    BY <1>2
  <2> QED BY <1>9, <2>8, <2>9, <2>10, <2>11
<1>13. /\ z \in [lines : Seq(Lines), discount : Nat, credit : [Campaigns -> Nat]]
       /\ z.lines = given /\ z.discount = y.discount + value /\ z.credit = credit
  BY <1>2, <1>3, <1>8, <1>9, <1>10
<1> HIDE DEF z
<1>14. z \in Gifts(base)
  BY <1>10, <1>11, <1>12, <1>13 DEF Gifts
<1> QED BY <1>14 DEF z

\* The bundles of a shop are offers.
LEMMA OffersOf ==
  ASSUME shop \in Shops
  PROVE  /\ shop.bundles \in Seq(ToSet(shop.bundles))
         /\ \A r \in ToSet(shop.bundles) : Offer(r)
<1>1. /\ shop.bundles \in Seq(ToSet(shop.bundles))
      /\ \A r \in ToSet(shop.bundles) : Bundle(r)
  BY ShopsAssumption DEF Bundle
<1>2. \A r \in ToSet(shop.bundles) : WholeOffers => WholeOffer(r)
  BY DEF WholeOffers, ToSet
<1> QED BY <1>1, <1>2 DEF Offer

\* What the bundles of the shop, all or one for each scope, make of lines.
LEMMA EvaluateBundlesIs ==
  ASSUME shop \in Shops, NEW lines \in Seq(Lines), \A i \in DOMAIN lines : lines[i].free = 0,
         NEW bundles \in {shop.bundles, <<>>}, NEW combine
  PROVE  LET y == EvaluateBundles(lines, bundles, combine)
         IN /\ y \in Gifts(lines)
            /\ bundles = <<>> => y.lines = lines /\ y.discount = 0 /\ y.credit = Nothing
<1> DEFINE base == [lines |-> lines, discount |-> 0, credit |-> Nothing]
           rules == IF combine THEN bundles ELSE OnePerScope(bundles)
           X == ToSet(bundles)
           y == EvaluateBundles(lines, bundles, combine)
<1>1. bundles \in Seq(X) /\ \A r \in X : Offer(r)
  <2>1. CASE bundles = shop.bundles
    BY <2>1, OffersOf
  <2>2. CASE bundles = <<>>
    BY <2>2 DEF ToSet
  <2> QED BY <2>1, <2>2
<1>2. rules \in Seq(X)
  <2>1. PICK places : OnePerScope(bundles) = Those(bundles, places)
    BY DEF OnePerScope
  <2> HIDE DEF X
  <2>2. Those(bundles, places) \in Seq(X)
    BY <1>1, ThoseOf
  <2> QED BY <1>1, <2>1, <2>2
<1>3. y = FoldLeft(ApplyBundle, base, rules)
  BY DEF EvaluateBundles
<1> HIDE DEF rules, X, y
<1>4. /\ Len(rules) \in Nat /\ DOMAIN rules = 1 .. Len(rules)
      /\ \A i \in 1 .. Len(rules) : rules[i] \in X
  BY <1>2
<1>5. base \in Gifts(lines)
  <2>1. /\ base \in [lines : Seq(Lines), discount : Nat, credit : [Campaigns -> Nat]]
        /\ SumFunction(base.credit) = base.discount
    BY NothingCredited
  <2>2. Alike(base.lines, lines)
    BY DEF Alike
  <2>3. Units(lines) = Due(lines)
    <3>1. \A i \in DOMAIN lines : AllUnits(lines[i]) = Payable(lines[i])
      <4> TAKE i \in DOMAIN lines
      <4>1. lines[i].free = 0 /\ lines[i].paid \in Nat
        BY LineFacts
      <4>2. lines[i].paid + lines[i].free = lines[i].paid
        BY <4>1
      <4> QED BY <4>2 DEF AllUnits, Payable
    <3>2. [i \in DOMAIN lines |-> AllUnits(lines[i])] = [i \in DOMAIN lines |-> Payable(lines[i])]
      BY <3>1
    <3> QED BY <3>2, Zenon DEF Units, Due
  <2>4. Units(base.lines) = Due(base.lines) + base.discount
    <3>1. Due(lines) \in Nat
      BY LinesTotal
    <3> QED BY <2>3, <3>1
  <2> HIDE DEF base
  <2> QED BY <2>1, <2>2, <2>4 DEF base, Gifts
<1> HIDE DEF base
<1>6. y \in Gifts(lines)
  <2> DEFINE Y == Gifts(lines)
  <2>1. \A z \in Y, i \in 1 .. Len(rules) : ApplyBundle(z, rules[i]) \in Y
    BY <1>1, <1>4, ApplyBundleIs
  <2>2. base \in Y
    BY <1>5
  <2> HIDE DEF Y
  <2>3. FoldLeft(ApplyBundle, base, rules) \in Y
    BY <1>4, <2>1, <2>2, FoldBundles
  <2> QED BY <1>3, <2>3 DEF Y
<1>7. ASSUME bundles = <<>> PROVE y = base
  <2>1. DOMAIN rules = 1 .. Len(rules) /\ Len(rules) = 0
    <3>1. X = {}
      BY <1>7 DEF X, ToSet
    <3>2. \A i \in 1 .. Len(rules) : FALSE
      BY <1>4, <3>1
    <3>3. Len(rules) \in Nat /\ (Len(rules) # 0 => 1 \in 1 .. Len(rules))
      BY <1>4
    <3> QED BY <1>4, <3>2, <3>3
  <2> DEFINE Y == {base}
  <2>2. base \in Y /\ \A z \in Y, i \in 1 .. Len(rules) : ApplyBundle(z, rules[i]) \in Y
    BY <2>1
  <2> HIDE DEF Y
  <2>3. FoldLeft(ApplyBundle, base, rules) \in Y
    BY <1>4, <2>2, FoldBundles
  <2> QED BY <1>3, <2>3 DEF Y
<1> QED BY <1>6, <1>7 DEF y, base

-----------------------------------------------------------------------------
(* Automatic offers.                                                        *)

Entries(lines) ==
  IsFiniteSet(DOMAIN lines) /\ \A i \in DOMAIN lines : lines[i].amount \in Nat

\* The amounts of lines, and their total.
LEMMA AmountsIs ==
  ASSUME NEW lines \in Seq(Lines)
  PROVE  Entries(Amounts(lines)) /\ CartTotal(Amounts(lines)) = Due(lines)
<1> DEFINE a == Amounts(lines)
<1>1. DOMAIN a = DOMAIN lines /\ \A i \in DOMAIN lines : a[i].amount = Payable(lines[i])
  BY DEF Amounts
<1> HIDE DEF a
<1>2. Entries(a)
  BY <1>1, LineFacts, LinesTotal DEF Entries
<1>3. [i \in DOMAIN a |-> a[i].amount] = [i \in DOMAIN lines |-> Payable(lines[i])]
  BY <1>1
<1>4. CartTotal(a) = Due(lines)
  BY <1>3, Zenon DEF CartTotal, Due
<1> QED BY <1>2, <1>4 DEF a

\* A total of amounts is a natural number.
LEMMA CartTotalType ==
  ASSUME NEW lines, Entries(lines)
  PROVE  CartTotal(lines) \in Nat
<1> DEFINE f == [i \in DOMAIN lines |-> lines[i].amount]
<1>1. IsFiniteSet(DOMAIN f) /\ \A i \in DOMAIN f : f[i] \in Nat
  BY DEF Entries
<1> HIDE DEF f
<1>2. SumFunction(f) \in Nat
  BY <1>1, SumType
<1> QED BY <1>2 DEF CartTotal, f

\* What a rule takes off is a natural number.
LEMMA RuleDiscountType ==
  ASSUME NEW r, CartRule(r), NEW subtotal \in Nat, NEW lines, Entries(lines)
  PROVE  RuleDiscount(r, subtotal, lines) \in Nat
<1> DEFINE capped(d) == IF Given(r.cap) THEN Least(d, r.cap) ELSE d
           percentOf(base) == capped(RoundDiv(base * r.bps, 10000))
           part == [i \in DOMAIN lines |->
                      IF MatchesCategory(lines[i].category, r.category)
                      THEN lines[i].amount ELSE 0]
           inCategory == SumFunction(part)
           reached == r.kind \in Conditional => subtotal >= r.threshold
           d == RuleDiscount(r, subtotal, lines)
<1>1. {r.threshold, r.cap, r.bps, r.amount} \subseteq Int
  BY DEF CartRule
<1>2. \A x \in Nat : capped(x) \in Nat
  <2> TAKE x \in Nat
  <2>1. CASE r.cap >= 0
    <3>1. r.cap \in Nat
      BY <1>1, <2>1
    <3> QED BY <2>1, <3>1, LeastIs DEF Given
  <2>2. CASE ~(r.cap >= 0)
    BY <2>2 DEF Given
  <2> QED BY <2>1, <2>2
<1>3. inCategory \in Nat
  <2>1. IsFiniteSet(DOMAIN part) /\ \A i \in DOMAIN part : part[i] \in Nat
    BY DEF Entries
  <2> HIDE DEF part
  <2> QED BY <2>1, SumType
<1> HIDE DEF inCategory, capped
<1> DEFINE Bps == 0 .. 10000
           full == 10000
           p == r.kind \in CartPercent /\ reached /\ r.bps \in Bps
           f == r.kind \in CartFixed /\ reached /\ Given(r.amount)
           c == r.kind = "category_percent_off" /\ r.bps \in Bps
<1>4. d = CASE p -> percentOf(subtotal)
            [] f -> capped(Least(r.amount, subtotal))
            [] c -> percentOf(inCategory)
            [] OTHER -> 0
  BY DEF RuleDiscount, capped, inCategory
<1>5. /\ full \in Nat \ {0} /\ \A x \in Bps : x \in Nat
      /\ \A x : percentOf(x) = capped(RoundDiv(x * r.bps, full))
  OBVIOUS
<1> HIDE DEF percentOf, Bps, full, reached
<1>6. ASSUME r.bps \in Bps, NEW base \in Nat PROVE percentOf(base) \in Nat
  <2> DEFINE bps == r.bps
  <2>1. bps \in Nat
    BY <1>5, <1>6
  <2> HIDE DEF bps
  <2>2. base * bps \in Nat
    BY <2>1
  <2>3. RoundDiv(base * bps, full) \in Nat
    BY <1>5, <2>2, RoundDivType
  <2> QED BY <1>2, <1>5, <2>3 DEF bps
<1>7. /\ p => percentOf(subtotal) \in Nat
      /\ c => percentOf(inCategory) \in Nat
  BY <1>3, <1>6
<1>8. f => capped(Least(r.amount, subtotal)) \in Nat
  <2> SUFFICES ASSUME f PROVE capped(Least(r.amount, subtotal)) \in Nat
    OBVIOUS
  <2>1. r.amount \in Nat
    BY <1>1 DEF Given
  <2>2. Least(r.amount, subtotal) \in Nat
    BY <2>1, LeastIs
  <2> QED BY <1>2, <2>2
<1>9. /\ ~(p /\ f) /\ ~(p /\ c) /\ ~(f /\ c)
  <2>1. \A kind : /\ ~(kind \in CartPercent /\ kind \in CartFixed)
                  /\ kind = "category_percent_off" => kind \notin CartPercent \cup CartFixed
    BY DEF CartPercent, CartFixed
  <2> QED BY <2>1
<1> HIDE DEF d, p, f, c
<1> QED BY <1>4, <1>7, <1>8, <1>9 DEF d

\* Rules take something off together only if one of them does.
LEMMA RulesDiscountFrom ==
  ASSUME NEW R, \A r \in R : CartRule(r), NEW rules \in Seq(R),
         NEW subtotal \in Nat, NEW lines, Entries(lines),
         RulesDiscount(rules, subtotal, lines) > 0
  PROVE  \E i \in DOMAIN rules : RuleDiscount(rules[i], subtotal, lines) > 0
<1> DEFINE f == [i \in DOMAIN rules |-> RuleDiscount(rules[i], subtotal, lines)]
           sum == SumFunction(f)
<1>1. IsFiniteSet(DOMAIN rules) /\ \A i \in DOMAIN rules : rules[i] \in R
  BY Places
<1>2. DOMAIN f = DOMAIN rules /\ \A i \in DOMAIN rules : f[i] \in Nat
  BY <1>1, RuleDiscountType
<1>3. RulesDiscount(rules, subtotal, lines) = NonNegative(sum)
  BY DEF RulesDiscount
<1> HIDE DEF f
<1>4. sum \in Nat /\ sum > 0
  <2>1. sum \in Nat
    BY <1>1, <1>2, SumType
  <2> HIDE DEF sum
  <2> QED BY <1>3, <2>1, NonNegativeIs
<1>5. \E i \in DOMAIN rules : f[i] > 0
  <2>1. \A i \in DOMAIN rules : f[i] \in Int
    BY <1>2
  <2>2. SumFunctionOnSet(f, DOMAIN rules) > 0
    BY <1>2, <1>4 DEF SumFunction
  <2> QED BY <1>1, <2>1, <2>2, SumPositive
<1> QED BY <1>5 DEF f

\* What is known of a campaign that wins: one of its rules takes something off.
Winner(w, rules, subtotal, lines) ==
  /\ w.campaign \in Campaigns /\ w.discount \in Nat \ {0}
  /\ w.priority \in Int /\ w.created \in Int
  /\ \E i \in DOMAIN rules : /\ rules[i].campaign = w.campaign
                             /\ RuleDiscount(rules[i], subtotal, lines) > 0

AllWin(winners, rules, subtotal, lines) ==
  \E n \in Nat : /\ DOMAIN winners = 1 .. n /\ Len(winners) = n
                 /\ \A i \in 1 .. n : Winner(winners[i], rules, subtotal, lines)

\* Campaigns with a score win by one of their rules.
LEMMA ScoredWin ==
  ASSUME NEW R, \A r \in R : CartRule(r), NEW rules \in Seq(R),
         NEW subtotal \in Nat, NEW lines, Entries(lines), NEW fromRedis
  PROVE  AllWin(Scored(rules, subtotal, lines, fromRedis), rules, subtotal, lines)
<1> DEFINE rowsOf(c) == {i \in DOMAIN rules : rules[i].campaign = c}
           discount(c) == RulesDiscount(Those(rules, rowsOf(c)), subtotal, lines)
           gives(i) == /\ \A j \in 1 .. i - 1 : rules[j].campaign # rules[i].campaign
                       /\ discount(rules[i].campaign) > 0
           places == {i \in DOMAIN rules : gives(i)}
           firsts == Those(rules, places)
           scored == Scored(rules, subtotal, lines, fromRedis)
           n == Len(firsts)
<1>1. scored = [m \in DOMAIN firsts |-> Strength(firsts[m], fromRedis, discount(firsts[m].campaign))]
  BY DEF Scored
<1>2. \A i \in places : i \in DOMAIN rules /\ discount(rules[i].campaign) > 0
  OBVIOUS
<1> HIDE DEF places
<1>3. /\ firsts \in Seq(R)
      /\ \A m \in DOMAIN firsts : \E i \in DOMAIN rules : i \in places /\ firsts[m] = rules[i]
  BY ThoseOf
<1>4. n \in Nat /\ DOMAIN firsts = 1 .. n
  BY <1>3
<1>5. \A c : discount(c) \in Nat
  BY NonNegativeType DEF RulesDiscount
<1> HIDE DEF firsts, scored
<1>6. ASSUME NEW c, discount(c) > 0
      PROVE  \E i \in DOMAIN rules : /\ rules[i].campaign = c
                                     /\ RuleDiscount(rules[i], subtotal, lines) > 0
  <2> DEFINE rows == rowsOf(c)
             those == Those(rules, rows)
  <2>1. those \in Seq(R)
        /\ \A m \in DOMAIN those : \E i \in DOMAIN rules : i \in rows /\ those[m] = rules[i]
    <3> HIDE DEF rows
    <3> QED BY ThoseOf
  <2>2. RulesDiscount(those, subtotal, lines) > 0
    BY <1>6
  <2>3. \A i \in rows : rules[i].campaign = c
    OBVIOUS
  <2> HIDE DEF rows, those
  <2>4. PICK m \in DOMAIN those : RuleDiscount(those[m], subtotal, lines) > 0
    BY <2>1, <2>2, RulesDiscountFrom
  <2>5. PICK i \in DOMAIN rules : i \in rows /\ those[m] = rules[i]
    BY <2>1
  <2> QED BY <2>3, <2>4, <2>5
<1> HIDE DEF discount
<1>7. ASSUME NEW m \in 1 .. n PROVE Winner(scored[m], rules, subtotal, lines)
  <2> DEFINE r == firsts[m]
             d == discount(r.campaign)
  <2>1. scored[m] = Strength(r, fromRedis, d)
    BY <1>1, <1>4
  <2>2. PICK i \in DOMAIN rules : i \in places /\ r = rules[i]
    BY <1>3, <1>4
  <2>3. d \in Nat \ {0} /\ d > 0
    BY <1>2, <1>5, <2>2
  <2>4. CartRule(r)
    BY <1>3, <1>4
  <2>5. \E j \in DOMAIN rules : /\ rules[j].campaign = r.campaign
                                /\ RuleDiscount(rules[j], subtotal, lines) > 0
    BY <1>6, <2>3
  <2> HIDE DEF r, d
  <2>6. /\ scored[m].campaign = r.campaign /\ scored[m].discount = d
        /\ scored[m].priority = Priority(r)
        /\ scored[m].created = (IF fromRedis THEN r.created ELSE r.weekdayFirst)
    BY <2>1 DEF Strength
  <2>7. /\ r.campaign \in Campaigns /\ r.priority \in Int
        /\ r.created \in Int /\ r.weekdayFirst \in Int
    BY <2>4 DEF CartRule
  <2>8. Priority(r) \in Int
    BY <2>7 DEF Priority
  <2>9. /\ scored[m].campaign \in Campaigns /\ scored[m].discount \in Nat \ {0}
        /\ scored[m].priority \in Int /\ scored[m].created \in Int
    BY <2>3, <2>6, <2>7, <2>8
  <2>10. \E j \in DOMAIN rules : /\ rules[j].campaign = scored[m].campaign
                                 /\ RuleDiscount(rules[j], subtotal, lines) > 0
    BY <2>5, <2>6
  <2> QED BY <2>9, <2>10, Zenon DEF Winner
<1>8. DOMAIN scored = 1 .. n /\ Len(scored) = n
  BY <1>1, <1>4, SMTT(30)
<1>9. AllWin(scored, rules, subtotal, lines)
  BY <1>4, <1>7, <1>8 DEF AllWin
<1> QED BY <1>9 DEF scored

\* The strongest of campaigns is one of them.
LEMMA StrongestWins ==
  ASSUME NEW scored, NEW rules, NEW subtotal, NEW lines,
         AllWin(scored, rules, subtotal, lines)
  PROVE  AllWin(Strongest(scored), rules, subtotal, lines)
<1>1. PICK n \in Nat : /\ DOMAIN scored = 1 .. n
                       /\ \A i \in 1 .. n : Winner(scored[i], rules, subtotal, lines)
  BY DEF AllWin
<1>2. CASE scored = <<>>
  <2>1. Strongest(scored) = scored
    BY <1>2 DEF Strongest
  <2> QED BY <2>1
<1>3. CASE scored # <<>>
  <2> DEFINE S == 1 .. n
             before(i, j) ==
               \/ scored[i].priority < scored[j].priority
               \/ /\ scored[i].priority = scored[j].priority
                  /\ \/ scored[i].created > scored[j].created
                     \/ scored[i].created = scored[j].created /\ i < j
             first == CHOOSE i \in DOMAIN scored : \A j \in DOMAIN scored \ {i} : before(i, j)
             R == {p \in S \X S : before(p[1], p[2])}
  <2>1. IsFiniteSet(S)
    BY FS_Interval
  <2>2. S # {}
    <3>1. ASSUME S = {} PROVE FALSE
      <4>1. DOMAIN scored = {}
        BY <1>1, <3>1
      <4>2. PICK m \in Nat : DOMAIN scored = 1 .. m /\ Len(scored) = m
        BY DEF AllWin
      <4>3. scored = <<>>
        BY <4>1
      <4> QED BY <1>3, <4>3
    <3> QED BY <3>1
  <2>3. \A i \in S : scored[i].priority \in Int /\ scored[i].created \in Int /\ i \in Int
    BY <1>1 DEF Winner
  <2>4. \A i, j \in S : i # j => before(i, j) \/ before(j, i)
    BY <2>3
  <2>5. \A i, j, k \in S : before(i, j) /\ before(j, k) => before(i, k)
    BY <2>3
  <2>6. \A i, j \in S : <<i, j>> \in R <=> before(i, j)
    OBVIOUS
  <2> HIDE DEF S, before, R
  <2>7. \E i \in S : \A j \in S \ {i} : <<i, j>> \in R
    <3>1. \A i, j \in S : i # j => <<i, j>> \in R \/ <<j, i>> \in R
      BY <2>4, <2>6
    <3>2. \A i, j, k \in S : <<i, j>> \in R /\ <<j, k>> \in R => <<i, k>> \in R
      BY <2>5, <2>6
    <3> QED BY <2>1, <2>2, <3>1, <3>2, LeastExists
  <2>8. DOMAIN scored = S
    BY <1>1 DEF S
  <2>9. \E i \in DOMAIN scored : \A j \in DOMAIN scored \ {i} : before(i, j)
    <3>1. PICK i \in S : \A j \in S \ {i} : <<i, j>> \in R
      BY <2>7
    <3>2. \A j \in S \ {i} : before(i, j)
      BY <2>6, <3>1
    <3> QED BY <2>8, <3>2
  <2>10. first \in S
    BY <2>8, <2>9
  <2>11. Strongest(scored) = <<scored[first]>>
    BY <1>3 DEF Strongest, before
  <2> HIDE DEF first
  <2>12. Winner(scored[first], rules, subtotal, lines)
    BY <1>1, <2>10 DEF S
  <2> DEFINE one == <<scored[first]>>
  <2>13. DOMAIN one = 1 .. 1 /\ Len(one) = 1 /\ one[1] = scored[first]
    OBVIOUS
  <2> HIDE DEF one
  <2>14. \A i \in 1 .. 1 : Winner(one[i], rules, subtotal, lines)
    BY <2>12, <2>13
  <2>15. AllWin(one, rules, subtotal, lines)
    BY <2>13, <2>14 DEF AllWin
  <2> QED BY <2>11, <2>15 DEF one
<1> QED BY <1>2, <1>3

\* So do the winners, all of the scored or the strongest.
LEMMA WinnersWin ==
  ASSUME NEW R, \A r \in R : CartRule(r), NEW rules \in Seq(R),
         NEW lines, Entries(lines), NEW combine, NEW fromRedis
  PROVE  AllWin(Winners(rules, lines, combine, fromRedis), rules, CartTotal(lines), lines)
<1> DEFINE scored == Scored(rules, CartTotal(lines), lines, fromRedis)
           total == CartTotal(lines)
           w == Winners(rules, lines, combine, fromRedis)
<1>1. total \in Nat
  BY CartTotalType
<1> HIDE DEF total
<1>2. AllWin(Scored(rules, total, lines, fromRedis), rules, total, lines)
  BY <1>1, ScoredWin
<1>3. AllWin(Strongest(Scored(rules, total, lines, fromRedis)), rules, total, lines)
  BY <1>2, StrongestWins
<1>4. AllWin(<<>>, rules, total, lines)
  <2>1. 0 \in Nat /\ DOMAIN <<>> = 1 .. 0 /\ Len(<<>>) = 0 /\ \A i \in 1 .. 0 : FALSE
    OBVIOUS
  <2> QED BY <2>1 DEF AllWin
<1>5. w \in {<<>>, Scored(rules, total, lines, fromRedis),
             Strongest(Scored(rules, total, lines, fromRedis))}
  BY Zenon DEF Winners, total
<1> QED BY <1>2, <1>3, <1>4, <1>5 DEF total

Discounts(w) == [i \in DOMAIN w |-> w[i].discount]
Shares(w, total, capped) == [i \in DOMAIN w |-> Share(w, total, capped, i)]

\* Shares are what is to be shared out, to the last minor unit.
LEMMA SharesAddUp ==
  ASSUME NEW w, NEW n \in Nat, DOMAIN w = 1 .. n, Len(w) = n,
         \A i \in 1 .. n : w[i].discount \in Nat,
         NEW total, total = SumFunction(Discounts(w)),
         NEW capped \in Nat, capped <= total
  PROVE  /\ \A i \in 1 .. n : Share(w, total, capped, i) \in Nat
         /\ SumFunction(Shares(w, total, capped)) = capped
<1> DEFINE d == [i \in 1 .. n |-> w[i].discount]
           share == [i \in 1 .. n |-> Share(w, total, capped, i)]
           floor(j) == (w[j].discount * capped) \div total
           S == 1 .. n
           T == 1 .. n - 1
           h == [j \in T |-> floor(j)]
           Sum(f, X) == SumFunctionOnSet(f, X)
<1>1. /\ IsFiniteSet(S) /\ IsFiniteSet(T) /\ T \subseteq S
      /\ \A i \in S : d[i] = w[i].discount /\ d[i] \in Nat /\ d[i] \in Int
  <2>1. IsFiniteSet(S)
    BY FS_Interval
  <2>2. n - 1 \in Int /\ 1 \in Int
    OBVIOUS
  <2>3. IsFiniteSet(T)
    BY <2>2, FS_Interval
  <2>4. T \subseteq S
    OBVIOUS
  <2>5. \A i \in S : d[i] = w[i].discount /\ d[i] \in Nat /\ d[i] \in Int
    OBVIOUS
  <2> QED BY <2>1, <2>3, <2>4, <2>5
<1>2. /\ DOMAIN d = S /\ DOMAIN share = S /\ DOMAIN h = T
      /\ \A i \in S : share[i] = Share(w, total, capped, i)
      /\ \A j \in T : h[j] = floor(j)
  OBVIOUS
<1>3. d = Discounts(w) /\ share = Shares(w, total, capped)
  BY DEF Discounts, Shares
<1> HIDE DEF d, share, h
<1>4. total = Sum(d, S) /\ total \in Nat
  <2>1. total = SumFunction(d)
    BY <1>3
  <2>2. SumFunction(d) = Sum(d, S)
    BY <1>2 DEF SumFunction
  <2>3. Sum(d, S) \in Nat
    BY <1>1, SumNat
  <2> QED BY <2>1, <2>2, <2>3
<1>5. SumFunction(Shares(w, total, capped)) = Sum(share, S)
  BY <1>2, <1>3 DEF SumFunction
<1>6. CASE capped = total
  <2>1. \A i \in S : share[i] = d[i] /\ share[i] \in Nat
    <3>1. \A i \in S : Share(w, total, capped, i) = w[i].discount
      BY <1>6, Zenon DEF Share
    <3> QED BY <1>1, <1>2, <3>1
  <2>2. Sum(share, S) = Sum(d, S)
    BY <1>1, <2>1, SumSame
  <2> QED BY <1>2, <1>4, <1>5, <1>6, <2>1, <2>2
<1>7. CASE capped # total
  <2>1. capped < total /\ total \in Nat \ {0}
    BY <1>4, <1>7
  <2>2. n # 0
    <3>1. ASSUME n = 0 PROVE FALSE
      <4>1. \A i \in S : d[i] = 0
        BY <3>1
      <4>2. Sum(d, S) = 0
        BY <1>1, <4>1, SumZero
      <4> QED BY <1>4, <2>1, <4>2
    <3> QED BY <3>1
  <2>3. n \in S /\ S \ {n} = T /\ n - 1 \in Nat /\ \A i \in S : i < n \/ i = n
    BY <2>2
  <2>4. \A j \in S : floor(j) \in Nat /\ total * floor(j) <= capped * d[j]
    <3> SUFFICES ASSUME NEW j \in S PROVE floor(j) \in Nat /\ total * floor(j) <= capped * d[j]
      OBVIOUS
    <3> DEFINE a == d[j] * capped
    <3>1. a \in Nat /\ a = capped * d[j]
      <4> DEFINE x == d[j]
      <4>1. x \in Nat
        BY <1>1
      <4> HIDE DEF x
      <4>2. x * capped \in Nat /\ x * capped = capped * x
        BY <4>1
      <4> QED BY <4>2 DEF x
    <3>2. floor(j) = a \div total
      BY <1>1
    <3> HIDE DEF a, floor
    <3>3. a \in Int /\ total \in Nat \ {0}
      BY <2>1, <3>1
    <3>4. total * (a \div total) <= a /\ a \div total \in Nat
      BY <3>1, <3>3, Quotient
    <3> QED BY <3>1, <3>2, <3>4
  <2> HIDE DEF floor
  <2>5. \A i \in S : i < n => Share(w, total, capped, i) = floor(i)
    BY <1>7, Zenon DEF Share, floor
  <2>6. Share(w, total, capped, n) = NonNegative(capped - SumFunction(h))
    <3>1. h = [j \in 1 .. n - 1 |-> floor(j)]
      BY DEF h
    <3>2. ~(n < Len(w))
      OBVIOUS
    <3>3. Share(w, total, capped, n) = NonNegative(capped - SumFunction([j \in 1 .. n - 1 |-> floor(j)]))
      BY <1>7, <3>2, Zenon DEF Share, floor
    <3> QED BY <3>1, <3>3
  <2>7. SumFunction(h) = Sum(h, T)
    BY <1>2 DEF SumFunction
  <2>8. \A j \in T : h[j] \in Nat /\ h[j] \in Int /\ total * h[j] <= capped * d[j]
                     /\ d[j] \in Nat /\ d[j] \in Int
    BY <1>1, <1>2, <2>4
  <2>9. Sum(h, T) \in Nat /\ Sum(d, T) \in Nat
    BY <1>1, <2>8, SumNat
  <2>10. Sum(h, T) <= capped
    <3> DEFINE th == [j \in T |-> total * h[j]]
               cd == [j \in T |-> capped * d[j]]
    <3>1. \A j \in T : th[j] = total * h[j] /\ cd[j] = capped * d[j]
      OBVIOUS
    <3> HIDE DEF th, cd, S, T, h
    <3>0. IsFiniteSet(T) /\ \A j \in T : h[j] \in Int /\ d[j] \in Int
      BY <1>1, <2>8
    <3>2. total \in Int /\ capped \in Int
      BY <1>4
    <3>3. Sum(th, T) = total * Sum(h, T)
      <4>1. \A j \in T : h[j] \in Int /\ th[j] = total * h[j]
        BY <3>0, <3>1
      <4> QED BY <3>0, <3>2, <4>1, SumTimes
    <3>4. Sum(cd, T) = capped * Sum(d, T)
      <4>1. \A j \in T : d[j] \in Int /\ cd[j] = capped * d[j]
        BY <3>0, <3>1
      <4> QED BY <3>0, <3>2, <4>1, SumTimes
    <3>5. \A j \in T : th[j] \in Int /\ cd[j] \in Int /\ th[j] <= cd[j]
      <4> SUFFICES ASSUME NEW j \in T PROVE total * h[j] \in Int /\ capped * d[j] \in Int
        BY <2>8, <3>1
      <4> DEFINE x == h[j]
                 y == d[j]
      <4>1. x \in Int /\ y \in Int
        BY <2>8
      <4> HIDE DEF x, y
      <4>2. total * x \in Int /\ capped * y \in Int
        BY <3>2, <4>1
      <4> QED BY <4>2 DEF x, y
    <3>6. Sum(th, T) <= Sum(cd, T)
      BY <1>1, <3>5, SumLeast
    <3>7. Sum(d, T) <= total
      <4>1. Sum(d, S) = d[n] + Sum(d, T)
        <5>1. Sum(d, S) = d[n] + Sum(d, S \ {n})
          BY <1>1, <2>3, SumPick, ZenonT(30)
        <5> QED BY <2>3, <5>1
      <4>2. d[n] \in Nat
        BY <1>1, <2>3
      <4> QED BY <1>4, <2>9, <4>1, <4>2
    <3> DEFINE F == Sum(h, T)
               D == Sum(d, T)
    <3>8. F \in Nat /\ D \in Nat /\ total * F <= capped * D /\ D <= total
      BY <2>9, <3>3, <3>4, <3>6, <3>7
    <3> HIDE DEF F, D
    <3>9. capped * D <= capped * total
      <4>1. D \in Int /\ total \in Int /\ capped \in Nat /\ D <= total
        BY <1>4, <3>8
      <4> QED BY <4>1, TimesLess
    <3>10. ASSUME ~(F <= capped) PROVE FALSE
      <4>1. capped + 1 <= F /\ capped + 1 \in Int /\ total \in Nat
        BY <3>8, <3>10, <2>1
      <4>2. total * (capped + 1) <= total * F
        BY <3>8, <4>1, TimesLess
      <4>3. total * (capped + 1) = capped * total + total
        BY <4>1
      <4>4. capped * total \in Int /\ total * F \in Int /\ capped * D \in Int
        BY <2>1, <3>8
      <4> QED BY <2>1, <3>8, <3>9, <4>2, <4>3, <4>4
    <3> QED BY <3>10 DEF F
  <2>11. share[n] = capped - Sum(h, T) /\ share[n] \in Nat
    <3>1. capped - Sum(h, T) \in Nat
      BY <2>9, <2>10
    <3> QED BY <1>2, <2>3, <2>6, <2>7, <3>1, NonNegativeIs
  <2>12. \A j \in T : share[j] = h[j]
    <3>1. \A j \in T : j \in S /\ j < n
      BY <2>3
    <3> QED BY <1>2, <2>5, <3>1
  <2>13. \A i \in S : share[i] \in Nat /\ share[i] \in Int
    <3>1. \A i \in S : i = n \/ i \in T
      BY <2>3
    <3> QED BY <2>8, <2>11, <2>12, <3>1
  <2>14. Sum(share, S) = share[n] + Sum(share, T)
    <3>0. IsFiniteSet(S) /\ n \in S /\ S \ {n} = T /\ \A i \in S : share[i] \in Int
      BY <1>1, <2>3, <2>13
    <3> HIDE DEF S, T
    <3>1. Sum(share, S) = share[n] + Sum(share, S \ {n})
      BY <3>0, SumPick, ZenonT(30)
    <3> QED BY <3>0, <3>1
  <2>15. Sum(share, T) = Sum(h, T)
    BY <1>1, <2>8, <2>12, SumSame
  <2>16. Sum(share, S) = capped
    BY <2>9, <2>11, <2>14, <2>15
  <2> QED BY <1>2, <1>5, <2>13, <2>16
<1> QED BY <1>6, <1>7

\* What the winners get of what is taken off.
Gains(winners, total, capped) ==
  [c \in Campaigns |->
     SumFunction([i \in DOMAIN winners |->
       IF winners[i].campaign = c THEN Share(winners, total, capped, i) ELSE 0])]

\* The winners get all that is taken off, each by one of its rules.
LEMMA GainsAre ==
  ASSUME NEW w, NEW rules, NEW subtotal, NEW lines, AllWin(w, rules, subtotal, lines),
         NEW total, total = SumFunction(Discounts(w)),
         NEW capped \in Nat, capped <= total
  PROVE  LET gains == Gains(w, total, capped)
         IN /\ gains \in [Campaigns -> Nat] /\ SumFunction(gains) = capped
            /\ \A k \in Campaigns : gains[k] > 0 =>
                 /\ \E i \in DOMAIN w : w[i].campaign = k
                 /\ \E i \in DOMAIN rules : /\ rules[i].campaign = k
                                            /\ RuleDiscount(rules[i], subtotal, lines) > 0
<1>1. PICK n \in Nat : /\ DOMAIN w = 1 .. n /\ Len(w) = n
                       /\ \A i \in 1 .. n : Winner(w[i], rules, subtotal, lines)
  BY DEF AllWin
<1> DEFINE S == DOMAIN w
           gains == Gains(w, total, capped)
           share == [i \in S |-> Share(w, total, capped, i)]
           to == [i \in S |-> w[i].campaign]
           part(c) == Handed(share, to, c, S)
<1>2. \A i \in S : w[i].discount \in Nat /\ w[i].campaign \in Campaigns
  BY <1>1 DEF Winner
<1>3. (\A i \in S : share[i] \in Nat) /\ SumFunction(share) = capped
  <2>1. \A i \in 1 .. n : Share(w, total, capped, i) \in Nat
    BY <1>1, <1>2, SharesAddUp
  <2>2. SumFunction(Shares(w, total, capped)) = capped
    BY <1>1, <1>2, SharesAddUp
  <2> QED BY <1>1, <2>1, <2>2 DEF Shares
<1>4. IsFiniteSet(S) /\ IsFiniteSet(Campaigns)
  BY <1>1, FS_Interval, PriceRulesAssumption
<1>5. DOMAIN share = S /\ \A i \in S : to[i] \in Campaigns /\ to[i] = w[i].campaign
  BY <1>2
<1>6. DOMAIN gains = Campaigns /\ \A c \in Campaigns : gains[c] = SumFunctionOnSet(part(c), S)
  <2>1. ASSUME NEW c \in Campaigns PROVE gains[c] = SumFunctionOnSet(part(c), S)
    <3> DEFINE p == [i \in DOMAIN w |->
                       IF w[i].campaign = c THEN Share(w, total, capped, i) ELSE 0]
    <3>1. gains[c] = SumFunction(p)
      BY DEF Gains
    <3>2. p = part(c) /\ DOMAIN p = S
      BY DEF Handed
    <3> QED BY <3>1, <3>2 DEF SumFunction
  <2> QED BY <2>1 DEF Gains
<1> HIDE DEF share, to, gains, S
<1>7. (\A c \in Campaigns : gains[c] \in Int)
      /\ SumFunctionOnSet(gains, Campaigns) = SumFunctionOnSet(share, S)
  <2>1. \A x \in S : share[x] \in Int /\ to[x] \in Campaigns
    BY <1>3, <1>5
  <2> QED BY <1>4, <1>6, <2>1, SumHandedOut
<1>8. \A c \in Campaigns : \A i \in S : part(c)[i] \in Nat
  BY <1>3 DEF Handed
<1>9. \A c \in Campaigns : gains[c] \in Nat
  <2> SUFFICES ASSUME NEW c \in Campaigns PROVE gains[c] \in Nat
    OBVIOUS
  <2> DEFINE p == part(c)
  <2>1. \A i \in S : p[i] \in Nat
    BY <1>8
  <2> HIDE DEF p
  <2>2. SumFunctionOnSet(p, S) \in Nat
    BY <1>4, <2>1, SumNat
  <2> QED BY <1>6, <2>2 DEF p
<1>10. SumFunction(gains) = capped
  BY <1>3, <1>5, <1>6, <1>7 DEF SumFunction
<1>11. gains \in [Campaigns -> Nat]
  <2>1. gains = [c \in Campaigns |-> gains[c]]
    BY DEF gains, Gains
  <2> QED BY <1>9, <2>1
<1>12. ASSUME NEW k \in Campaigns, gains[k] > 0
       PROVE  \E i \in S : w[i].campaign = k
  <2> DEFINE p == part(k)
  <2>1. \A i \in S : p[i] \in Nat /\ p[i] \in Int /\ (p[i] > 0 => to[i] = k)
    BY <1>3 DEF Handed
  <2> HIDE DEF p
  <2>2. SumFunctionOnSet(p, S) > 0
    BY <1>6, <1>12 DEF p
  <2>3. \E i \in S : p[i] > 0
    BY <1>4, <2>1, <2>2, SumPositive
  <2> QED BY <1>5, <2>1, <2>3
<1>13. ASSUME NEW k \in Campaigns, gains[k] > 0
       PROVE  \E i \in DOMAIN rules : /\ rules[i].campaign = k
                                      /\ RuleDiscount(rules[i], subtotal, lines) > 0
  <2>1. PICK i \in S : w[i].campaign = k
    BY <1>12, <1>13
  <2>2. Winner(w[i], rules, subtotal, lines)
    BY <1>1, <2>1 DEF S
  <2> QED BY <2>1, <2>2 DEF Winner
<1> QED BY <1>10, <1>11, <1>12, <1>13 DEF gains, S

Taken(d, b) == [k \in Campaigns |-> d.credit[k] - b.credit[k]]
CampaignsOf(winners) == {winners[i].campaign : i \in DOMAIN winners}

\* What automatic offers make of a bill.
TakesOff(b, w, rules, given, d) ==
  /\ d = [b EXCEPT !.auto = d.auto, !.afterAuto = d.afterAuto, !.remaining = d.afterAuto,
                   !.campaigns = d.campaigns, !.credit = d.credit]
  /\ d.auto \in Nat /\ d.auto <= Due(b.lines)
  /\ d.afterAuto = Due(b.lines) - d.auto
  /\ given \in [Campaigns -> Nat] /\ SumFunction(given) = d.auto
  /\ d.credit = Plus(b.credit, given)
  /\ d.campaigns = b.campaigns \cup CampaignsOf(w)
  /\ \A k \in Campaigns : given[k] > 0 =>
       /\ k \in d.campaigns
       /\ \E i \in DOMAIN rules :
            /\ rules[i].campaign = k
            /\ RuleDiscount(rules[i], Due(b.lines), Amounts(b.lines)) > 0

\* Automatic offers take from what is due and credit it to their campaigns.
LEMMA AutoIs ==
  ASSUME NEW b, BillOK(b), b.lines \in Seq(Lines), b.credit \in [Campaigns -> Nat],
         NEW w, NEW rules, AllWin(w, rules, Due(b.lines), Amounts(b.lines)),
         NEW d, d = EvaluateAutoCartRules(b, w),
         NEW given, given = Taken(d, b)
  PROVE  TakesOff(b, w, rules, given, d)
<1> DEFINE subtotal == CartTotal(Amounts(b.lines))
           total == SumFunction([i \in DOMAIN w |-> w[i].discount])
           capped == Least(total, NonNegative(subtotal))
           after == NonNegative(subtotal - capped)
           gains == Gains(w, total, capped)
<1>1. subtotal = Due(b.lines) /\ Due(b.lines) \in Nat
  BY AmountsIs, LinesTotal
<1>2. total \in Nat
  <2> DEFINE f == [i \in DOMAIN w |-> w[i].discount]
  <2>1. PICK n \in Nat : /\ DOMAIN w = 1 .. n /\ Len(w) = n
                         /\ \A i \in 1 .. n : Winner(w[i], rules, Due(b.lines), Amounts(b.lines))
    BY DEF AllWin
  <2>2. \A i \in 1 .. n : w[i].discount \in Nat
    BY <2>1 DEF Winner
  <2>3. IsFiniteSet(1 .. n)
    <3>1. 1 \in Int /\ n \in Int
      OBVIOUS
    <3> QED BY <3>1, FS_Interval, Zenon
  <2>4. IsFiniteSet(DOMAIN f) /\ \A i \in DOMAIN f : f[i] \in Nat
    BY <2>1, <2>2, <2>3
  <2> HIDE DEF f
  <2>5. SumFunction(f) \in Nat
    BY <2>4, SumType
  <2> QED BY <2>5 DEF f
<1>3. d = TakeOff(b, w, total, capped, after)
  BY DEF EvaluateAutoCartRules
<1>0. total = SumFunction(Discounts(w))
  BY DEF Discounts
<1> HIDE DEF subtotal, total
<1>4. /\ capped \in Nat /\ capped <= total /\ capped <= Due(b.lines)
      /\ after = Due(b.lines) - capped /\ after \in Nat
  <2>1. NonNegative(subtotal) = Due(b.lines)
    BY <1>1, NonNegativeIs
  <2>2. capped \in Nat /\ capped <= total /\ capped <= Due(b.lines)
    BY <1>1, <1>2, <2>1, LeastIs
  <2>3. subtotal - capped \in Nat
    BY <1>1, <2>2
  <2> HIDE DEF capped
  <2> QED BY <1>1, <2>2, <2>3, NonNegativeIs
<1> HIDE DEF capped, after
<1>5. /\ gains \in [Campaigns -> Nat] /\ SumFunction(gains) = capped
      /\ \A k \in Campaigns : gains[k] > 0 =>
           /\ \E i \in DOMAIN w : w[i].campaign = k
           /\ \E i \in DOMAIN rules :
                /\ rules[i].campaign = k
                /\ RuleDiscount(rules[i], Due(b.lines), Amounts(b.lines)) > 0
  BY <1>0, <1>4, GainsAre
<1>6. d = [b EXCEPT !.auto = capped, !.afterAuto = after, !.remaining = after,
                    !.campaigns = b.campaigns \cup {w[i].campaign : i \in DOMAIN w},
                    !.credit = [c \in Campaigns |-> b.credit[c] + gains[c]]]
  BY <1>3, Zenon DEF TakeOff, Gains
<1> HIDE DEF gains
<1> DEFINE campaigns == b.campaigns \cup {w[i].campaign : i \in DOMAIN w}
           credit == [c \in Campaigns |-> b.credit[c] + gains[c]]
<1>7. d = [b EXCEPT !.auto = capped, !.afterAuto = after, !.remaining = after,
                    !.campaigns = campaigns, !.credit = credit]
  BY <1>6
<1>8. credit = Plus(b.credit, gains)
  BY DEF Plus
<1>9. gains = [k \in Campaigns |-> credit[k] - b.credit[k]]
  <2>1. \A k \in Campaigns : gains[k] \in Nat /\ b.credit[k] \in Nat
    BY <1>5
  <2>2. \A k \in Campaigns : credit[k] - b.credit[k] = gains[k]
    BY <2>1
  <2> QED BY <1>5, <2>2
<1> HIDE DEF campaigns, credit
<1>10. /\ d.auto = capped /\ d.afterAuto = after /\ d.campaigns = campaigns /\ d.credit = credit
  BY <1>7 DEF BillOK
<1>11. given = gains
  BY <1>9, <1>10 DEF Taken
<1>12. \A k \in Campaigns : gains[k] > 0 => k \in campaigns
  BY <1>5 DEF campaigns
<1>13. d = [b EXCEPT !.auto = d.auto, !.afterAuto = d.afterAuto,
                     !.remaining = d.afterAuto, !.campaigns = d.campaigns,
                     !.credit = d.credit]
  BY <1>7, <1>10
<1>14. d.credit = Plus(b.credit, given) /\ given \in [Campaigns -> Nat]
       /\ SumFunction(given) = d.auto /\ d.auto \in Nat /\ d.auto <= Due(b.lines)
       /\ d.afterAuto = Due(b.lines) - d.auto
  BY <1>4, <1>5, <1>8, <1>10, <1>11
<1>15. d.campaigns = b.campaigns \cup CampaignsOf(w)
  BY <1>10 DEF campaigns, CampaignsOf
<1>16. \A k \in Campaigns : given[k] > 0 =>
         /\ k \in d.campaigns
         /\ \E i \in DOMAIN rules :
              /\ rules[i].campaign = k
              /\ RuleDiscount(rules[i], Due(b.lines), Amounts(b.lines)) > 0
  BY <1>5, <1>10, <1>11, <1>12
<1> QED BY <1>13, <1>14, <1>15, <1>16 DEF TakesOff

-----------------------------------------------------------------------------
(* Coupons.                                                                 *)

\* Without a reason none of the conditions applies.
LEMMA NoReason ==
  ASSUME NEW n \in Nat, NEW pairs, Len(pairs) = n,
         \A i \in 1 .. n : pairs[i][1] # "none",
         FirstReason(pairs) = "none"
  PROVE  \A i \in 1 .. n : ~pairs[i][2]
<1> DEFINE I == {i \in 1 .. Len(pairs) : pairs[i][2]}
<1>1. FirstReason(pairs) = IF (IF I # {} THEN Min(I) ELSE 0) = 0 THEN "none"
                           ELSE pairs[IF I # {} THEN Min(I) ELSE 0][1]
  BY DEF FirstReason, SelectInSeq
<1>2. ASSUME I # {} PROVE FALSE
  <2>1. I \subseteq 1 .. n /\ IsFiniteSet(1 .. n)
    BY FS_Interval
  <2>2. IsFiniteSet(I) /\ I \subseteq Int
    BY <2>1, FS_Subset
  <2> DEFINE m == Min(I)
  <2>3. m \in I
    <3> HIDE DEF I
    <3> QED BY <1>2, <2>2, MinIs
  <2> HIDE DEF m
  <2>4. m \in 1 .. n /\ m # 0
    BY <2>1, <2>3
  <2>5. FirstReason(pairs) = pairs[m][1]
    BY <1>1, <1>2, <2>4 DEF m
  <2> QED BY <2>4, <2>5
<1> QED BY <1>2

-----------------------------------------------------------------------------
(* What a call keeps.                                                       *)

\* A coupon takes a natural number off, and at most what is left.
LEMMA DiscountFits ==
  ASSUME NEW b, b.remaining \in Nat, NEW k
  PROVE  CouponDiscount(b, k) \in 0 .. b.remaining
<1> DEFINE d == RulesDiscount(shop.coupon[k].rules, b.remaining,
                      ScaleLinesToPayable(Amounts(b.lines), b.remaining))
<1>1. d \in Nat
  BY NonNegativeType DEF RulesDiscount
<1>2. CouponDiscount(b, k) = Least(d, b.remaining)
  BY DEF CouponDiscount
<1> HIDE DEF d
<1> QED BY <1>1, <1>2 DEF Least

\* The codes that are tried are distinct codes.
LEMMA CodesFacts ==
  ASSUME shop \in Shops
  PROVE  /\ CodesToTry \in Seq(Codes)
         /\ \A i, j \in 1 .. Len(CodesToTry) : CodesToTry[i] = CodesToTry[j] => i = j
<1>1. /\ shop.codes \in Seq(Codes)
      /\ shop.maxCoupons \in Nat \ {0}
      /\ \A i, j \in DOMAIN shop.codes : shop.codes[i] = shop.codes[j] => i = j
  BY PricingAssumption
<1> DEFINE n == Least(Len(shop.codes), shop.maxCoupons)
<1>2. n \in 0 .. Len(shop.codes)
  BY <1>1 DEF Least
<1> HIDE DEF n
<1>3. /\ SubSeq(shop.codes, 1, n) \in Seq(Codes)
      /\ Len(SubSeq(shop.codes, 1, n)) = n
      /\ \A i \in 1 .. n : SubSeq(shop.codes, 1, n)[i] = shop.codes[i]
  BY <1>1, <1>2
<1>4. CodesToTry = SubSeq(shop.codes, 1, n)
  BY DEF CodesToTry, n
<1> QED BY <1>1, <1>2, <1>3, <1>4

\* Whether a bundle is in the cart depends on its bundles and lines alone.
LEMMA BxgySame ==
  ASSUME NEW b, NEW d, b.bundle = d.bundle, b.lines = d.lines
  PROVE  Bxgy(b) <=> Bxgy(d)
  BY DEF Bxgy

\* What is taken off leaves the rest of the bill alone.
LEMMA TakeOffIs ==
  ASSUME NEW b, BillOK(b), NEW w
  PROVE  LET d == EvaluateAutoCartRules(b, w)
         IN /\ BillOK(d)
            /\ d.remaining = d.afterAuto
            /\ d.coupon = b.coupon /\ d.applied = b.applied
            /\ d.lines = b.lines /\ d.bundle = b.bundle /\ d.onSale = b.onSale
<1>1. PICK total, capped, after :
        /\ after \in Nat
        /\ EvaluateAutoCartRules(b, w) = TakeOff(b, w, total, capped, after)
  BY NonNegativeType DEF EvaluateAutoCartRules
<1> QED BY <1>1, ZenonT(30) DEF TakeOff, BillOK

-----------------------------------------------------------------------------
(* Steps.                                                                   *)

\* A call that has not begun is in order.
THEOREM InitInv == Init => Inv
<1> SUFFICES ASSUME Init PROVE Inv
  OBVIOUS
<1> USE DEF Init
<1>1. CodesToTry \in Seq(Codes)
  BY CodesFacts
<1>2. TypeOK
  <2>1. usedByAll \in [Codes -> Nat] /\ usedByMe \in [Codes -> Nat]
    OBVIOUS
  <2>2. changesLeft \in 0 .. ChangeBudget
    BY PricingAssumption
  <2>3. pc \in [Calls -> Stages]
    BY DEF Stages
  <2>4. sees \in [Calls -> [paused : BOOLEAN, bundles : BOOLEAN,
                           ordered : BOOLEAN, newcomer : BOOLEAN]]
    BY Zenon
  <2>5. redis \in [paused : BOOLEAN, running : BOOLEAN, live : SUBSET Codes]
    <3>1. live \in SUBSET Codes
      OBVIOUS
    <3> QED BY <3>1, Zenon
  <2>6. ASSUME NEW c \in Calls
        PROVE  /\ bill[c].afterAuto \in Nat /\ bill[c].coupon \in Nat
               /\ bill[c].remaining \in Nat /\ bill[c].applied \in Seq(Codes)
               /\ at[c] \in 1 .. Len(CodesToTry) + 1
    <3>1. bill[c] = NoBill /\ at[c] = 1
      OBVIOUS
    <3>2. at[c] \in 1 .. Len(CodesToTry) + 1
      BY <1>1, <3>1
    <3>3. << >> \in Seq(Codes)
      OBVIOUS
    <3> QED BY <3>1, <3>2, <3>3 DEF NoBill
  <2>7. live \subseteq Codes /\ guests \subseteq Previews
    OBVIOUS
  <2>8. paused \in BOOLEAN /\ running \in BOOLEAN
        /\ ordered \in BOOLEAN /\ newcomer \in BOOLEAN
    BY Zenon
  <2> QED
    BY <2>1, <2>2, <2>3, <2>4, <2>5, <2>6, <2>7, <2>8 DEF TypeOK
<1>3. bill = [c \in Calls |-> bill[c]] /\ at = [c \in Calls |-> at[c]]
  OBVIOUS
<1>4. \A c \in Calls : CallInv(c)
  <2> TAKE c \in Calls
  <2>1. bill[c] = NoBill /\ at[c] = 1 /\ pc[c] = "new"
    OBVIOUS
  <2>2. BillOK(bill[c])
    <3>1. 0 \in Nat /\ << >> \in Seq(Codes)
      OBVIOUS
    <3>2. NoBill \in [lines : {<< >>}, onSale : BOOLEAN, bundle : {0}, auto : {0},
                     afterAuto : Nat, coupon : Nat, remaining : Nat, campaigns : {{}},
                     credit : {Nothing}, given : {Nothing}, told : {{}}, ahead : {{}},
                     applied : Seq(Codes), rejected : {"none"}]
      BY <3>1, Zenon DEF NoBill
    <3>3. /\ NoBill.lines = << >> /\ NoBill.bundle = 0 /\ NoBill.auto = 0
          /\ NoBill.campaigns = {} /\ NoBill.credit = Nothing
          /\ NoBill.given = Nothing /\ NoBill.told = {} /\ NoBill.ahead = {}
          /\ NoBill.rejected = "none"
      BY DEF NoBill
    <3>4. BillOK(NoBill)
      BY <3>2, <3>3, Zenon DEF BillOK
    <3> QED BY <2>1, <3>4, Zenon
  <2>3. AppliedOnce(bill[c], 0)
    BY <2>1 DEF AppliedOnce, NoBill
  <2> QED BY <1>1, <2>1, <2>2, <2>3 DEF CallInv, Early, NoBill
<1> QED BY <1>2, <1>3, <1>4 DEF Inv

\* A call keeps its invariant when nothing of it changes.
LEMMA Untouched ==
  ASSUME NEW c, CallInv(c), shop' = shop,
         bill'[c] = bill[c], at'[c] = at[c], pc'[c] = pc[c], sees'[c] = sees[c]
  PROVE  CallInv(c)'
<1>1. CodesToTry' = CodesToTry
  BY DEF CodesToTry
<1>2. BillOK(bill[c])' /\ Bxgy(bill[c])' = Bxgy(bill[c])
  BY DEF CallInv, BillOK, Bxgy
<1>3. AppliedOnce(bill[c], at[c] - 1)'
  BY <1>1 DEF CallInv, AppliedOnce
<1>4. \A n : AllApplied(bill[c], n)' <=> AllApplied(bill[c], n)
  BY <1>1 DEF AllApplied
<1> QED BY <1>1, <1>2, <1>3, <1>4 DEF CallInv

\* A step of a call that has tried no coupon yet.
LEMMA EarlyStep ==
  ASSUME Inv, NEW c \in Calls, pc[c] \in Early, shop' = shop, at' = at,
         bill' = [bill EXCEPT ![c] = bill'[c]],
         BillOK(bill'[c]), bill'[c].remaining = bill'[c].afterAuto,
         bill'[c].coupon = 0, bill'[c].applied = <<>>,
         pc' = [pc EXCEPT ![c] = pc'[c]],
         \A d \in Calls \ {c} : sees'[d] = sees[d],
         pc'[c] \in {"customer", "coupons"} =>
           CodesToTry # <<>> /\ ~Bxgy(bill'[c]),
         pc'[c] \in {"done", "answered"} /\ c \notin Previews =>
           CodesToTry = <<>> \/ sees'[c].paused
  PROVE  /\ bill' = [d \in Calls |-> bill'[d]]
         /\ at' = [d \in Calls |-> at'[d]]
         /\ \A d \in Calls : CallInv(d)'
<1>1. CodesToTry \in Seq(Codes) /\ CodesToTry' = CodesToTry
  BY CodesFacts DEF Inv, TypeOK, CodesToTry
<1>2. bill' = [d \in Calls |-> bill'[d]] /\ at' = [d \in Calls |-> at'[d]]
  BY DEF Inv
<1>3. ASSUME NEW d \in Calls \ {c} PROVE CallInv(d)'
  BY <1>3, Untouched DEF Inv, TypeOK
<1>4. CallInv(c)'
  <2>1. at'[c] = 1 /\ CallInv(c)
    BY DEF Inv, CallInv
  <2>3. bill'[c].afterAuto \in Nat
    BY DEF BillOK
  <2>4. AppliedOnce(bill[c], at[c] - 1)'
    BY <2>1 DEF AppliedOnce
  <2>5. pc'[c] \in {"customer", "coupons"} => 1 <= Len(CodesToTry)
    BY <1>1
  <2>6. (AllApplied(bill[c], 0))'
    BY DEF AllApplied
  <2>7. CodesToTry = <<>> => Len(CodesToTry) = 0
    OBVIOUS
  <2>8. BillOK(bill[c])'
    BY DEF BillOK
  <2>9. ~Bxgy(bill'[c]) => ~Bxgy(bill[c])'
    BY DEF Bxgy
  <2> QED
    BY <1>1, <2>1, <2>3, <2>4, <2>5, <2>6, <2>7, <2>8, <2>9 DEF CallInv
<1> QED BY <1>2, <1>3, <1>4

Sights == [paused : BOOLEAN, bundles : BOOLEAN, ordered : BOOLEAN, newcomer : BOOLEAN]

\* With the calls in order, the types of what a call changes follow.
LEMMA CallStep ==
  ASSUME Inv, UNCHANGED world, pc' \in [Calls -> Stages], sees' \in [Calls -> Sights],
         bill' = [d \in Calls |-> bill'[d]], at' = [d \in Calls |-> at'[d]],
         \A d \in Calls : CallInv(d)'
  PROVE  Inv'
<1>1. \A d \in Calls : /\ bill'[d].afterAuto \in Nat /\ bill'[d].coupon \in Nat
                       /\ bill'[d].remaining \in Nat /\ bill'[d].applied \in Seq(Codes)
                       /\ at'[d] \in 1 .. Len(CodesToTry') + 1
  BY DEF CallInv, BillOK
<1>2. TypeOK'
  BY <1>1 DEF Inv, TypeOK, world, customers, Sights
<1> QED BY <1>2 DEF Inv

\* Reading the settings keeps a call in order.
LEMMA ReadSettingsStep ==
  ASSUME Inv, NEW c \in Calls, ReadSettings(c) PROVE Inv'
<1>1. PICK p \in {redis.paused, paused} : sees' = [sees EXCEPT ![c].paused = p]
  BY DEF ReadSettings
<1>2. p \in BOOLEAN
  BY DEF Inv, TypeOK
<1>3. sees' \in [Calls -> Sights] /\ \A d \in Calls \ {c} : sees'[d] = sees[d]
  BY <1>1, <1>2, ZenonT(30) DEF Inv, TypeOK, Sights
<1>4. pc[c] = "new" /\ pc' = [pc EXCEPT ![c] = "offers"] /\ pc'[c] = "offers"
  BY DEF ReadSettings, Inv, TypeOK
<1>5. pc' \in [Calls -> Stages]
  BY <1>4 DEF Inv, TypeOK, Stages
<1>6. bill' = bill /\ at' = at /\ UNCHANGED world /\ shop' = shop
  BY DEF ReadSettings, world
<1>7. CallInv(c) /\ bill' = [bill EXCEPT ![c] = bill'[c]]
  BY <1>6 DEF Inv
<1>8. /\ BillOK(bill'[c]) /\ bill'[c].remaining = bill'[c].afterAuto
      /\ bill'[c].coupon = 0 /\ bill'[c].applied = <<>>
  BY <1>4, <1>6, <1>7 DEF CallInv, BillOK, Early
<1>9. /\ bill' = [d \in Calls |-> bill'[d]] /\ at' = [d \in Calls |-> at'[d]]
      /\ \A d \in Calls : CallInv(d)'
  BY <1>3, <1>4, <1>6, <1>7, <1>8, EarlyStep DEF Early
<1> QED BY <1>3, <1>5, <1>6, <1>9, CallStep

\* A basket that is refused, or has nothing to show, is not priced at all.
LEMMA NoCartStep ==
  ASSUME Inv, NEW c \in Calls, RefuseBasket(c) \/ ShowNothing(c) PROVE Inv'
<1>1. PICK next \in {"refused", "answered"} :
        /\ pc' = [pc EXCEPT ![c] = next]
        /\ next = "answered" => c \in Previews
  BY DEF RefuseBasket, ShowNothing
<1>2. PICK reason : bill' = [bill EXCEPT ![c].rejected = reason]
  <2>1. CASE RefuseBasket(c)
    BY <2>1, Zenon DEF RefuseBasket
  <2>2. CASE ShowNothing(c)
    <3>1. bill' = [bill EXCEPT ![c].rejected = bill[c].rejected]
      <4>1. bill' = bill /\ bill = [d \in Calls |-> bill[d]] /\ BillOK(bill[c])
        BY <2>2 DEF ShowNothing, Inv, CallInv
      <4>2. [bill[c] EXCEPT !.rejected = bill[c].rejected] = bill[c]
        BY <4>1 DEF BillOK
      <4> QED BY <4>1, <4>2
    <3> QED BY <3>1
  <2> QED BY <2>1, <2>2
<1>3. pc[c] = "new" /\ at' = at /\ sees' = sees /\ UNCHANGED world /\ shop' = shop
  BY DEF RefuseBasket, ShowNothing, world
<1>4. pc'[c] = next /\ pc' = [pc EXCEPT ![c] = pc'[c]]
  BY <1>1 DEF Inv, TypeOK
<1>5. pc' \in [Calls -> Stages] /\ sees' \in [Calls -> Sights]
  BY <1>1, <1>3 DEF Inv, TypeOK, Stages, Sights
<1>6. CallInv(c) /\ bill = [d \in Calls |-> bill[d]]
  BY DEF Inv
<1>7. bill'[c] = [bill[c] EXCEPT !.rejected = reason]
      /\ bill' = [bill EXCEPT ![c] = bill'[c]]
  BY <1>2, <1>6
<1>8. /\ BillOK(bill'[c]) /\ bill'[c].remaining = bill'[c].afterAuto
      /\ bill'[c].coupon = 0 /\ bill'[c].applied = <<>>
  <2> DEFINE b == bill[c]
             d == bill'[c]
  <2>1. /\ BillOK(b) /\ b.coupon = 0 /\ b.applied = <<>>
        /\ b.coupon + b.remaining = b.afterAuto /\ b.remaining \in Nat
    BY <1>3, <1>6 DEF CallInv, BillOK, Early
  <2> HIDE DEF b, d
  <2>2. d = [b EXCEPT !.rejected = reason]
    BY <1>7 DEF b, d
  <2>3. /\ BillOK(d) /\ d.remaining = b.remaining /\ d.afterAuto = b.afterAuto
        /\ d.coupon = b.coupon /\ d.applied = b.applied
    BY <2>1, <2>2 DEF BillOK
  <2> QED BY <2>1, <2>3 DEF d
<1>9. /\ bill' = [d \in Calls |-> bill'[d]] /\ at' = [d \in Calls |-> at'[d]]
      /\ \A d \in Calls : CallInv(d)'
  BY <1>1, <1>3, <1>4, <1>7, <1>8, EarlyStep DEF Early
<1> QED BY <1>3, <1>5, <1>9, CallStep

\* So does reading what is on sale.
LEMMA ReadOffersStep ==
  ASSUME Inv, NEW c \in Calls, ReadOffers(c) PROVE Inv'
<1> DEFINE reads == ~shop.couponsOnly /\ ~sees[c].paused
<1>1. PICK bundles, lines :
        /\ sees' = [sees EXCEPT ![c].bundles = reads /\ bundles]
        /\ LET campaigns == UNION {lines[i].campaigns : i \in DOMAIN lines}
           IN bill' = [bill EXCEPT ![c] =
                [@ EXCEPT !.lines = lines,
                          !.onSale = campaigns # {},
                          !.campaigns = campaigns,
                          !.credit = SaleCredit(lines)]]
  BY Zenon DEF ReadOffers
<1> DEFINE campaigns == UNION {lines[i].campaigns : i \in DOMAIN lines}
           credit == SaleCredit(lines)
<1>0. bill' = [bill EXCEPT ![c] = [@ EXCEPT !.lines = lines,
                                            !.onSale = campaigns # {},
                                            !.campaigns = campaigns,
                                            !.credit = credit]]
  BY <1>1
<1> HIDE DEF campaigns, credit
<1>2. sees' \in [Calls -> Sights] /\ \A d \in Calls \ {c} : sees'[d] = sees[d]
  <2> DEFINE seen == reads /\ bundles
  <2>1. seen \in BOOLEAN /\ sees' = [sees EXCEPT ![c].bundles = seen]
    BY <1>1
  <2> HIDE DEF seen
  <2> QED BY <2>1, ZenonT(30) DEF Inv, TypeOK, Sights
<1>3. pc[c] = "offers" /\ pc' = [pc EXCEPT ![c] = "bundles"] /\ pc'[c] = "bundles"
  BY DEF ReadOffers, Inv, TypeOK
<1>4. pc' \in [Calls -> Stages]
  BY <1>3 DEF Inv, TypeOK, Stages
<1>5. at' = at /\ UNCHANGED world /\ shop' = shop
  BY DEF ReadOffers, world
<1>6. CallInv(c) /\ bill = [d \in Calls |-> bill[d]]
  BY DEF Inv
<1>7. bill'[c] = [bill[c] EXCEPT !.lines = lines, !.onSale = campaigns # {},
                                 !.campaigns = campaigns, !.credit = credit]
      /\ bill' = [bill EXCEPT ![c] = bill'[c]]
  BY <1>0, <1>6
<1>8. /\ BillOK(bill'[c]) /\ bill'[c].remaining = bill'[c].afterAuto
      /\ bill'[c].coupon = 0 /\ bill'[c].applied = <<>>
  <2> DEFINE b == bill[c]
             d == bill'[c]
  <2>1. /\ BillOK(b) /\ b.coupon = 0 /\ b.applied = <<>>
        /\ b.coupon + b.remaining = b.afterAuto /\ b.remaining \in Nat
    BY <1>3, <1>6 DEF CallInv, BillOK, Early
  <2>2. (campaigns # {}) \in BOOLEAN
    OBVIOUS
  <2> HIDE DEF b, d
  <2>3. d = [b EXCEPT !.lines = lines, !.onSale = campaigns # {},
                      !.campaigns = campaigns, !.credit = credit]
    BY <1>7 DEF b, d
  <2>9. /\ BillOK(d) /\ d.remaining = b.remaining /\ d.afterAuto = b.afterAuto
        /\ d.coupon = b.coupon /\ d.applied = b.applied
    BY <2>1, <2>2, <2>3 DEF BillOK
  <2> QED BY <2>1, <2>9 DEF d
<1>9. /\ bill' = [d \in Calls |-> bill'[d]] /\ at' = [d \in Calls |-> at'[d]]
      /\ \A d \in Calls : CallInv(d)'
  BY <1>2, <1>3, <1>5, <1>7, <1>8, EarlyStep DEF Early
<1> QED BY <1>2, <1>4, <1>5, <1>9, CallStep

\* So does giving bundles.
LEMMA GiveBundlesStep ==
  ASSUME Inv, NEW c \in Calls, GiveBundles(c) PROVE Inv'
<1>1. PICK lines, bundle, campaigns, credit :
        bill' = [bill EXCEPT ![c] = [bill[c] EXCEPT !.lines = lines, !.bundle = bundle,
                                              !.campaigns = campaigns, !.credit = credit]]
  <2>1. PICK given : bill' = [bill EXCEPT ![c] = WithGifts(@, given)]
    BY Zenon DEF GiveBundles
  <2>2. bill' = [bill EXCEPT ![c] = WithGifts(bill[c], given)]
    BY <2>1
  <2> QED BY <2>2, Zenon DEF WithGifts
<1>2. pc[c] = "bundles" /\ pc' = [pc EXCEPT ![c] = "rules"] /\ pc'[c] = "rules"
  BY DEF GiveBundles, Inv, TypeOK
<1>3. pc' \in [Calls -> Stages] /\ sees' \in [Calls -> Sights]
  BY <1>2 DEF Inv, TypeOK, Stages, GiveBundles, Sights
<1>4. at' = at /\ sees' = sees /\ UNCHANGED world /\ shop' = shop
  BY DEF GiveBundles, world
<1>5. CallInv(c) /\ bill = [d \in Calls |-> bill[d]]
  BY DEF Inv
<1>6. bill'[c] = [bill[c] EXCEPT !.lines = lines, !.bundle = bundle,
                                 !.campaigns = campaigns, !.credit = credit]
      /\ bill' = [bill EXCEPT ![c] = bill'[c]]
  BY <1>1, <1>5
<1>7. /\ BillOK(bill'[c]) /\ bill'[c].remaining = bill'[c].afterAuto
      /\ bill'[c].coupon = 0 /\ bill'[c].applied = <<>>
  <2> DEFINE b == bill[c]
             d == bill'[c]
  <2>1. /\ BillOK(b) /\ b.coupon = 0 /\ b.applied = <<>>
        /\ b.coupon + b.remaining = b.afterAuto /\ b.remaining \in Nat
    BY <1>2, <1>5 DEF CallInv, BillOK, Early
  <2> HIDE DEF b, d
  <2>2. d = [b EXCEPT !.lines = lines, !.bundle = bundle,
                      !.campaigns = campaigns, !.credit = credit]
    BY <1>6 DEF b, d
  <2>9. /\ BillOK(d) /\ d.remaining = b.remaining /\ d.afterAuto = b.afterAuto
        /\ d.coupon = b.coupon /\ d.applied = b.applied
    BY <2>1, <2>2 DEF BillOK
  <2> QED BY <2>1, <2>9 DEF d
<1>8. /\ bill' = [d \in Calls |-> bill'[d]] /\ at' = [d \in Calls |-> at'[d]]
      /\ \A d \in Calls : CallInv(d)'
  BY <1>2, <1>4, <1>6, <1>7, EarlyStep DEF Early
<1> QED BY <1>3, <1>4, <1>8, CallStep

\* So do automatic offers: with a bundle, no coupon is tried after them.
LEMMA ReadRulesStep ==
  ASSUME Inv, NEW c \in Calls, ReadRules(c) PROVE Inv'
<1>1. PICK rules, winners :
        bill' = [bill EXCEPT ![c] = WithOffers(bill[c], rules, winners)]
  BY Zenon DEF ReadRules
<1>2. pc[c] = "rules" /\ CallInv(c) /\ bill = [d \in Calls |-> bill[d]]
  BY DEF ReadRules, Inv
<1> DEFINE b == bill[c]
           e == EvaluateAutoCartRules(bill[c], winners)
           d == bill'[c]
<1>3. /\ BillOK(e) /\ e.remaining = e.afterAuto
      /\ e.coupon = b.coupon /\ e.applied = b.applied
      /\ e.lines = b.lines /\ e.bundle = b.bundle
  BY <1>2, TakeOffIs DEF CallInv
<1>4. /\ \E given, told, ahead, rejected :
            d = [e EXCEPT !.given = given, !.told = told, !.ahead = ahead,
                          !.rejected = rejected]
      /\ bill' = [bill EXCEPT ![c] = d]
  <2>1. d = WithOffers(b, rules, winners) /\ bill' = [bill EXCEPT ![c] = d]
    BY <1>1, <1>2
  <2> DEFINE lines == Amounts(b.lines)
             given == [k \in Campaigns |-> e.credit[k] - b.credit[k]]
             told == OffersTold(rules, given, CartTotal(lines), lines)
             ahead == OffersAhead(rules, given, CartTotal(lines), lines)
             rejected == IF Bxgy(b) /\ CodesToTry # <<>>
                         THEN "COUPON_NOT_WITH_BUNDLE" ELSE e.rejected
  <2>2. WithOffers(b, rules, winners) =
          [e EXCEPT !.given = given, !.told = told, !.ahead = ahead, !.rejected = rejected]
    BY DEF WithOffers
  <2> HIDE DEF b, d, e, lines, given, told, ahead, rejected
  <2>3. d = [e EXCEPT !.given = given, !.told = told, !.ahead = ahead,
                      !.rejected = rejected]
    BY <2>1, <2>2
  <2>4. \E x1, x2, x3, x4 : d = [e EXCEPT !.given = x1, !.told = x2, !.ahead = x3,
                                        !.rejected = x4]
    <3> WITNESS given, told, ahead, rejected
    <3> QED BY <2>3
  <2> QED BY <2>1, <2>4
<1>5. b.coupon = 0 /\ b.applied = <<>>
  BY <1>2 DEF CallInv, Early
<1> HIDE DEF b, e, d
<1>6. /\ BillOK(d) /\ d.remaining = d.afterAuto
      /\ d.coupon = 0 /\ d.applied = <<>>
      /\ d.lines = b.lines /\ d.bundle = b.bundle
  BY <1>3, <1>4, <1>5 DEF BillOK
<1>7. Bxgy(d) <=> Bxgy(b)
  BY <1>6, BxgySame
<1> USE DEF b, d
<1>8. at' = at /\ sees' = sees /\ UNCHANGED world /\ shop' = shop
  BY DEF ReadRules, world
<1>9. /\ pc' = [pc EXCEPT ![c] = pc'[c]]
      /\ pc'[c] \in {"customer", "coupons", "done", "refused"}
      /\ pc'[c] \in {"customer", "coupons"} => CodesToTry # <<>> /\ ~Bxgy(bill[c])
      /\ pc'[c] = "done" /\ c \notin Previews => CodesToTry = <<>> \/ sees[c].paused
  <2> DEFINE next == CASE CodesToTry = <<>> -> "done"
         [] CodesToTry # <<>> /\ Bxgy(bill[c]) -> IF c \in Previews THEN "done" ELSE "refused"
         [] CodesToTry # <<>> /\ ~Bxgy(bill[c]) /\ sees[c].paused -> "done"
         [] OTHER -> IF c \in guests THEN "coupons" ELSE "customer"
  <2>1. pc' = [pc EXCEPT ![c] = next]
    BY DEF ReadRules
  <2>2. pc'[c] = next
    BY <2>1 DEF Inv, TypeOK
  <2>3. /\ next \in {"customer", "coupons", "done", "refused"}
        /\ next \in {"customer", "coupons"} => CodesToTry # <<>> /\ ~Bxgy(bill[c])
        /\ next = "done" /\ c \notin Previews => CodesToTry = <<>> \/ sees[c].paused
    OBVIOUS
  <2> HIDE DEF next
  <2> QED BY <2>1, <2>2, <2>3
<1>10. pc' \in [Calls -> Stages] /\ sees' \in [Calls -> Sights]
  BY <1>8, <1>9, ZenonT(30) DEF Inv, TypeOK, Stages, Sights
<1>11. /\ bill' = [x \in Calls |-> bill'[x]] /\ at' = [x \in Calls |-> at'[x]]
       /\ \A x \in Calls : CallInv(x)'
  BY <1>2, <1>4, <1>6, <1>7, <1>8, <1>9, EarlyStep DEF Early
<1> QED BY <1>8, <1>10, <1>11, CallStep

\* So does reading the history of the customer.
LEMMA ReadCustomerStep ==
  ASSUME Inv, NEW c \in Calls, ReadCustomer(c) PROVE Inv'
<1>1. /\ pc[c] = "customer" /\ pc' = [pc EXCEPT ![c] = "coupons"] /\ pc'[c] = "coupons"
      /\ bill' = bill /\ at' = at /\ UNCHANGED world /\ shop' = shop
  BY DEF ReadCustomer, world, Inv, TypeOK
<1>2. sees' \in [Calls -> Sights] /\ \A d \in Calls \ {c} : sees'[d] = sees[d]
  <2>1. ordered \in BOOLEAN /\ newcomer \in BOOLEAN /\ sees \in [Calls -> Sights]
    BY DEF Inv, TypeOK, Sights
  <2> QED BY <2>1 DEF ReadCustomer, Sights
<1>3. pc' \in [Calls -> Stages]
  BY <1>1 DEF Inv, TypeOK, Stages
<1>4. ASSUME NEW d \in Calls \ {c} PROVE CallInv(d)'
  BY <1>1, <1>2, Untouched DEF Inv, TypeOK
<1>5. CallInv(c)'
  <2>1. CallInv(c) /\ at[c] = 1 /\ bill[c].applied = <<>> /\ CodesToTry' = CodesToTry
    BY <1>1 DEF Inv, CallInv, CodesToTry
  <2>2. /\ BillOK(bill[c])' /\ Bxgy(bill[c])' = Bxgy(bill[c])
        /\ AppliedOnce(bill[c], at[c] - 1)' /\ AllApplied(bill[c], at[c] - 1)'
    BY <1>1, <2>1 DEF CallInv, BillOK, Bxgy, AppliedOnce, AllApplied
  <2> QED BY <1>1, <2>1, <2>2 DEF CallInv, Early
<1> QED BY <1>1, <1>2, <1>3, <1>4, <1>5, CallStep DEF Inv

\* The loop moves on to the next code, or ends after the last one.
LEMMA AdvanceIs ==
  ASSUME Inv, NEW c \in Calls, pc[c] = "coupons", Advance(c)
  PROVE  /\ at[c] \in 1 .. Len(CodesToTry)
         /\ at' = [at EXCEPT ![c] = at[c] + 1] /\ at'[c] = at[c] + 1
         /\ at' = [d \in Calls |-> at'[d]]
         /\ pc' = [pc EXCEPT ![c] = pc'[c]] /\ pc' \in [Calls -> Stages]
         /\ pc'[c] = "coupons" => at[c] < Len(CodesToTry)
         /\ pc'[c] = "done" => at[c] = Len(CodesToTry)
         /\ pc'[c] \in {"coupons", "done"}
<1>1. CallInv(c) /\ CodesToTry \in Seq(Codes) /\ pc \in [Calls -> Stages]
      /\ at = [d \in Calls |-> at[d]]
  BY CodesFacts DEF Inv, TypeOK
<1>2. at[c] \in 1 .. Len(CodesToTry)
  BY <1>1 DEF CallInv
<1>3. at' = [at EXCEPT ![c] = at[c] + 1] /\ at'[c] = at[c] + 1
      /\ at' = [d \in Calls |-> at'[d]]
  BY <1>1 DEF Advance
<1>4. pc' = [pc EXCEPT ![c] = IF at[c] < Len(CodesToTry) THEN "coupons" ELSE "done"]
  BY DEF Advance
<1>5. pc'[c] = (IF at[c] < Len(CodesToTry) THEN "coupons" ELSE "done")
      /\ pc' = [pc EXCEPT ![c] = pc'[c]] /\ pc' \in [Calls -> Stages]
  BY <1>1, <1>4 DEF Stages
<1> QED BY <1>1, <1>2, <1>3, <1>5

\* A coupon that applies is one code more, used once.
LEMMA ApplyCouponStep ==
  ASSUME Inv, NEW c \in Calls, ApplyCoupon(c) PROVE Inv'
<1> DEFINE b == bill[c]
           d == bill'[c]
           k == Code(c)
           x == CouponDiscount(bill[c], Code(c))
<1>1. /\ pc[c] = "coupons" /\ Advance(c) /\ sees' = sees /\ UNCHANGED world
      /\ shop' = shop /\ CodesToTry' = CodesToTry
  BY DEF ApplyCoupon, world, CodesToTry
<1>2. /\ at[c] \in 1 .. Len(CodesToTry)
      /\ at' = [at EXCEPT ![c] = at[c] + 1] /\ at'[c] = at[c] + 1
      /\ at' = [y \in Calls |-> at'[y]]
      /\ pc' = [pc EXCEPT ![c] = pc'[c]] /\ pc' \in [Calls -> Stages]
      /\ pc'[c] = "coupons" => at[c] < Len(CodesToTry)
      /\ pc'[c] = "done" => at[c] = Len(CodesToTry)
      /\ pc'[c] \in {"coupons", "done"}
  BY <1>1, AdvanceIs
<1>3. /\ CodesToTry \in Seq(Codes)
      /\ \A i, j \in 1 .. Len(CodesToTry) : CodesToTry[i] = CodesToTry[j] => i = j
      /\ CallInv(c) /\ bill = [y \in Calls |-> bill[y]] /\ sees \in [Calls -> Sights]
  BY CodesFacts DEF Inv, TypeOK, Sights
<1>4. k = CodesToTry[at[c]] /\ k \in Codes
  BY <1>2, <1>3 DEF Code
<1>5. x \in 0 .. b.remaining /\ b.remaining \in Nat
  <2>1. bill[c].remaining \in Nat
    BY <1>3 DEF CallInv, BillOK
  <2> QED BY <2>1, DiscountFits
<1>6. bill' = [bill EXCEPT ![c] = Redeemed(bill[c], Code(c))]
  BY DEF ApplyCoupon
<1>7. d = Redeemed(b, k) /\ bill' = [bill EXCEPT ![c] = d]
      /\ bill' = [y \in Calls |-> bill'[y]]
  BY <1>3, <1>6
<1>8. BillOK(b) /\ NonNegative(b.remaining - x) = b.remaining - x
  <2>1. b.remaining - x \in Nat
    BY <1>5
  <2> QED BY <1>3, <2>1, NonNegativeIs DEF CallInv
<1>9. PICK campaigns, credit :
        d = [b EXCEPT !.applied = Append(b.applied, k), !.coupon = b.coupon + x,
                      !.remaining = b.remaining - x,
                      !.campaigns = campaigns, !.credit = credit]
  BY <1>7, <1>8, Zenon DEF Redeemed
<1> HIDE DEF b, d, k, x
<1>10. /\ BillOK(d) /\ d.applied = Append(b.applied, k)
       /\ d.coupon = b.coupon + x /\ d.remaining = b.remaining - x
       /\ d.afterAuto = b.afterAuto /\ d.lines = b.lines /\ d.bundle = b.bundle
       /\ b.applied \in Seq(Codes)
       /\ b.coupon \in Nat /\ b.afterAuto \in Nat
  <2>1. b.applied \in Seq(Codes) /\ b.coupon \in Nat /\ b.afterAuto \in Nat
    BY <1>8 DEF BillOK
  <2>2. Append(b.applied, k) \in Seq(Codes) /\ b.coupon + x \in Nat /\ b.remaining - x \in Nat
    BY <1>4, <1>5, <2>1
  <2> QED BY <1>8, <1>9, <2>1, <2>2 DEF BillOK
<1>11. Bxgy(d) <=> Bxgy(b)
  BY <1>10, BxgySame
<1>12. AppliedOnce(b, at[c] - 1) /\ ~Bxgy(b) /\ b.coupon + b.remaining = b.afterAuto
       /\ (c \notin Previews => AllApplied(b, at[c] - 1))
  BY <1>1, <1>3 DEF CallInv, b
<1>13. /\ Len(d.applied) = Len(b.applied) + 1
       /\ d.applied[Len(b.applied) + 1] = k
       /\ \A i \in 1 .. Len(b.applied) : d.applied[i] = b.applied[i]
       /\ DOMAIN d.applied = 1 .. Len(b.applied) + 1
       /\ DOMAIN b.applied = 1 .. Len(b.applied) /\ Len(b.applied) \in Nat
  BY <1>10, <1>4
<1>14. AppliedOnce(d, at[c])
  <2>1. \A i \in 1 .. Len(b.applied) : \E j \in 1 .. at[c] - 1 : d.applied[i] = CodesToTry[j]
    BY <1>12, <1>13 DEF AppliedOnce
  <2>2. \A i \in 1 .. Len(b.applied) : d.applied[i] # k
    <3> SUFFICES ASSUME NEW i \in 1 .. Len(b.applied) PROVE d.applied[i] # k
      OBVIOUS
    <3>1. PICK j \in 1 .. at[c] - 1 : d.applied[i] = CodesToTry[j]
      BY <2>1
    <3>2. j \in 1 .. Len(CodesToTry) /\ j # at[c]
      BY <1>2, <3>1
    <3> QED BY <1>2, <1>3, <1>4, <3>1, <3>2
  <2>3. \A i, j \in 1 .. Len(b.applied) : d.applied[i] = d.applied[j] => i = j
    BY <1>12, <1>13 DEF AppliedOnce
  <2>4. \A i, j \in DOMAIN d.applied : d.applied[i] = d.applied[j] => i = j
    <3> SUFFICES ASSUME NEW i \in DOMAIN d.applied, NEW j \in DOMAIN d.applied,
                        d.applied[i] = d.applied[j]
                 PROVE  i = j
      OBVIOUS
    <3>1. CASE i \in 1 .. Len(b.applied) /\ j \in 1 .. Len(b.applied)
      BY <2>3, <3>1
    <3>2. CASE i = Len(b.applied) + 1 \/ j = Len(b.applied) + 1
      BY <1>13, <2>2, <3>2
    <3> QED BY <1>13, <3>1, <3>2
  <2>5. \A i \in DOMAIN d.applied : \E j \in 1 .. at[c] : d.applied[i] = CodesToTry[j]
    BY <1>2, <1>4, <1>13, <2>1, SMTT(20)
  <2> QED BY <2>4, <2>5, Zenon DEF AppliedOnce
<1>15. ASSUME c \notin Previews PROVE AllApplied(d, at[c])
  <2>1. Len(b.applied) = at[c] - 1 /\ \A i \in 1 .. at[c] - 1 : b.applied[i] = CodesToTry[i]
    BY <1>12, <1>15 DEF AllApplied
  <2>2. Len(d.applied) = at[c] /\ d.applied[at[c]] = CodesToTry[at[c]]
    BY <1>2, <1>4, <1>13, <2>1
  <2>3. \A i \in 1 .. at[c] - 1 : d.applied[i] = CodesToTry[i]
    BY <1>13, <2>1
  <2>4. \A i \in 1 .. at[c] : d.applied[i] = CodesToTry[i]
    <3> TAKE i \in 1 .. at[c]
    <3>1. i \in 1 .. at[c] - 1 \/ i = at[c]
      BY <1>2
    <3> QED BY <2>2, <2>3, <3>1
  <2> QED BY <2>2, <2>4 DEF AllApplied
<1>16. CallInv(c)'
  <2>1. bill'[c] = d
    BY DEF d
  <2>2. BillOK(bill[c])' /\ Bxgy(bill[c])' = Bxgy(d)
    BY <1>10, <2>1 DEF BillOK, Bxgy
  <2>3. AppliedOnce(bill[c], at[c] - 1)'
    <3>1. at'[c] - 1 = at[c]
      BY <1>2
    <3> QED BY <1>1, <1>14, <2>1, <3>1 DEF AppliedOnce
  <2>4. c \notin Previews => AllApplied(bill[c], at[c] - 1)'
    <3>1. at'[c] - 1 = at[c]
      BY <1>2
    <3> QED BY <1>1, <1>15, <2>1, <3>1 DEF AllApplied
  <2>5. c \notin Previews /\ pc'[c] = "done" => AllApplied(bill[c], Len(CodesToTry))'
    BY <1>1, <1>2, <1>15, <2>1 DEF AllApplied
  <2>6. d.coupon + d.remaining = d.afterAuto
    BY <1>5, <1>10, <1>12
  <2>7. at'[c] \in 1 .. Len(CodesToTry) + 1
        /\ (pc'[c] = "coupons" => at'[c] <= Len(CodesToTry))
    BY <1>2, <1>3
  <2>8. ~Bxgy(d) /\ pc'[c] \notin Early \cup {"customer"} /\ pc'[c] # "customer"
    BY <1>2, <1>11, <1>12 DEF Early
  <2> QED
    BY <1>1, <1>2, <2>1, <2>2, <2>3, <2>4, <2>5, <2>6, <2>7, <2>8 DEF CallInv
<1>17. ASSUME NEW y \in Calls \ {c} PROVE CallInv(y)'
  <2>1. bill'[y] = bill[y] /\ at'[y] = at[y] /\ pc'[y] = pc[y] /\ sees'[y] = sees[y]
    BY <1>1, <1>2, <1>3, <1>7 DEF Inv, TypeOK
  <2> QED BY <1>1, <2>1, Untouched DEF Inv
<1>18. sees' \in [Calls -> Sights]
  BY <1>1, <1>3
<1> QED BY <1>1, <1>2, <1>7, <1>16, <1>17, <1>18, CallStep

\* One that is rejected is a code tried, or the end of a checkout.
LEMMA RejectCouponStep ==
  ASSUME Inv, NEW c \in Calls, RejectCoupon(c) PROVE Inv'
<1> DEFINE b == bill[c]
           d == bill'[c]
<1>1. /\ pc[c] = "coupons" /\ sees' = sees /\ UNCHANGED world
      /\ shop' = shop /\ CodesToTry' = CodesToTry
  BY DEF RejectCoupon, world, CodesToTry
<1>2. /\ CodesToTry \in Seq(Codes) /\ CallInv(c)
      /\ bill = [y \in Calls |-> bill[y]] /\ at = [y \in Calls |-> at[y]]
      /\ sees \in [Calls -> Sights] /\ pc \in [Calls -> Stages]
  BY CodesFacts DEF Inv, TypeOK, Sights
<1>3. PICK reason : bill' = [bill EXCEPT ![c].rejected = reason]
  BY Zenon DEF RejectCoupon
<1>4. d = [b EXCEPT !.rejected = reason] /\ bill' = [bill EXCEPT ![c] = d]
      /\ bill' = [y \in Calls |-> bill'[y]]
  BY <1>2, <1>3
<1>5. /\ BillOK(b) /\ AppliedOnce(b, at[c] - 1) /\ ~Bxgy(b)
      /\ b.coupon + b.remaining = b.afterAuto
      /\ at[c] \in 1 .. Len(CodesToTry)
      /\ (c \notin Previews => AllApplied(b, at[c] - 1))
  BY <1>1, <1>2 DEF CallInv
<1> HIDE DEF b, d
<1>6. /\ BillOK(d) /\ d.applied = b.applied /\ d.coupon = b.coupon
      /\ d.remaining = b.remaining /\ d.afterAuto = b.afterAuto
      /\ d.lines = b.lines /\ d.bundle = b.bundle
  BY <1>4, <1>5 DEF BillOK
<1>7. ~Bxgy(d)
  BY <1>5, <1>6, BxgySame
<1>8. bill'[c] = d
  BY DEF d
<1>9. /\ BillOK(bill[c])' /\ Bxgy(bill[c])' = Bxgy(d)
      /\ d.coupon + d.remaining = d.afterAuto
  BY <1>5, <1>6, <1>8 DEF BillOK, Bxgy
\* A preview goes on, and has then tried one code more.
<1>10. ASSUME c \in Previews
       PROVE  /\ CallInv(c)'
              /\ at' = [y \in Calls |-> at'[y]] /\ at' = [at EXCEPT ![c] = at[c] + 1]
              /\ pc' = [pc EXCEPT ![c] = pc'[c]] /\ pc' \in [Calls -> Stages]
  <2>1. Advance(c)
    BY <1>10 DEF RejectCoupon
  <2>2. /\ at' = [at EXCEPT ![c] = at[c] + 1] /\ at'[c] = at[c] + 1
        /\ at' = [y \in Calls |-> at'[y]]
        /\ pc' = [pc EXCEPT ![c] = pc'[c]] /\ pc' \in [Calls -> Stages]
        /\ pc'[c] = "coupons" => at[c] < Len(CodesToTry)
        /\ pc'[c] \in {"coupons", "done"}
    BY <1>1, <2>1, AdvanceIs
  <2>3. AppliedOnce(d, at[c])
    <3>1. \A i, j \in DOMAIN d.applied : d.applied[i] = d.applied[j] => i = j
      BY <1>5, <1>6 DEF AppliedOnce
    <3>2. \A i \in DOMAIN d.applied : \E j \in 1 .. at[c] : d.applied[i] = CodesToTry[j]
      <4>1. 1 .. at[c] - 1 \subseteq 1 .. at[c]
        BY <1>5
      <4> QED BY <1>5, <1>6, <4>1 DEF AppliedOnce
    <3> QED BY <3>1, <3>2, Zenon DEF AppliedOnce
  <2>4. AppliedOnce(bill[c], at[c] - 1)'
    <3>1. at'[c] - 1 = at[c]
      BY <1>5, <2>2
    <3> QED BY <1>1, <1>8, <2>3, <3>1 DEF AppliedOnce
  <2>5. at'[c] \in 1 .. Len(CodesToTry) + 1
        /\ (pc'[c] = "coupons" => at'[c] <= Len(CodesToTry))
    BY <1>2, <1>5, <2>2
  <2>6. pc'[c] \notin Early \cup {"customer"} /\ pc'[c] # "customer"
    BY <2>2 DEF Early
  <2>7. CallInv(c)'
    BY <1>1, <1>7, <1>8, <1>9, <1>10, <2>4, <2>5, <2>6 DEF CallInv
  <2> QED BY <2>2, <2>7
\* A checkout ends there, with the codes tried as before.
<1>11. ASSUME c \notin Previews
       PROVE  /\ CallInv(c)'
              /\ at' = at /\ pc' = [pc EXCEPT ![c] = pc'[c]] /\ pc' \in [Calls -> Stages]
  <2>1. at' = at /\ pc' = [pc EXCEPT ![c] = "refused"]
    BY <1>11 DEF RejectCoupon
  <2>2. pc'[c] = "refused" /\ pc' = [pc EXCEPT ![c] = pc'[c]] /\ pc' \in [Calls -> Stages]
    BY <1>2, <2>1 DEF Stages
  <2>3. AppliedOnce(bill[c], at[c] - 1)'
    BY <1>1, <1>5, <1>6, <1>8, <2>1 DEF AppliedOnce
  <2>4. at'[c] \in 1 .. Len(CodesToTry) + 1
    BY <1>2, <1>5, <2>1
  <2>5. CallInv(c)'
    BY <1>1, <1>7, <1>8, <1>9, <2>2, <2>3, <2>4 DEF CallInv, Early
  <2> QED BY <2>1, <2>2, <2>5
<1>12. ASSUME NEW y \in Calls \ {c} PROVE CallInv(y)'
  <2>1. bill'[y] = bill[y] /\ at'[y] = at[y] /\ pc'[y] = pc[y] /\ sees'[y] = sees[y]
    BY <1>1, <1>2, <1>4, <1>10, <1>11
  <2> QED BY <1>1, <2>1, Untouched DEF Inv
<1>13. at' = [y \in Calls |-> at'[y]] /\ pc' \in [Calls -> Stages] /\ sees' \in [Calls -> Sights]
  BY <1>1, <1>2, <1>10, <1>11
<1> QED BY <1>1, <1>4, <1>10, <1>11, <1>12, <1>13, CallStep

\* What follows the price leaves it alone.
LEMMA AnswerStep ==
  ASSUME Inv, NEW c \in Calls, Suggest(c) \/ AskMinimum(c) PROVE Inv'
<1> DEFINE b == bill[c]
           d == bill'[c]
<1>1. /\ pc[c] = "done" /\ at' = at /\ sees' = sees /\ UNCHANGED world
      /\ shop' = shop /\ CodesToTry' = CodesToTry
  BY DEF Suggest, AskMinimum, world, CodesToTry
<1>2. PICK next \in {"refused", "answered"} : pc' = [pc EXCEPT ![c] = next]
  BY DEF Suggest, AskMinimum
<1>3. CallInv(c) /\ BillOK(b) /\ bill = [y \in Calls |-> bill[y]] /\ pc \in [Calls -> Stages]
  BY DEF Inv, TypeOK, CallInv
<1>4. PICK reason : bill' = [bill EXCEPT ![c].rejected = reason]
  <2>1. [b EXCEPT !.rejected = b.rejected] = b
    BY <1>3 DEF BillOK
  <2>2. [bill EXCEPT ![c].rejected = bill[c].rejected] = bill
    BY <1>3, <2>1
  <2>3. bill' = bill \/ \E reason : bill' = [bill EXCEPT ![c].rejected = reason]
    BY Zenon DEF Suggest, AskMinimum
  <2> QED BY <2>2, <2>3
<1>5. d = [b EXCEPT !.rejected = reason] /\ bill' = [y \in Calls |-> bill'[y]]
  BY <1>3, <1>4
<1> HIDE DEF b, d
<1>6. /\ BillOK(d) /\ d.applied = b.applied /\ d.coupon = b.coupon
      /\ d.remaining = b.remaining /\ d.afterAuto = b.afterAuto
      /\ d.lines = b.lines /\ d.bundle = b.bundle
  BY <1>3, <1>5 DEF BillOK
<1>7. Bxgy(d) <=> Bxgy(b)
  BY <1>6, BxgySame
<1> USE DEF b, d
<1>8. pc'[c] = next /\ pc' \in [Calls -> Stages] /\ sees' \in [Calls -> Sights]
      /\ at' = [y \in Calls |-> at'[y]]
  BY <1>1, <1>2, <1>3 DEF Inv, TypeOK, Stages, Sights
<1>9. CallInv(c)'
  <2>1. /\ BillOK(bill[c])' /\ Bxgy(bill[c])' = Bxgy(d)
        /\ AppliedOnce(bill[c], at[c] - 1)' /\ AppliedOnce(b, at[c] - 1)
    BY <1>1, <1>3, <1>6 DEF CallInv, BillOK, Bxgy, AppliedOnce
  <2>2. AllApplied(b, Len(CodesToTry)) => AllApplied(bill[c], Len(CodesToTry))'
    BY <1>1, <1>6 DEF AllApplied
  <2>3. pc'[c] \notin Early \cup {"customer", "coupons"}
    BY <1>8 DEF Early
  <2> QED BY <1>1, <1>3, <1>6, <1>7, <1>8, <2>1, <2>2, <2>3 DEF CallInv
<1>10. ASSUME NEW y \in Calls \ {c} PROVE CallInv(y)'
  <2>1. bill'[y] = bill[y] /\ at'[y] = at[y] /\ pc'[y] = pc[y] /\ sees'[y] = sees[y]
    BY <1>1, <1>2, <1>3, <1>4
  <2> QED BY <1>1, <2>1, Untouched DEF Inv
<1> QED BY <1>1, <1>5, <1>8, <1>9, <1>10, CallStep

\* What happens around the calls does not touch them.
LEMMA WorldStep ==
  ASSUME Inv, UNCHANGED <<shop, guests, calls>>, TypeOK'
  PROVE  Inv'
<1>1. UNCHANGED <<shop, pc, sees, bill, at>>
  BY DEF calls
<1>2. \A c \in Calls : CallInv(c)'
  BY <1>1, Untouched DEF Inv
<1> QED BY <1>1, <1>2 DEF Inv

\* One use more of a coupon is a use more.
LEMMA CountUp ==
  ASSUME NEW f \in [Codes -> Nat], NEW k \in Codes
  PROVE  [f EXCEPT ![k] = @ + 1] \in [Codes -> Nat]
  OBVIOUS

\* Nor do shop, customers and time touch the calls.
LEMMA ChangeStep ==
  ASSUME Inv,
         \/ PausePromotions \/ EndCampaigns \/ CustomerAges \/ RefreshCache
         \/ \E k \in Codes : EndCoupon(k) \/ OtherRedeems(k) \/ CustomerOrders(k)
  PROVE  Inv'
<1> USE DEF Inv
<1>1. UNCHANGED <<shop, guests, calls>>
  BY DEF PausePromotions, EndCampaigns, CustomerAges, RefreshCache, EndCoupon,
         OtherRedeems, CustomerOrders, Change
<1>2. CodesToTry' = CodesToTry /\ UNCHANGED <<pc, sees, bill, at>>
  BY <1>1 DEF CodesToTry, calls
<1>3. changesLeft' \in 0 .. ChangeBudget
  BY PricingAssumption
     DEF PausePromotions, EndCampaigns, CustomerAges, RefreshCache, EndCoupon,
         OtherRedeems, CustomerOrders, Change, TypeOK
<1>4. {paused', running', ordered', newcomer'} \subseteq BOOLEAN
  BY DEF PausePromotions, EndCampaigns, CustomerAges, RefreshCache, EndCoupon,
         OtherRedeems, CustomerOrders, customers, TypeOK
<1>5. redis' \in [paused : BOOLEAN, running : BOOLEAN, live : SUBSET Codes]
  BY DEF PausePromotions, EndCampaigns, CustomerAges, RefreshCache, EndCoupon,
         OtherRedeems, CustomerOrders, Change, TypeOK
<1>6. live' \subseteq Codes
  BY DEF PausePromotions, EndCampaigns, CustomerAges, RefreshCache, EndCoupon,
         OtherRedeems, CustomerOrders, customers, TypeOK
<1>7. usedByAll' \in [Codes -> Nat] /\ usedByMe' \in [Codes -> Nat]
  <2>0. usedByAll \in [Codes -> Nat] /\ usedByMe \in [Codes -> Nat]
    BY DEF TypeOK
  <2>1. CASE PausePromotions \/ EndCampaigns \/ CustomerAges \/ RefreshCache
    BY <2>0, <2>1 DEF PausePromotions, EndCampaigns, CustomerAges, RefreshCache, customers
  <2>2. ASSUME NEW k \in Codes, EndCoupon(k) \/ OtherRedeems(k) \/ CustomerOrders(k)
        PROVE  usedByAll' \in [Codes -> Nat] /\ usedByMe' \in [Codes -> Nat]
    <3>1. /\ usedByAll' \in {usedByAll, [usedByAll EXCEPT ![k] = @ + 1]}
          /\ usedByMe' \in {usedByMe, [usedByMe EXCEPT ![k] = @ + 1]}
      BY <2>2 DEF EndCoupon, OtherRedeems, CustomerOrders
    <3>2. /\ [usedByAll EXCEPT ![k] = @ + 1] \in [Codes -> Nat]
          /\ [usedByMe EXCEPT ![k] = @ + 1] \in [Codes -> Nat]
      BY <2>0, CountUp
    <3> QED BY <2>0, <3>1, <3>2
  <2> QED BY <2>1, <2>2
<1>8. TypeOK'
  BY <1>1, <1>2, <1>3, <1>4, <1>5, <1>6, <1>7 DEF TypeOK
<1> QED BY <1>1, <1>8, WorldStep

\* Every step keeps the calls in order.
THEOREM NextInv == Inv /\ [Next]_vars => Inv'
<1> SUFFICES ASSUME Inv, [Next]_vars PROVE Inv'
  OBVIOUS
<1>1. ASSUME NEW c \in Calls, ReadSettings(c) PROVE Inv'
  BY <1>1, ReadSettingsStep
<1>2. ASSUME NEW c \in Calls, ReadOffers(c) PROVE Inv'
  BY <1>2, ReadOffersStep
<1>3. ASSUME NEW c \in Calls, GiveBundles(c) PROVE Inv'
  BY <1>3, GiveBundlesStep
<1>4. ASSUME NEW c \in Calls, ReadRules(c) PROVE Inv'
  BY <1>4, ReadRulesStep
<1>5. ASSUME NEW c \in Calls, ReadCustomer(c) PROVE Inv'
  BY <1>5, ReadCustomerStep
<1>6. ASSUME NEW c \in Calls, ApplyCoupon(c) PROVE Inv'
  BY <1>6, ApplyCouponStep
<1>7. ASSUME NEW c \in Calls, RejectCoupon(c) PROVE Inv'
  BY <1>7, RejectCouponStep
<1>10. ASSUME NEW c \in Calls, RefuseBasket(c) \/ ShowNothing(c) PROVE Inv'
  BY <1>10, NoCartStep
<1>11. ASSUME NEW c \in Calls, Suggest(c) \/ AskMinimum(c) PROVE Inv'
  BY <1>11, AnswerStep
<1>8. CASE \/ PausePromotions \/ EndCampaigns \/ CustomerAges \/ RefreshCache
           \/ \E k \in Codes : EndCoupon(k) \/ OtherRedeems(k) \/ CustomerOrders(k)
  BY <1>8, ChangeStep
<1>9. CASE UNCHANGED vars
  <2>1. /\ UNCHANGED <<shop, guests, calls, pc, sees, bill, at>>
        /\ UNCHANGED <<paused, running, redis, live, usedByAll, usedByMe,
                       ordered, newcomer, changesLeft>>
    BY <1>9 DEF vars, world, customers, calls
  <2>2. TypeOK'
    BY <2>1 DEF Inv, TypeOK, CodesToTry
  <2> QED BY <2>1, <2>2, WorldStep
<1> QED BY <1>1, <1>2, <1>3, <1>4, <1>5, <1>6, <1>7, <1>8, <1>9, <1>10, <1>11
   DEF Next

-----------------------------------------------------------------------------
(* What a bill accounts for.                                                *)

SalesOn(lines) == SumFunction([i \in DOMAIN lines |-> lines[i].sale])

\* The sale of each line is credited to its campaign.
LEMMA SaleCreditIs ==
  ASSUME NEW lines \in Seq(Lines)
  PROVE  /\ SaleCredit(lines) \in [Campaigns -> Nat]
         /\ SumFunction(SaleCredit(lines)) = SalesOn(lines)
         /\ \A k \in Campaigns : SaleCredit(lines)[k] > 0 =>
              \E i \in DOMAIN lines : k \in lines[i].campaigns
         /\ (\A i \in DOMAIN lines : lines[i].campaigns = {}) => SaleCredit(lines) = Nothing
<1> DEFINE S == DOMAIN lines
           sale == [i \in S |-> lines[i].sale]
           credit == SaleCredit(lines)
           part == [c \in Campaigns |->
                      [i \in S |-> IF c \in lines[i].campaigns THEN lines[i].sale ELSE 0]]
<1>1. /\ IsFiniteSet(S) /\ IsFiniteSet(Campaigns)
      /\ \A i \in S : /\ lines[i].sale \in Nat /\ lines[i].campaigns \in SUBSET Campaigns
                      /\ lines[i].campaigns = {} => lines[i].sale = 0
                      /\ lines[i].campaigns # {} => \E k \in Campaigns : lines[i].campaigns = {k}
  <2>1. ASSUME NEW i \in S
        PROVE  /\ lines[i].campaigns = {} => lines[i].sale = 0
               /\ lines[i].campaigns # {} => \E k \in Campaigns : lines[i].campaigns = {k}
    <3>1. lines[i] \in Lines
      BY LineFacts
    <3> QED BY <3>1, Zenon DEF Lines
  <2> QED BY <2>1, LineFacts, PriceRulesAssumption
<1>2. \A c \in Campaigns : \A i \in S :
        /\ part[c][i] = IF c \in lines[i].campaigns THEN lines[i].sale ELSE 0
        /\ part[c][i] \in Nat
  BY <1>1
<1>3. \A c \in Campaigns : credit[c] = SumFunctionOnSet(part[c], S)
  <2> TAKE c \in Campaigns
  <2> DEFINE p == [i \in DOMAIN lines |-> IF c \in lines[i].campaigns THEN lines[i].sale ELSE 0]
  <2>1. credit[c] = SumFunction(p)
    BY DEF SaleCredit
  <2>2. p = part[c] /\ DOMAIN p = S
    OBVIOUS
  <2> QED BY <2>1, <2>2 DEF SumFunction
<1>4. \A i \in S : sale[i] = lines[i].sale /\ sale[i] \in Nat
  BY <1>1
<1>5. SumFunction(sale) = SumFunctionOnSet(sale, S) /\ SalesOn(lines) = SumFunction(sale)
  BY DEF SumFunction, SalesOn
<1>6. DOMAIN credit = Campaigns /\ credit = [c \in Campaigns |-> credit[c]]
  BY DEF SaleCredit
<1> HIDE DEF sale, credit, part, S
<1>7. \A c \in Campaigns : credit[c] \in Nat
  <2> TAKE c \in Campaigns
  <2> DEFINE p == part[c]
  <2>1. \A i \in S : p[i] \in Nat
    BY <1>2
  <2> HIDE DEF p
  <2>2. SumFunctionOnSet(p, S) \in Nat
    BY <1>1, <2>1, SumNat
  <2> QED BY <1>3, <2>2 DEF p
<1>8. ASSUME NEW k \in Campaigns, credit[k] > 0
      PROVE  \E i \in S : k \in lines[i].campaigns
  <2> DEFINE p == part[k]
  <2>1. \A i \in S : p[i] \in Int /\ (p[i] > 0 => k \in lines[i].campaigns)
    BY <1>2
  <2> HIDE DEF p
  <2>2. SumFunctionOnSet(p, S) > 0
    BY <1>3, <1>8 DEF p
  <2>3. \E i \in S : p[i] > 0
    BY <1>1, <2>1, <2>2, SumPositive
  <2> QED BY <2>1, <2>3
<1>9. ASSUME \A i \in S : lines[i].campaigns = {} PROVE credit = Nothing
  <2>1. ASSUME NEW k \in Campaigns PROVE credit[k] = 0
    <3>1. ~(credit[k] > 0)
      BY <1>8, <1>9
    <3> QED BY <1>7, <3>1
  <2> QED BY <1>6, <2>1 DEF Nothing
<1>10. SumFunctionOnSet(credit, Campaigns) = SumFunctionOnSet(sale, S)
  <2>1. CASE Campaigns = {}
    <3>1. \A i \in S : sale[i] = 0
      BY <1>1, <1>4, <2>1
    <3>2. SumFunctionOnSet(sale, S) = 0
      BY <1>1, <3>1, SumZero
    <3>3. SumFunctionOnSet(credit, Campaigns) = 0
      BY <1>1, <2>1, SumZero
    <3> QED BY <3>2, <3>3
  <2>2. CASE Campaigns # {}
    <3> DEFINE to == [i \in S |-> CHOOSE k \in Campaigns :
                                    lines[i].campaigns # {} => lines[i].campaigns = {k}]
    <3>1. \A i \in S : /\ to[i] \in Campaigns
                       /\ lines[i].campaigns # {} => lines[i].campaigns = {to[i]}
      <4> TAKE i \in S
      <4>1. \E k \in Campaigns : lines[i].campaigns # {} => lines[i].campaigns = {k}
        BY <1>1, <2>2
      <4> QED BY <4>1
    <3> HIDE DEF to
    <3>2. \A c \in Campaigns : credit[c] = SumFunctionOnSet(Handed(sale, to, c, S), S)
      <4> TAKE c \in Campaigns
      <4> DEFINE p == part[c]
                 h == Handed(sale, to, c, S)
      <4>1. \A i \in S : p[i] \in Int /\ h[i] = p[i]
        <5> TAKE i \in S
        <5>1. h[i] = IF to[i] = c THEN sale[i] ELSE 0
          BY DEF Handed
        <5>2. lines[i].campaigns = {} => h[i] = 0 /\ p[i] = 0
          BY <1>1, <1>2, <1>4, <5>1
        <5>3. lines[i].campaigns # {} => h[i] = p[i]
          BY <1>2, <1>4, <3>1, <5>1
        <5> QED BY <1>2, <5>2, <5>3
      <4> HIDE DEF p, h
      <4>2. SumFunctionOnSet(h, S) = SumFunctionOnSet(p, S)
        BY <1>1, <4>1, SumSame
      <4> QED BY <1>3, <4>2 DEF p, h
    <3>3. \A i \in S : sale[i] \in Int /\ to[i] \in Campaigns
      BY <1>4, <3>1
    <3>4. IsFiniteSet(S) /\ IsFiniteSet(Campaigns)
      BY <1>1
    <3> QED BY <3>2, <3>3, <3>4, SumHandedOut
  <2> QED BY <2>1, <2>2
<1>11. credit \in [Campaigns -> Nat]
  BY <1>6, <1>7
<1>12. SumFunction(credit) = SalesOn(lines)
  BY <1>5, <1>6, <1>10 DEF SumFunction
<1> QED BY <1>8, <1>9, <1>11, <1>12 DEF credit, S

\* What is told of offers is true of what their campaigns were given.
ToldTruly(s, given, told, ahead) ==
  LET rulesOf(k) == {r \in ToSet(s.autos) : r.campaign = k}
  IN /\ \A r \in told : given[r.campaign] > 0
     /\ \A k \in Campaigns : given[k] > 0 =>
          \E r \in told :
            \/ r.campaign = k
            \/ \E t \in rulesOf(k) : ForCategory(r) /\ ForCategory(t)
                                       /\ r.category = t.category
     /\ \A r \in ahead : rulesOf(r.campaign) = {r} => given[r.campaign] = 0

\* Offers are told by their best rules, and none of a campaign that gave
\* something is asked for, if only one of its rules can have given it.
LEMMA ToldIs ==
  ASSUME NEW s, NEW R, R \subseteq ToSet(s.autos), \A r \in R : CartRule(r),
         NEW rules \in Seq(R), NEW subtotal \in Nat, NEW lines, Entries(lines),
         NEW given \in [Campaigns -> Nat],
         \A k \in Campaigns : given[k] > 0 =>
           \E i \in DOMAIN rules : /\ rules[i].campaign = k
                                   /\ RuleDiscount(rules[i], subtotal, lines) > 0
  PROVE  ToldTruly(s, given, OffersTold(rules, given, subtotal, lines),
                   OffersAhead(rules, given, subtotal, lines))
<1> DEFINE d(r) == RuleDiscount(r, subtotal, lines)
           all == ToSet(rules)
           applied == {r \in all : Applies(r, given, subtotal, lines)}
           told == OffersTold(rules, given, subtotal, lines)
           ahead == OffersAhead(rules, given, subtotal, lines)
<1>1. /\ all \subseteq ToSet(s.autos)
      /\ \A r \in all : d(r) \in Nat /\ r.campaign \in Campaigns
      /\ \A i \in DOMAIN rules : rules[i] \in all
  <2>1. \A i \in DOMAIN rules : rules[i] \in R
    OBVIOUS
  <2>2. \A r \in R : d(r) \in Nat /\ r.campaign \in Campaigns
    BY RuleDiscountType DEF CartRule
  <2> QED BY <2>1, <2>2 DEF ToSet
<1>2. \A r \in all : r \in applied <=> given[r.campaign] > 0 /\ d(r) > 0
  BY DEF Applies
<1>3. IsFiniteSet(applied) /\ applied \subseteq all
  <2>1. IsFiniteSet(DOMAIN rules)
    BY Places
  <2>2. IsFiniteSet({rules[i] : i \in DOMAIN rules})
    BY <2>1, ImageFinite
  <2>3. applied \subseteq {rules[i] : i \in DOMAIN rules}
    BY DEF ToSet
  <2> QED BY <2>2, <2>3, FS_Subset
<1>4. \A r : r \in told <=>
        /\ r \in applied
        /\ ForCategory(r) => \A t \in applied :
             ForCategory(t) /\ t.category = r.category => d(t) <= d(r)
  BY DEF OffersTold
<1>5. \A r \in ahead : r \in all /\ r \notin applied
  BY DEF OffersAhead
<1> HIDE DEF d, all, applied, told, ahead
<1>6. ASSUME NEW r \in told PROVE given[r.campaign] > 0
  BY <1>2, <1>3, <1>4
<1>7. ASSUME NEW k \in Campaigns, given[k] > 0
      PROVE  \E r \in told :
               \/ r.campaign = k
               \/ \E t \in {t \in ToSet(s.autos) : t.campaign = k} :
                    ForCategory(r) /\ ForCategory(t) /\ r.category = t.category
  <2>1. PICK t \in applied : t.campaign = k
    <3>1. PICK i \in DOMAIN rules : rules[i].campaign = k /\ d(rules[i]) > 0
      BY <1>7 DEF d
    <3> QED BY <1>1, <1>2, <1>7, <3>1
  <2>2. CASE ~ForCategory(t)
    BY <1>4, <2>1, <2>2
  <2>3. CASE ForCategory(t)
    <3> DEFINE T == {r \in applied : ForCategory(r) /\ r.category = t.category}
               f == [r \in T |-> d(r)]
               V == {f[r] : r \in T}
    <3>1. T # {} /\ IsFiniteSet(T)
      BY <1>3, <2>3, FS_Subset
    <3>2. IsFiniteSet(V)
      <4> HIDE DEF T, f
      <4> QED BY <3>1, ImageFinite
    <3>3. V # {} /\ V \subseteq Int /\ \A r \in T : d(r) \in V
      BY <1>1, <1>3, <3>1
    <3>4. \A v \in V : \E r \in T : v = d(r)
      OBVIOUS
    <3> HIDE DEF V
    <3>5. Max(V) \in V /\ \A v \in V : Max(V) >= v
      BY <3>2, <3>3, MaxIs
    <3>6. PICK r \in T : Max(V) = d(r)
      BY <3>4, <3>5
    <3>7. \A x \in T : d(x) <= d(r)
      BY <3>3, <3>5, <3>6
    <3>8. r \in told
      BY <1>4, <3>6, <3>7
    <3>9. t \in ToSet(s.autos)
      BY <1>1, <1>3
    <3> QED BY <2>1, <2>3, <3>6, <3>8, <3>9
  <2> QED BY <2>2, <2>3
<1>8. ASSUME NEW r \in ahead, {t \in ToSet(s.autos) : t.campaign = r.campaign} = {r}
      PROVE  given[r.campaign] = 0
  <2>1. r \in all /\ r \notin applied /\ r.campaign \in Campaigns
    BY <1>1, <1>5
  <2>2. ASSUME given[r.campaign] > 0 PROVE FALSE
    <3>1. PICK i \in DOMAIN rules : rules[i].campaign = r.campaign /\ d(rules[i]) > 0
      BY <2>1, <2>2 DEF d
    <3>2. rules[i] \in all /\ rules[i] \in ToSet(s.autos)
      BY <1>1, <3>1
    <3>3. rules[i] = r
      BY <1>8, <3>1, <3>2
    <3> QED BY <1>2, <2>1, <2>2, <3>1, <3>3
  <2> QED BY <2>1, <2>2
<1> QED BY <1>6, <1>7, <1>8 DEF ToldTruly, told, ahead

\* A coupon that is accepted passed the checks on what it meets in the cart.
LEMMA AcceptedIs ==
  ASSUME NEW c, NEW b, NEW k, RefusalOn(c, b, k) = "none"
  PROVE  LET coupon == shop.coupon[k]
         IN /\ b.auto > 0 => /\ shop.couponAfterAuto
                             /\ Flag(coupon.afterAuto, shop.couponAfterAuto)
            /\ ~BesideOtherSale(b, coupon)
            /\ b.auto > 0 /\ (\E i \in DOMAIN coupon.rules :
                                coupon.rules[i].kind = "category_percent_off") =>
                 Flag(coupon.stackCategory, shop.stackCategory)
<1> DEFINE row == CouponRow(k)
           coupon == row.coupon
           auto == b.auto > 0
           known == c \notin guests
           byCategory == \E i \in DOMAIN coupon.rules :
                           coupon.rules[i].kind = "category_percent_off"
           zero == ZeroDiscount(coupon.rules, b.remaining)
           p1 == auto /\ ~shop.couponAfterAuto
           p2 == ~row.found
           p3 == coupon.hasProducts /\ coupon.rules = <<>>
           p4 == coupon.rules = <<>>
           p5 == auto /\ ~Flag(coupon.afterAuto, shop.couponAfterAuto)
           p6 == BesideOtherSale(b, coupon)
           p7 == known /\ coupon.firstOrderOnly /\ sees[c].ordered
           p8 == known /\ coupon.newCustomerOnly /\ ~sees[c].newcomer
           p9 == known /\ b.remaining < coupon.minSubtotal
           p10 == Given(coupon.totalLimit) /\ row.total >= coupon.totalLimit
           p11 == /\ known
                  /\ Given(coupon.customerLimit)
                  /\ row.mine >= coupon.customerLimit
           p12 == auto /\ byCategory /\ ~Flag(coupon.stackCategory, shop.stackCategory)
           p13 == CouponDiscount(b, k) <= 0
           pairs == <<
             <<"COUPON_NOT_AFTER_AUTO", p1>>,
             <<"COUPON_NOT_FOUND", p2>>,
             <<"COUPON_NOT_APPLICABLE", p3>>,
             <<"COUPON_NO_CART_BENEFIT", p4>>,
             <<"COUPON_NOT_AFTER_AUTO", p5>>,
             <<"COUPON_NOT_WITH_SKU", p6>>,
             <<"FIRST_ORDER_ONLY_NOT_MET", p7>>,
             <<"NEW_CUSTOMER_ONLY_NOT_MET", p8>>,
             <<"MIN_SUBTOTAL_NOT_MET", p9>>,
             <<"COUPON_EXHAUSTED", p10>>,
             <<"COUPON_EXHAUSTED", p11>>,
             <<"COUPON_NOT_WITH_AUTO_CART", p12>>,
             <<zero, p13>> >>
<1>1. FirstReason(pairs) = "none"
  BY Zenon DEF RefusalOn
<1>2. zero # "none"
  BY DEF ZeroDiscount
<1>3. coupon = shop.coupon[k]
  BY DEF CouponRow
<1> HIDE DEF row, zero, p1, p2, p3, p4, p5, p6, p7, p8, p9, p10, p11, p12, p13
<1>4. Len(pairs) = 13 /\ \A i \in 1 .. 13 : pairs[i][1] # "none"
  <2>1. pairs[13][1] = zero
    OBVIOUS
  <2>2. \A i \in 1 .. 13 :
          i \in {1, 2, 3, 4, 5, 6, 7, 8, 9, 10, 11, 12, 13}
    OBVIOUS
  <2> QED BY <1>2, <2>1, <2>2
<1>5. /\ pairs[1][2] = p1 /\ pairs[5][2] = p5 /\ pairs[6][2] = p6 /\ pairs[12][2] = p12
      /\ 1 \in 1 .. 13 /\ 5 \in 1 .. 13 /\ 6 \in 1 .. 13 /\ 12 \in 1 .. 13 /\ 13 \in Nat
  OBVIOUS
<1> HIDE DEF pairs
<1>6. \A i \in 1 .. 13 : ~pairs[i][2]
  BY <1>1, <1>4, <1>5, NoReason
<1>7. ~p1 /\ ~p5 /\ ~p6 /\ ~p12
  BY <1>5, <1>6, Zenon
<1> QED BY <1>3, <1>7, Zenon DEF p1, p5, p6, p12

SalesOf(lines) == UNION {lines[i].campaigns : i \in DOMAIN lines}
AutoCampaigns(s) == {r.campaign : r \in ToSet(s.autos)}
CouponCampaigns(s, applied) == {s.coupon[k].campaign : k \in ToSet(applied)}

\* What StackingRespected says of a coupon in a cart.
StacksIn(s, lines, auto, k) ==
  /\ auto > 0 => s.couponAfterAuto /\ s.coupon[k].afterAuto # "no"
  /\ auto > 0 /\ (\E r \in ToSet(s.coupon[k].rules) : r.kind = "category_percent_off") =>
       Flag(s.coupon[k].stackCategory, s.stackCategory)
  /\ SalesOf(lines) # {} =>
       Flag(s.coupon[k].stackSku, s.stackSku) \/ s.coupon[k].campaign \in SalesOf(lines)

\* A bill b in the shop s, with lines L; whole says that rewards are free, in
\* whole units.
Sound(L, whole, s, b) ==
  /\ b.lines \in Seq(L) /\ b.bundle \in Nat /\ b.auto \in Nat
  /\ b.credit \in [Campaigns -> Nat] /\ b.given \in [Campaigns -> Nat]
  /\ SumFunction(b.credit) = SalesOn(b.lines) + b.bundle + b.auto + b.coupon
  /\ \A k \in Campaigns : b.credit[k] > 0 => k \in b.campaigns
  /\ SumFunction(b.given) = b.auto
  /\ \A k \in Campaigns : b.given[k] > 0 => k \in AutoCampaigns(s)
  /\ whole => Units(b.lines) = Due(b.lines) + b.bundle
  /\ s.couponsOnly =>
       /\ SalesOf(b.lines) = {} /\ SalesOn(b.lines) = 0 /\ b.bundle = 0
       /\ \A k \in Campaigns \ CouponCampaigns(s, b.applied) : b.credit[k] = b.given[k]
  /\ b.onSale <=> SalesOf(b.lines) # {}
  /\ b.bundle = 0 =>
       b.campaigns \subseteq SalesOf(b.lines) \cup AutoCampaigns(s)
                               \cup CouponCampaigns(s, b.applied)
  /\ ToldTruly(s, b.given, b.told, b.ahead)
  /\ \A k \in ToSet(b.applied) : StacksIn(s, b.lines, b.auto, k)

\* What else holds of it while a call is at a stage.
Staged(s, b, stage, bundles) ==
  /\ stage \notin {"bundles", "rules"} => b.afterAuto = Due(b.lines) - b.auto
  /\ stage \in Early => b.auto = 0 /\ b.given = Nothing
  /\ stage \in {"new", "offers", "bundles"} => b.bundle = 0
  /\ stage = "bundles" => /\ \A i \in DOMAIN b.lines : b.lines[i].free = 0
                          /\ s.couponsOnly => ~bundles

Bills ==
  \A c \in Calls : /\ Sound(Lines, WholeOffers, shop, bill[c])
                   /\ Staged(shop, bill[c], pc[c], sees[c].bundles)

\* A step of one call leaves the bills of the others as they are.
LEMMA OneCall ==
  ASSUME Bills, NEW c \in Calls, shop' = shop,
         \A d \in Calls \ {c} : /\ bill'[d] = bill[d] /\ pc'[d] = pc[d]
                                /\ sees'[d].bundles = sees[d].bundles,
         Sound(Lines, WholeOffers, shop, bill'[c]),
         Staged(shop, bill'[c], pc'[c], sees'[c].bundles)
  PROVE  Bills'
<1>1. Lines' = Lines /\ WholeOffers' = WholeOffers
  BY DEF Lines, WholeOffers, WholeOffer
<1>2. ASSUME NEW d \in Calls
      PROVE  /\ Sound(Lines, WholeOffers, shop, bill'[d])
             /\ Staged(shop, bill'[d], pc'[d], sees'[d].bundles)
  <2>1. CASE d = c
    BY <2>1
  <2>2. CASE d # c
    BY <2>2 DEF Bills
  <2> QED BY <2>1, <2>2
<1> QED BY <1>1, <1>2 DEF Bills

\* The reason a coupon or a basket is rejected for is not looked at.
LEMMA Onward ==
  ASSUME NEW L, NEW whole, NEW s, NEW b, BillOK(b), Sound(L, whole, s, b),
         NEW stage, NEW x, Staged(s, b, stage, x), stage \notin {"bundles", "rules"},
         NEW next, NEW y, next \notin {"bundles", "rules"},
         next \in Early => stage \in Early,
         NEW d, NEW reason, d = [b EXCEPT !.rejected = reason]
  PROVE  Sound(L, whole, s, d) /\ Staged(s, d, next, y)
<1>1. /\ d.lines = b.lines /\ d.bundle = b.bundle /\ d.auto = b.auto
      /\ d.credit = b.credit /\ d.given = b.given /\ d.coupon = b.coupon
      /\ d.campaigns = b.campaigns /\ d.applied = b.applied /\ d.onSale = b.onSale
      /\ d.told = b.told /\ d.ahead = b.ahead /\ d.afterAuto = b.afterAuto
  BY DEF BillOK
<1>2. Sound(L, whole, s, d)
  BY <1>1, Zenon DEF Sound
<1>3. stage \in Early => stage \in {"new", "offers"}
  BY DEF Early
<1>4. next \in {"new", "offers", "bundles"} => next \in Early
  BY DEF Early
<1>5. Staged(s, d, next, y)
  BY <1>1, <1>3, <1>4 DEF Staged, Early
<1> QED BY <1>2, <1>5

\* The sums of two credits.
LEMMA PlusIs ==
  ASSUME NEW f \in [Campaigns -> Nat], NEW g \in [Campaigns -> Nat]
  PROVE  /\ Plus(f, g) \in [Campaigns -> Nat]
         /\ \A k \in Campaigns : Plus(f, g)[k] = f[k] + g[k]
         /\ SumFunction(f) \in Nat /\ SumFunction(g) \in Nat
         /\ SumFunction(Plus(f, g)) = SumFunction(f) + SumFunction(g)
         /\ \A k \in Campaigns : g[k] <= SumFunction(g)
<1> DEFINE h == Plus(f, g)
<1>1. h \in [Campaigns -> Nat] /\ \A k \in Campaigns : h[k] = f[k] + g[k]
  BY DEF Plus
<1>2. IsFiniteSet(Campaigns)
  BY PriceRulesAssumption
<1> HIDE DEF h
<1>3. \A k \in Campaigns : f[k] \in Int /\ g[k] \in Int /\ h[k] = f[k] + g[k]
  BY <1>1
<1>4. SumFunctionOnSet(h, Campaigns) =
        SumFunctionOnSet(f, Campaigns) + SumFunctionOnSet(g, Campaigns)
  BY <1>2, <1>3, SumPlus
<1>5. /\ SumFunction(h) = SumFunctionOnSet(h, Campaigns)
      /\ SumFunction(f) = SumFunctionOnSet(f, Campaigns)
      /\ SumFunction(g) = SumFunctionOnSet(g, Campaigns)
  BY <1>1 DEF SumFunction
<1>6. DOMAIN f = Campaigns /\ DOMAIN g = Campaigns
  OBVIOUS
<1>7. SumFunction(f) \in Nat
  BY <1>2, <1>6, SumType
<1>8. SumFunction(g) \in Nat /\ \A k \in Campaigns : g[k] <= SumFunction(g)
  BY <1>2, <1>6, SumType
<1> QED BY <1>1, <1>4, <1>5, <1>7, <1>8 DEF h

\* Lines none of which is free yet cost what all their units cost.
LEMMA NothingFree ==
  ASSUME NEW lines \in Seq(Lines), \A i \in DOMAIN lines : lines[i].free = 0
  PROVE  Units(lines) = Due(lines)
<1>1. ASSUME NEW i \in DOMAIN lines PROVE AllUnits(lines[i]) = Payable(lines[i])
  <2>1. lines[i].paid \in Nat /\ lines[i].free = 0
    BY LineFacts
  <2>2. lines[i].paid + lines[i].free = lines[i].paid
    BY <2>1
  <2> QED BY <2>2 DEF AllUnits, Payable
<1>2. [i \in DOMAIN lines |-> AllUnits(lines[i])] = [i \in DOMAIN lines |-> Payable(lines[i])]
  BY <1>1
<1> QED BY <1>2, Zenon DEF Units, Due

\* Lines in no sale bring no credit.
LEMMA NoSales ==
  ASSUME NEW lines \in Seq(Lines), \A i \in DOMAIN lines : lines[i].campaigns = {}
  PROVE  SalesOf(lines) = {} /\ SalesOn(lines) = 0
<1>1. SaleCredit(lines) = Nothing /\ SumFunction(SaleCredit(lines)) = SalesOn(lines)
  BY SaleCreditIs
<1>2. SalesOn(lines) = 0
  BY <1>1, NothingCredited
<1>3. SalesOf(lines) = {}
  BY DEF SalesOf
<1> QED BY <1>2, <1>3

\* The bill once the lines are made.
LEMMA OffersSound ==
  ASSUME shop \in Shops, NEW b, BillOK(b), b.coupon = 0, b.applied = <<>>,
         Sound(Lines, WholeOffers, shop, b), NEW x, Staged(shop, b, "offers", x),
         NEW reads, shop.couponsOnly => ~reads,
         NEW lines \in Seq(Lines), \A i \in DOMAIN lines : lines[i].free = 0,
         ~reads => \A i \in DOMAIN lines : lines[i].campaigns = {},
         NEW d, d = [b EXCEPT !.lines = lines, !.onSale = SalesOf(lines) # {},
                              !.campaigns = SalesOf(lines), !.credit = SaleCredit(lines)],
         NEW bundles, bundles => reads
  PROVE  Sound(Lines, WholeOffers, shop, d) /\ Staged(shop, d, "bundles", bundles)
<1> DEFINE sales == SalesOf(lines)
           credit == SaleCredit(lines)
           on == sales # {}
<1>1. /\ credit \in [Campaigns -> Nat] /\ SumFunction(credit) = SalesOn(lines)
      /\ \A k \in Campaigns : credit[k] > 0 => k \in sales
      /\ ~reads => credit = Nothing
  BY SaleCreditIs DEF SalesOf
<1>2. d = [b EXCEPT !.lines = lines, !.onSale = on, !.campaigns = sales, !.credit = credit]
  OBVIOUS
<1>3. ~reads => sales = {} /\ SalesOn(lines) = 0
  BY NoSales
<1>4. Units(lines) = Due(lines)
  BY NothingFree
<1>5. on <=> sales # {}
  OBVIOUS
<1> HIDE DEF sales, credit, on
<1>6. /\ d.lines = lines /\ d.onSale = on /\ d.campaigns = sales /\ d.credit = credit
      /\ d.bundle = b.bundle /\ d.auto = b.auto /\ d.given = b.given /\ d.coupon = b.coupon
      /\ d.applied = b.applied /\ d.told = b.told /\ d.ahead = b.ahead
  BY <1>2 DEF BillOK
<1>7. /\ b.auto = 0 /\ b.given = Nothing /\ b.bundle = 0
  BY DEF Staged, Early
<1>8. Staged(shop, d, "bundles", bundles)
  BY <1>6, <1>7 DEF Staged, Early
<1>9. SalesOn(lines) = SalesOn(lines) + 0 + 0 + 0
  <2>1. SumFunction(credit) \in Nat
    BY <1>1, NothingCredited, PlusIs
  <2> QED BY <1>1, <2>1
<1>10. Units(lines) = Due(lines) + 0
  BY <1>4, LinesTotal
<1>11. /\ ToldTruly(shop, d.given, d.told, d.ahead)
       /\ SumFunction(d.given) = d.auto /\ d.given \in [Campaigns -> Nat]
       /\ \A k \in Campaigns : d.given[k] > 0 => k \in AutoCampaigns(shop)
       /\ d.bundle = 0 /\ d.auto = 0
  BY <1>6, <1>7 DEF Sound
<1>12. SumFunction(d.credit) = SalesOn(d.lines) + d.bundle + d.auto + d.coupon
  BY <1>1, <1>6, <1>9, <1>11
<1>13. shop.couponsOnly =>
         /\ SalesOf(d.lines) = {} /\ SalesOn(d.lines) = 0 /\ d.bundle = 0
         /\ d.credit = d.given
  BY <1>1, <1>3, <1>6, <1>7 DEF sales
<1>14. ToSet(d.applied) = {}
  BY <1>6 DEF ToSet
<1>15. SalesOf(d.lines) = sales
  BY <1>6 DEF sales
<1>16. WholeOffers => Units(d.lines) = Due(d.lines) + d.bundle
  BY <1>6, <1>10, <1>11
<1>17. Sound(Lines, WholeOffers, shop, d)
  <2>1. d.lines \in Seq(Lines) /\ d.bundle \in Nat /\ d.auto \in Nat
        /\ d.credit \in [Campaigns -> Nat]
    BY <1>1, <1>6, <1>11
  <2>2. d.onSale <=> SalesOf(d.lines) # {}
    BY <1>5, <1>6, <1>15
  <2>3. d.campaigns \subseteq SalesOf(d.lines)
    BY <1>6, <1>15
  <2>4. \A k \in Campaigns : d.credit[k] > 0 => k \in d.campaigns
    BY <1>1, <1>6
  <2> QED BY <1>11, <1>12, <1>13, <1>14, <1>16, <2>1, <2>2, <2>3, <2>4 DEF Sound
<1> QED BY <1>8, <1>17

\* Lines that differ in what is paid and free only are in the same sales.
LEMMA AlikeIs ==
  ASSUME NEW lines, NEW base, Alike(lines, base)
  PROVE  SalesOn(lines) = SalesOn(base) /\ SalesOf(lines) = SalesOf(base)
<1>1. /\ DOMAIN lines = DOMAIN base
      /\ \A i \in DOMAIN base : lines[i].campaigns = base[i].campaigns
                                /\ lines[i].sale = base[i].sale
  BY DEF Alike
<1>2. [i \in DOMAIN lines |-> lines[i].sale] = [i \in DOMAIN base |-> base[i].sale]
  BY <1>1
<1>3. SalesOf(lines) = SalesOf(base)
  BY <1>1 DEF SalesOf
<1> QED BY <1>2, <1>3 DEF SalesOn

\* The bill once bundles were given.
LEMMA BundlesSound ==
  ASSUME shop \in Shops, NEW b, BillOK(b), b.coupon = 0, b.applied = <<>>,
         Sound(Lines, WholeOffers, shop, b), NEW x, Staged(shop, b, "bundles", x),
         NEW g, g = EvaluateBundles(b.lines, RunningBundles(x), shop.combine),
         NEW d, d = [b EXCEPT !.lines = g.lines, !.bundle = g.discount,
                              !.campaigns = b.campaigns \cup {k \in Campaigns : g.credit[k] > 0},
                              !.credit = Plus(b.credit, g.credit)]
  PROVE  Sound(Lines, WholeOffers, shop, d) /\ Staged(shop, d, "rules", x)
<1> DEFINE campaigns == b.campaigns \cup {k \in Campaigns : g.credit[k] > 0}
           credit == Plus(b.credit, g.credit)
<1>1. /\ b.lines \in Seq(Lines) /\ \A i \in DOMAIN b.lines : b.lines[i].free = 0
      /\ shop.couponsOnly => ~x
      /\ b.auto = 0 /\ b.given = Nothing /\ b.bundle = 0
  BY DEF Sound, Staged, Early
<1>2. RunningBundles(x) \in {shop.bundles, <<>>} /\ (~x => RunningBundles(x) = <<>>)
  BY DEF RunningBundles
<1>3. /\ g \in Gifts(b.lines)
      /\ ~x => g.lines = b.lines /\ g.discount = 0 /\ g.credit = Nothing
  BY <1>1, <1>2, EvaluateBundlesIs
<1>4. /\ g.lines \in Seq(Lines) /\ g.discount \in Nat /\ g.credit \in [Campaigns -> Nat]
      /\ Alike(g.lines, b.lines) /\ SumFunction(g.credit) = g.discount
      /\ WholeOffers => Units(g.lines) = Due(g.lines) + g.discount
  BY <1>3 DEF Gifts
<1>5. /\ credit \in [Campaigns -> Nat]
      /\ \A k \in Campaigns : credit[k] = b.credit[k] + g.credit[k]
      /\ SumFunction(b.credit) \in Nat
      /\ SumFunction(credit) = SumFunction(b.credit) + g.discount
      /\ \A k \in Campaigns : g.credit[k] <= g.discount
      /\ \A k \in Campaigns : b.credit[k] \in Nat /\ g.credit[k] \in Nat
  <2>1. b.credit \in [Campaigns -> Nat]
    BY DEF Sound
  <2> DEFINE e == b.credit
             f == g.credit
  <2>2. e \in [Campaigns -> Nat] /\ f \in [Campaigns -> Nat]
    BY <1>4, <2>1
  <2> HIDE DEF e, f
  <2>3. /\ Plus(e, f) \in [Campaigns -> Nat]
        /\ \A k \in Campaigns : Plus(e, f)[k] = e[k] + f[k]
        /\ SumFunction(e) \in Nat
        /\ SumFunction(Plus(e, f)) = SumFunction(e) + SumFunction(f)
        /\ \A k \in Campaigns : f[k] <= SumFunction(f)
        /\ \A k \in Campaigns : e[k] \in Nat /\ f[k] \in Nat
    BY <2>2, PlusIs
  <2>4. SumFunction(f) = g.discount
    BY <1>4 DEF f
  <2> QED BY <2>3, <2>4 DEF e, f
<1>6. SalesOn(g.lines) = SalesOn(b.lines) /\ SalesOf(g.lines) = SalesOf(b.lines)
  BY <1>4, AlikeIs
<1>7. d = [b EXCEPT !.lines = g.lines, !.bundle = g.discount, !.campaigns = campaigns,
                    !.credit = credit]
  OBVIOUS
<1>8. /\ b.campaigns \subseteq campaigns
      /\ \A k \in Campaigns : g.credit[k] > 0 => k \in campaigns
      /\ g.discount = 0 => campaigns = b.campaigns
  BY <1>5
<1> HIDE DEF campaigns, credit
<1>9. /\ d.lines = g.lines /\ d.bundle = g.discount /\ d.campaigns = campaigns
      /\ d.credit = credit /\ d.onSale = b.onSale
      /\ d.auto = b.auto /\ d.given = b.given /\ d.coupon = b.coupon
      /\ d.applied = b.applied /\ d.told = b.told /\ d.ahead = b.ahead
  BY <1>7 DEF BillOK
<1>10. Staged(shop, d, "rules", x)
  BY <1>1, <1>9 DEF Staged, Early
<1>11. SumFunction(d.credit) = SalesOn(d.lines) + d.bundle + d.auto + d.coupon
  <2>1. SumFunction(b.credit) = SalesOn(b.lines) + 0 + 0 + 0
    BY <1>1 DEF Sound
  <2>2. SaleCredit(b.lines) \in [Campaigns -> Nat]
        /\ SumFunction(SaleCredit(b.lines)) = SalesOn(b.lines)
    BY <1>1, SaleCreditIs
  <2>3. SalesOn(b.lines) \in Nat
    BY <2>2, PlusIs
  <2> QED BY <1>1, <1>4, <1>5, <1>6, <1>9, <2>1, <2>3
<1>12. \A k \in Campaigns : d.credit[k] > 0 => k \in d.campaigns
  <2> SUFFICES ASSUME NEW k \in Campaigns, d.credit[k] > 0 PROVE k \in d.campaigns
    OBVIOUS
  <2>1. b.credit[k] > 0 \/ g.credit[k] > 0
    BY <1>5, <1>9
  <2>2. b.credit[k] > 0 => k \in b.campaigns
    BY DEF Sound
  <2> QED BY <1>8, <1>9, <2>1, <2>2
<1>13. shop.couponsOnly =>
         /\ SalesOf(d.lines) = {} /\ SalesOn(d.lines) = 0 /\ d.bundle = 0
         /\ \A k \in Campaigns \ CouponCampaigns(shop, d.applied) : d.credit[k] = d.given[k]
  <2> SUFFICES ASSUME shop.couponsOnly
               PROVE  /\ SalesOf(d.lines) = {} /\ SalesOn(d.lines) = 0 /\ d.bundle = 0
                      /\ \A k \in Campaigns \ CouponCampaigns(shop, d.applied) :
                           d.credit[k] = d.given[k]
    OBVIOUS
  <2>1. /\ SalesOf(b.lines) = {} /\ SalesOn(b.lines) = 0
        /\ \A k \in Campaigns \ CouponCampaigns(shop, b.applied) : b.credit[k] = b.given[k]
    BY DEF Sound
  <2>2. g.discount = 0 /\ \A k \in Campaigns : g.credit[k] = 0
    BY <1>1, <1>3, NothingCredited
  <2>3. \A k \in Campaigns : credit[k] = b.credit[k]
    BY <1>5, <2>2
  <2> QED BY <1>6, <1>9, <2>1, <2>2, <2>3
<1>14. d.bundle = 0 =>
         d.campaigns \subseteq SalesOf(d.lines) \cup AutoCampaigns(shop)
                                 \cup CouponCampaigns(shop, d.applied)
  <2>1. b.campaigns \subseteq SalesOf(b.lines) \cup AutoCampaigns(shop)
                                \cup CouponCampaigns(shop, b.applied)
    BY <1>1 DEF Sound
  <2> QED BY <1>6, <1>8, <1>9, <2>1
<1>15. /\ ToldTruly(shop, d.given, d.told, d.ahead)
       /\ SumFunction(d.given) = d.auto /\ d.given \in [Campaigns -> Nat] /\ d.auto \in Nat
       /\ \A k \in Campaigns : d.given[k] > 0 => k \in AutoCampaigns(shop)
       /\ d.onSale <=> SalesOf(d.lines) # {}
  BY <1>6, <1>9 DEF Sound
<1>16. ToSet(d.applied) = {}
  BY <1>9 DEF ToSet
<1>17. /\ d.lines \in Seq(Lines) /\ d.bundle \in Nat /\ d.credit \in [Campaigns -> Nat]
       /\ WholeOffers => Units(d.lines) = Due(d.lines) + d.bundle
  BY <1>4, <1>5, <1>9
<1>18. Sound(Lines, WholeOffers, shop, d)
  BY <1>11, <1>12, <1>13, <1>14, <1>15, <1>16, <1>17 DEF Sound
<1> QED BY <1>10, <1>18

\* Automatic offers that stand beside a sale are offers of the shop.
LEMMA UsableIs ==
  ASSUME shop \in Shops, NEW rules \in {shop.autos, <<>>}, NEW onSale,
         NEW usable, usable = IF onSale
                              THEN Those(rules, {i \in DOMAIN rules : Stacks(rules[i])})
                              ELSE rules
  PROVE  /\ usable \in Seq(ToSet(shop.autos))
         /\ \A r \in ToSet(shop.autos) : CartRule(r)
<1>1. /\ shop.autos \in Seq(ToSet(shop.autos))
      /\ \A r \in ToSet(shop.autos) : CartRule(r)
  BY ShopsAssumption
<1>2. rules \in Seq(ToSet(shop.autos))
  <2>1. <<>> \in Seq(ToSet(shop.autos))
    OBVIOUS
  <2> QED BY <1>1, <2>1
<1> DEFINE places == {i \in DOMAIN rules : Stacks(rules[i])}
<1>3. usable = IF onSale THEN Those(rules, places) ELSE rules
  OBVIOUS
<1> HIDE DEF places
<1>4. Those(rules, places) \in Seq(ToSet(shop.autos))
  BY <1>2, ThoseOf
<1> QED BY <1>1, <1>2, <1>3, <1>4

\* The bill once automatic offers were taken off.
LEMMA RulesSound ==
  ASSUME shop \in Shops, NEW b, BillOK(b), b.coupon = 0, b.applied = <<>>,
         Sound(Lines, WholeOffers, shop, b), NEW x, Staged(shop, b, "rules", x),
         NEW usable \in Seq(ToSet(shop.autos)),
         NEW w, AllWin(w, usable, Due(b.lines), Amounts(b.lines)),
         NEW d, d = WithOffers(b, usable, w),
         NEW next, next \notin Early, NEW y
  PROVE  Sound(Lines, WholeOffers, shop, d) /\ Staged(shop, d, next, y)
<1> DEFINE lines == Amounts(b.lines)
           total == Due(b.lines)
           e == EvaluateAutoCartRules(b, w)
           given == Taken(e, b)
           told == OffersTold(usable, given, total, lines)
           ahead == OffersAhead(usable, given, total, lines)
           rejected == IF Bxgy(b) /\ CodesToTry # <<>>
                       THEN "COUPON_NOT_WITH_BUNDLE" ELSE e.rejected
<1>1. b.lines \in Seq(Lines) /\ b.credit \in [Campaigns -> Nat]
  BY DEF Sound
<1>2. Entries(lines) /\ CartTotal(lines) = total /\ total \in Nat
  BY <1>1, AmountsIs, LinesTotal
<1>3. \A r \in ToSet(shop.autos) : CartRule(r)
  BY ShopsAssumption
<1>4. AllWin(w, usable, total, lines)
  OBVIOUS
<1> HIDE DEF e, given, total, lines
<1>5. /\ e.auto \in Nat /\ e.auto <= total
      /\ e.afterAuto = total - e.auto
      /\ given \in [Campaigns -> Nat] /\ SumFunction(given) = e.auto
      /\ e.credit = Plus(b.credit, given)
      /\ e.campaigns = b.campaigns \cup CampaignsOf(w)
      /\ \A k \in Campaigns : given[k] > 0 =>
           /\ k \in e.campaigns
           /\ \E i \in DOMAIN usable : /\ usable[i].campaign = k
                                       /\ RuleDiscount(usable[i], total, lines) > 0
  <2> HIDE DEF told, ahead, rejected
  <2>1. /\ e = EvaluateAutoCartRules(b, w)
        /\ given = Taken(e, b)
    BY DEF e, given
  <2>2. TakesOff(b, w, usable, given, e)
    BY <1>1, <2>1, AutoIs
  <2> QED BY <2>2 DEF TakesOff, total, lines
<1>6. d = [e EXCEPT !.given = given, !.told = told, !.ahead = ahead, !.rejected = rejected]
  BY <1>2 DEF WithOffers, Taken, e, given, lines
<1>7. ToldTruly(shop, given, told, ahead)
  <2>1. ToldTruly(shop, given, OffersTold(usable, given, total, lines),
                  OffersAhead(usable, given, total, lines))
    BY <1>2, <1>3, <1>5, ToldIs
  <2> QED BY <2>1
<1> HIDE DEF told, ahead, rejected
<1>8. /\ BillOK(e)
      /\ e.lines = b.lines /\ e.bundle = b.bundle /\ e.onSale = b.onSale
      /\ e.coupon = b.coupon /\ e.applied = b.applied
  BY TakeOffIs DEF e
<1>10. /\ d.lines = b.lines /\ d.bundle = b.bundle /\ d.onSale = b.onSale
       /\ d.coupon = b.coupon /\ d.applied = b.applied
       /\ d.auto = e.auto /\ d.afterAuto = e.afterAuto /\ d.campaigns = e.campaigns
       /\ d.credit = e.credit /\ d.given = given /\ d.told = told /\ d.ahead = ahead
  BY <1>6, <1>8 DEF BillOK
<1>11. Staged(shop, d, next, y)
  BY <1>5, <1>10 DEF Staged, Early, total
<1>12. ToSet(d.applied) = {}
  BY <1>10 DEF ToSet
<1>13. b.auto = 0 /\ b.given = Nothing
  BY DEF Staged, Early
<1>14. /\ Plus(b.credit, given) \in [Campaigns -> Nat]
       /\ \A k \in Campaigns : Plus(b.credit, given)[k] = b.credit[k] + given[k]
       /\ SumFunction(b.credit) \in Nat
       /\ SumFunction(Plus(b.credit, given)) = SumFunction(b.credit) + SumFunction(given)
  <2> DEFINE f == b.credit
  <2>1. f \in [Campaigns -> Nat]
    BY <1>1
  <2> HIDE DEF f
  <2>2. /\ Plus(f, given) \in [Campaigns -> Nat]
        /\ \A k \in Campaigns : Plus(f, given)[k] = f[k] + given[k]
        /\ SumFunction(f) \in Nat
        /\ SumFunction(Plus(f, given)) = SumFunction(f) + SumFunction(given)
    BY <1>5, <2>1, PlusIs
  <2> QED BY <2>2 DEF f
<1>15. SumFunction(d.credit) = SalesOn(d.lines) + d.bundle + d.auto + d.coupon
  <2>1. SumFunction(b.credit) = SalesOn(b.lines) + b.bundle + 0 + 0 /\ b.bundle \in Nat
    BY <1>13 DEF Sound
  <2>2. SaleCredit(b.lines) \in [Campaigns -> Nat]
        /\ SumFunction(SaleCredit(b.lines)) = SalesOn(b.lines)
    BY <1>1, SaleCreditIs
  <2>3. SalesOn(b.lines) \in Nat
    BY <2>2, PlusIs
  <2> QED BY <1>5, <1>10, <1>14, <2>1, <2>3
<1>16. \A k \in Campaigns : d.credit[k] > 0 => k \in d.campaigns
  <2> SUFFICES ASSUME NEW k \in Campaigns, d.credit[k] > 0 PROVE k \in d.campaigns
    OBVIOUS
  <2>1. d.credit[k] = b.credit[k] + given[k] /\ b.credit[k] \in Nat /\ given[k] \in Nat
    BY <1>1, <1>5, <1>10, <1>14
  <2>2. b.credit[k] > 0 => k \in b.campaigns
    BY DEF Sound
  <2> QED BY <1>5, <1>10, <2>1, <2>2
<1>17. \A i \in DOMAIN usable : usable[i] \in ToSet(shop.autos)
  BY Places
<1>18. \A k \in Campaigns : d.given[k] > 0 => k \in AutoCampaigns(shop)
  BY <1>5, <1>10, <1>17 DEF AutoCampaigns
<1>19. CampaignsOf(w) \subseteq AutoCampaigns(shop)
  <2> SUFFICES ASSUME NEW i \in DOMAIN w PROVE w[i].campaign \in AutoCampaigns(shop)
    BY DEF CampaignsOf
  <2>1. Winner(w[i], usable, total, lines)
    BY <1>4 DEF AllWin
  <2>2. PICK j \in DOMAIN usable : usable[j].campaign = w[i].campaign
    BY <2>1 DEF Winner
  <2> QED BY <1>17, <2>2 DEF AutoCampaigns
<1>20. shop.couponsOnly =>
         /\ SalesOf(d.lines) = {} /\ SalesOn(d.lines) = 0 /\ d.bundle = 0
         /\ \A k \in Campaigns \ CouponCampaigns(shop, d.applied) : d.credit[k] = d.given[k]
  <2> SUFFICES ASSUME shop.couponsOnly
               PROVE  /\ SalesOf(d.lines) = {} /\ SalesOn(d.lines) = 0 /\ d.bundle = 0
                      /\ \A k \in Campaigns \ CouponCampaigns(shop, d.applied) :
                           d.credit[k] = d.given[k]
    OBVIOUS
  <2>1. /\ SalesOf(b.lines) = {} /\ SalesOn(b.lines) = 0 /\ b.bundle = 0
        /\ \A k \in Campaigns \ CouponCampaigns(shop, b.applied) : b.credit[k] = b.given[k]
    BY DEF Sound
  <2>2. \A k \in Campaigns \ CouponCampaigns(shop, b.applied) : b.credit[k] = 0
    BY <1>13, <2>1, NothingCredited
  <2>3. \A k \in Campaigns : given[k] \in Nat
    BY <1>5
  <2>4. \A k \in Campaigns : d.credit[k] = b.credit[k] + given[k]
    BY <1>5, <1>10, <1>14
  <2>5. \A k \in Campaigns \ CouponCampaigns(shop, b.applied) : d.credit[k] = given[k]
    BY <2>2, <2>3, <2>4
  <2> QED BY <1>10, <2>1, <2>5
<1>21. d.bundle = 0 =>
         d.campaigns \subseteq SalesOf(d.lines) \cup AutoCampaigns(shop)
                                 \cup CouponCampaigns(shop, d.applied)
  <2>1. b.bundle = 0 => b.campaigns \subseteq SalesOf(b.lines) \cup AutoCampaigns(shop)
                                                \cup CouponCampaigns(shop, b.applied)
    BY DEF Sound
  <2> QED BY <1>5, <1>10, <1>19, <2>1
<1>22. /\ d.lines \in Seq(Lines) /\ d.bundle \in Nat
       /\ WholeOffers => Units(d.lines) = Due(d.lines) + d.bundle
       /\ d.onSale <=> SalesOf(d.lines) # {}
  BY <1>10 DEF Sound
<1>23. /\ d.auto \in Nat /\ d.credit \in [Campaigns -> Nat] /\ d.given \in [Campaigns -> Nat]
       /\ SumFunction(d.given) = d.auto /\ ToldTruly(shop, d.given, d.told, d.ahead)
  BY <1>5, <1>7, <1>10, <1>14
<1>24. Sound(Lines, WholeOffers, shop, d)
  BY <1>12, <1>15, <1>16, <1>18, <1>20, <1>21, <1>22, <1>23 DEF Sound
<1> QED BY <1>11, <1>24

\* One coupon more.
LEMMA AppendIs ==
  ASSUME NEW X, NEW s \in Seq(X), NEW k \in X
  PROVE  Append(s, k) \in Seq(X) /\ ToSet(Append(s, k)) = ToSet(s) \cup {k}
<1> DEFINE t == Append(s, k)
<1>1. /\ t \in Seq(X) /\ Len(s) \in Nat /\ DOMAIN s = 1 .. Len(s)
      /\ DOMAIN t = 1 .. Len(s) + 1 /\ t[Len(s) + 1] = k
      /\ \A i \in DOMAIN s : t[i] = s[i]
  OBVIOUS
<1> HIDE DEF t
<1>2. \A x : x \in ToSet(t) <=> x \in ToSet(s) \/ x = k
  <2> TAKE x
  <2>1. ASSUME x \in ToSet(t) PROVE x \in ToSet(s) \/ x = k
    <3>1. PICK i \in DOMAIN t : x = t[i]
      BY <2>1 DEF ToSet
    <3>2. i \in DOMAIN s \/ i = Len(s) + 1
      BY <1>1
    <3> QED BY <1>1, <3>1, <3>2 DEF ToSet
  <2>2. ASSUME x \in ToSet(s) PROVE x \in ToSet(t)
    <3>1. PICK i \in DOMAIN s : x = s[i]
      BY <2>2 DEF ToSet
    <3>2. i \in DOMAIN t
      BY <1>1
    <3> QED BY <1>1, <3>1, <3>2 DEF ToSet
  <2>3. ASSUME x = k PROVE x \in ToSet(t)
    <3>1. Len(s) + 1 \in DOMAIN t
      BY <1>1
    <3> QED BY <1>1, <2>3, <3>1 DEF ToSet
  <2> QED BY <2>1, <2>2, <2>3
<1>3. ToSet(t) = ToSet(s) \cup {k}
  BY <1>2
<1> QED BY <1>1, <1>3 DEF t

\* A coupon that is accepted stacks with what is in the cart, and with the
\* coupons before it.
LEMMA AcceptedStacks ==
  ASSUME shop \in Shops, NEW c, NEW b, BillOK(b), Sound(Lines, WholeOffers, shop, b),
         b.bundle = 0, NEW k \in Codes, RefusalOn(c, b, k) = "none"
  PROVE  StacksIn(shop, b.lines, b.auto, k)
<1> DEFINE coupon == shop.coupon[k]
           sales == SalesOf(b.lines)
<1>1. /\ b.auto > 0 => /\ shop.couponAfterAuto
                       /\ Flag(coupon.afterAuto, shop.couponAfterAuto)
      /\ ~BesideOtherSale(b, coupon)
      /\ b.auto > 0 /\ (\E i \in DOMAIN coupon.rules :
                          coupon.rules[i].kind = "category_percent_off") =>
           Flag(coupon.stackCategory, shop.stackCategory)
  BY AcceptedIs
<1>2. /\ b.onSale <=> sales # {}
      /\ b.campaigns \subseteq sales \cup AutoCampaigns(shop)
                                \cup CouponCampaigns(shop, b.applied)
      /\ \A l \in ToSet(b.applied) : StacksIn(shop, b.lines, b.auto, l)
  BY DEF Sound
<1>3. /\ b.applied \in Seq(Codes)
      /\ \A l \in ToSet(b.applied) : l \in Codes
  BY DEF BillOK, ToSet
<1>4. sales # {} => Flag(coupon.stackSku, shop.stackSku) \/ coupon.campaign \in sales
  <2> SUFFICES ASSUME sales # {}, coupon.campaign \notin sales
               PROVE  Flag(coupon.stackSku, shop.stackSku)
    OBVIOUS
  <2>1. Flag(coupon.stackSku, shop.stackSku) \/ coupon.campaign \in b.campaigns
    BY <1>1, <1>2 DEF BesideOtherSale
  <2>2. coupon.campaign \notin AutoCampaigns(shop)
    BY PricingAssumption DEF AutoCampaigns, ToSet
  <2>3. CASE coupon.campaign \in CouponCampaigns(shop, b.applied)
    <3>1. PICK l \in ToSet(b.applied) : shop.coupon[l].campaign = coupon.campaign
      BY <2>3 DEF CouponCampaigns
    <3>2. StacksIn(shop, b.lines, b.auto, l) /\ l \in Codes
      BY <1>2, <1>3
    <3>3. Flag(shop.coupon[l].stackSku, shop.stackSku)
      BY <3>1, <3>2 DEF StacksIn
    <3>4. coupon.stackSku = shop.coupon[l].stackSku
      BY <3>1, <3>2, ShopsAssumption
    <3> QED BY <3>3, <3>4
  <2> QED BY <1>2, <2>1, <2>2, <2>3
<1>5. b.auto > 0 => shop.couponAfterAuto /\ coupon.afterAuto # "no"
  BY <1>1 DEF Flag
<1>6. b.auto > 0 /\ (\E r \in ToSet(coupon.rules) : r.kind = "category_percent_off") =>
        Flag(coupon.stackCategory, shop.stackCategory)
  BY <1>1 DEF ToSet
<1> QED BY <1>4, <1>5, <1>6 DEF StacksIn

\* The bill once a coupon was redeemed.
LEMMA CouponSound ==
  ASSUME shop \in Shops, NEW c, NEW b, BillOK(b), Sound(Lines, WholeOffers, shop, b),
         NEW stage, stage \notin Early, NEW x, Staged(shop, b, stage, x), ~Bxgy(b),
         NEW k \in Codes, RefusalOn(c, b, k) = "none",
         NEW d, d = Redeemed(b, k), NEW next, next \notin Early, NEW y
  PROVE  Sound(Lines, WholeOffers, shop, d) /\ Staged(shop, d, next, y)
<1> DEFINE v == CouponDiscount(b, k)
           campaign == shop.coupon[k].campaign
           applied == Append(b.applied, k)
           credit == Plus(b.credit, Only(campaign, v))
           campaigns == b.campaigns \cup {campaign}
           left == NonNegative(b.remaining - v)
           taken == b.coupon + v
<1>1. d = [b EXCEPT !.applied = applied, !.coupon = taken, !.remaining = left,
                    !.campaigns = campaigns, !.credit = credit]
  BY DEF Redeemed
<1>2. b.bundle = 0
  BY DEF Sound, Bxgy
<1>3. StacksIn(shop, b.lines, b.auto, k)
  BY <1>2, AcceptedStacks
<1>4. v \in Nat /\ b.coupon \in Nat /\ b.applied \in Seq(Codes)
  <2>1. b.remaining \in Nat /\ b.coupon \in Nat /\ b.applied \in Seq(Codes)
    BY DEF BillOK
  <2>2. v \in 0 .. b.remaining
    BY <2>1, DiscountFits
  <2> QED BY <2>1, <2>2
<1>5. campaign \in Campaigns
  BY PricingAssumption
<1>6. b.credit \in [Campaigns -> Nat]
  BY DEF Sound
<1>7. /\ credit \in [Campaigns -> Nat]
      /\ \A m \in Campaigns : credit[m] = b.credit[m] + (IF m = campaign THEN v ELSE 0)
      /\ SumFunction(b.credit) \in Nat
      /\ SumFunction(credit) = SumFunction(b.credit) + v
  <2> DEFINE f == b.credit
  <2>1. f \in [Campaigns -> Nat]
    BY <1>6
  <2> HIDE DEF f, v, campaign
  <2>2. /\ Plus(f, Only(campaign, v)) \in [Campaigns -> Nat]
        /\ \A m \in Campaigns :
             Plus(f, Only(campaign, v))[m] = f[m] + (IF m = campaign THEN v ELSE 0)
        /\ SumFunction(f) \in Nat
        /\ SumFunction(Plus(f, Only(campaign, v))) = SumFunction(f) + v
    BY <1>4, <1>5, <2>1, CreditPlus
  <2> QED BY <2>2 DEF f
<1>8. ToSet(applied) = ToSet(b.applied) \cup {k}
  BY <1>4, AppendIs
<1>9. CouponCampaigns(shop, applied) = CouponCampaigns(shop, b.applied) \cup {campaign}
  BY <1>8 DEF CouponCampaigns
<1>10. b.campaigns \subseteq campaigns /\ campaign \in campaigns
       /\ campaigns = b.campaigns \cup {campaign}
  OBVIOUS
<1> HIDE DEF v, applied, credit, campaigns, left, taken
<1>11. /\ d.lines = b.lines /\ d.bundle = b.bundle /\ d.onSale = b.onSale
       /\ d.auto = b.auto /\ d.given = b.given /\ d.afterAuto = b.afterAuto
       /\ d.told = b.told /\ d.ahead = b.ahead
       /\ d.coupon = taken /\ d.applied = applied /\ d.campaigns = campaigns
       /\ d.credit = credit
  BY <1>1 DEF BillOK
<1>12. taken = b.coupon + v
  BY DEF taken
<1>13. Staged(shop, d, next, y)
  <2>1. next \notin {"new", "offers", "bundles", "rules"}
        /\ stage \notin {"new", "offers", "bundles", "rules"}
    BY DEF Early
  <2>2. d.afterAuto = Due(d.lines) - d.auto
    BY <1>11, <2>1 DEF Staged
  <2> QED BY <2>1, <2>2 DEF Staged, Early
<1>14. SumFunction(d.credit) = SalesOn(d.lines) + d.bundle + d.auto + d.coupon
  <2>1. /\ SumFunction(b.credit) = SalesOn(b.lines) + b.bundle + b.auto + b.coupon
        /\ b.bundle \in Nat /\ b.auto \in Nat /\ b.lines \in Seq(Lines)
    BY DEF Sound
  <2>2. SaleCredit(b.lines) \in [Campaigns -> Nat]
        /\ SumFunction(SaleCredit(b.lines)) = SalesOn(b.lines)
    BY <2>1, SaleCreditIs
  <2>3. SalesOn(b.lines) \in Nat
    BY <2>2, PlusIs
  <2> QED BY <1>4, <1>7, <1>11, <1>12, <2>1, <2>3
<1>15. \A m \in Campaigns : d.credit[m] > 0 => m \in d.campaigns
  <2> SUFFICES ASSUME NEW m \in Campaigns, d.credit[m] > 0 PROVE m \in d.campaigns
    OBVIOUS
  <2>1. credit[m] > 0 /\ (m # campaign => credit[m] = b.credit[m]) /\ b.credit[m] \in Nat
    BY <1>6, <1>7, <1>11
  <2>2. b.credit[m] > 0 => m \in b.campaigns
    BY DEF Sound
  <2> QED BY <1>10, <1>11, <2>1, <2>2
<1>16. shop.couponsOnly =>
         /\ SalesOf(d.lines) = {} /\ SalesOn(d.lines) = 0 /\ d.bundle = 0
         /\ \A m \in Campaigns \ CouponCampaigns(shop, d.applied) : d.credit[m] = d.given[m]
  <2> SUFFICES ASSUME shop.couponsOnly
               PROVE  /\ SalesOf(d.lines) = {} /\ SalesOn(d.lines) = 0 /\ d.bundle = 0
                      /\ \A m \in Campaigns \ CouponCampaigns(shop, d.applied) :
                           d.credit[m] = d.given[m]
    OBVIOUS
  <2>1. /\ SalesOf(b.lines) = {} /\ SalesOn(b.lines) = 0 /\ b.bundle = 0
        /\ \A m \in Campaigns \ CouponCampaigns(shop, b.applied) : b.credit[m] = b.given[m]
    BY DEF Sound
  <2>2. ASSUME NEW m \in Campaigns \ CouponCampaigns(shop, applied)
        PROVE  credit[m] = b.given[m]
    <3>1. m \in Campaigns \ CouponCampaigns(shop, b.applied) /\ m # campaign
      BY <1>9
    <3>2. b.credit[m] = b.given[m] /\ b.credit[m] \in Nat
      BY <1>6, <2>1, <3>1
    <3>3. credit[m] = b.credit[m] + 0
      BY <1>7, <3>1
    <3> QED BY <3>2, <3>3
  <2> QED BY <1>11, <2>1, <2>2
<1>17. d.campaigns \subseteq SalesOf(d.lines) \cup AutoCampaigns(shop)
                               \cup CouponCampaigns(shop, d.applied)
  <2>1. b.campaigns \subseteq SalesOf(b.lines) \cup AutoCampaigns(shop)
                                \cup CouponCampaigns(shop, b.applied)
    BY <1>2 DEF Sound
  <2> QED BY <1>9, <1>10, <1>11, <2>1
<1>18. \A l \in ToSet(d.applied) : StacksIn(shop, d.lines, d.auto, l)
  <2>1. \A l \in ToSet(b.applied) : StacksIn(shop, b.lines, b.auto, l)
    BY DEF Sound
  <2> QED BY <1>3, <1>8, <1>11, <2>1
<1>19. /\ d.lines \in Seq(Lines) /\ d.bundle \in Nat /\ d.auto \in Nat
       /\ d.credit \in [Campaigns -> Nat] /\ d.given \in [Campaigns -> Nat]
       /\ SumFunction(d.given) = d.auto
       /\ \A m \in Campaigns : d.given[m] > 0 => m \in AutoCampaigns(shop)
       /\ WholeOffers => Units(d.lines) = Due(d.lines) + d.bundle
       /\ d.onSale <=> SalesOf(d.lines) # {}
       /\ ToldTruly(shop, d.given, d.told, d.ahead)
  BY <1>7, <1>11 DEF Sound
<1>20. Sound(Lines, WholeOffers, shop, d)
  BY <1>14, <1>15, <1>16, <1>17, <1>18, <1>19 DEF Sound
<1> QED BY <1>13, <1>20

-----------------------------------------------------------------------------
(* What every step keeps of the bills.                                      *)

\* No bill yet is a sound one.
LEMMA InitBills == Init => Bills
<1> SUFFICES ASSUME Init, NEW c \in Calls
             PROVE  /\ Sound(Lines, WholeOffers, shop, bill[c])
                    /\ Staged(shop, bill[c], pc[c], sees[c].bundles)
  BY DEF Bills
<1> DEFINE b == bill[c]
<1>1. bill[c] = NoBill /\ pc[c] = "new" /\ shop \in Shops
  BY DEF Init
<1> HIDE DEF b
<1>2. /\ b.lines = <<>> /\ b.bundle = 0 /\ b.auto = 0 /\ b.afterAuto = 0 /\ b.coupon = 0
      /\ b.campaigns = {} /\ b.credit = Nothing /\ b.given = Nothing
      /\ b.told = {} /\ b.ahead = {} /\ b.applied = <<>> /\ b.onSale = FALSE
  BY <1>1 DEF NoBill, b
<1>3. /\ Nothing \in [Campaigns -> Nat] /\ SumFunction(Nothing) = 0
      /\ \A k \in Campaigns : Nothing[k] = 0
  BY NothingCredited
<1>4. b.lines \in Seq(Lines) /\ DOMAIN b.lines = {} /\ ToSet(b.applied) = {}
  BY <1>2 DEF ToSet
<1>5. SalesOf(b.lines) = {} /\ SalesOn(b.lines) = 0
  BY <1>4, NoSales
<1>6. Units(b.lines) = Due(b.lines)
  BY <1>4, NothingFree
<1>7. Due(b.lines) = 0
  <2> DEFINE f == [i \in DOMAIN b.lines |-> Payable(b.lines[i])]
  <2>1. DOMAIN f = {} /\ IsFiniteSet({})
    BY <1>4, FS_EmptySet
  <2> HIDE DEF f
  <2>2. SumFunctionOnSet(f, {}) = 0
    BY <2>1, SumZero
  <2>3. SumFunction(f) = 0
    BY <2>1, <2>2 DEF SumFunction
  <2> QED BY <2>3 DEF Due, f
<1>8. ToldTruly(shop, b.given, b.told, b.ahead)
  BY <1>2, <1>3 DEF ToldTruly
<1>9. Sound(Lines, WholeOffers, shop, b)
  <2>1. WholeOffers => Units(b.lines) = Due(b.lines) + b.bundle
    BY <1>2, <1>6, <1>7
  <2> QED BY <1>2, <1>3, <1>4, <1>5, <1>8, <2>1 DEF Sound
<1>10. Staged(shop, b, "new", sees[c].bundles)
  <2>1. shop.couponsOnly => ~sees[c].bundles
    BY DEF Init
  <2> QED BY <1>2, <1>4, <1>7, <2>1 DEF Staged
<1> QED BY <1>1, <1>9, <1>10 DEF b

\* A step that changes no more of a bill than the reason it is rejected for.
LEMMA OnwardStep ==
  ASSUME Inv, Bills, NEW c \in Calls, shop' = shop,
         pc[c] \notin {"bundles", "rules"},
         NEW next, next \notin {"bundles", "rules"}, next \in Early => pc[c] \in Early,
         NEW reason, bill' = [bill EXCEPT ![c].rejected = reason],
         pc' = [pc EXCEPT ![c] = next],
         \A d \in Calls \ {c} : sees'[d] = sees[d]
  PROVE  Bills'
<1>1. /\ BillOK(bill[c]) /\ bill = [d \in Calls |-> bill[d]] /\ pc \in [Calls -> Stages]
      /\ Sound(Lines, WholeOffers, shop, bill[c])
      /\ Staged(shop, bill[c], pc[c], sees[c].bundles)
  BY DEF Inv, CallInv, TypeOK, Bills
<1>2. bill'[c] = [bill[c] EXCEPT !.rejected = reason] /\ pc'[c] = next
  BY <1>1
<1>3. /\ Sound(Lines, WholeOffers, shop, bill'[c])
      /\ Staged(shop, bill'[c], pc'[c], sees'[c].bundles)
  <2> DEFINE b == bill[c]
             d == bill'[c]
             whole == WholeOffers
             L == Lines
             old == sees[c].bundles
             new == sees'[c].bundles
             stage == pc[c]
             s == shop
  <2>1. /\ d = [b EXCEPT !.rejected = reason]
        /\ BillOK(b) /\ Sound(L, whole, s, b) /\ Staged(s, b, stage, old)
        /\ stage \notin {"bundles", "rules"} /\ next \notin {"bundles", "rules"}
        /\ next \in Early => stage \in Early
    BY <1>1, <1>2
  <2> HIDE DEF b, d, whole, L, old, new, stage, s
  <2>2. Sound(L, whole, s, d) /\ Staged(s, d, next, new)
    BY <2>1, Onward
  <2> QED BY <1>2, <2>2 DEF d, whole, L, new, s
<1>4. \A d \in Calls \ {c} : /\ bill'[d] = bill[d] /\ pc'[d] = pc[d]
                             /\ sees'[d].bundles = sees[d].bundles
  BY <1>1
<1> QED BY <1>3, <1>4, OneCall

\* The same when the bill does not change at all.
LEMMA SameBill ==
  ASSUME Inv, NEW c \in Calls, bill' = bill
  PROVE  bill' = [bill EXCEPT ![c].rejected = bill[c].rejected]
<1>1. bill = [d \in Calls |-> bill[d]] /\ BillOK(bill[c])
  BY DEF Inv, CallInv
<1>2. [bill[c] EXCEPT !.rejected = bill[c].rejected] = bill[c]
  BY <1>1 DEF BillOK
<1> QED BY <1>1, <1>2

\* A call that begins has made no bill, and one that is refused makes none.
LEMMA StartBills ==
  ASSUME Inv, Bills, NEW c \in Calls, RefuseBasket(c) \/ ShowNothing(c) \/ ReadSettings(c)
  PROVE  Bills'
<1>1. pc[c] = "new" /\ shop' = shop
  BY DEF RefuseBasket, ShowNothing, ReadSettings, world
<1>2. pc[c] \notin {"bundles", "rules"} /\ pc[c] \in Early
  BY <1>1 DEF Early
<1>3. PICK next \in {"refused", "answered", "offers"} : pc' = [pc EXCEPT ![c] = next]
  BY DEF RefuseBasket, ShowNothing, ReadSettings
<1>4. next \notin {"bundles", "rules"}
  BY <1>3
<1>5. PICK reason : bill' = [bill EXCEPT ![c].rejected = reason]
  <2>1. bill' = bill \/ \E reason : bill' = [bill EXCEPT ![c].rejected = reason]
    BY Zenon DEF RefuseBasket, ShowNothing, ReadSettings
  <2> QED BY <2>1, SameBill
<1>6. \A d \in Calls \ {c} : sees'[d] = sees[d]
  <2>1. sees' = sees \/ \E p : sees' = [sees EXCEPT ![c].paused = p]
    BY Zenon DEF RefuseBasket, ShowNothing, ReadSettings
  <2>2. sees \in [Calls -> Sights]
    BY DEF Inv, TypeOK, Sights
  <2> QED BY <2>1, <2>2
<1> QED BY <1>1, <1>2, <1>3, <1>4, <1>5, <1>6, OnwardStep

\* The history of the customer is not on the bill.
LEMMA CustomerBills ==
  ASSUME Inv, Bills, NEW c \in Calls, ReadCustomer(c) PROVE Bills'
<1>1. /\ pc[c] = "customer" /\ shop' = shop /\ bill' = bill
      /\ pc' = [pc EXCEPT ![c] = "coupons"]
  BY DEF ReadCustomer, world
<1>2. bill' = [bill EXCEPT ![c].rejected = bill[c].rejected]
  BY <1>1, SameBill
<1>3. \A d \in Calls \ {c} : sees'[d] = sees[d]
  BY DEF ReadCustomer, Inv, TypeOK
<1>4. pc[c] \notin {"bundles", "rules"} /\ "coupons" \notin Early \cup {"bundles", "rules"}
  BY <1>1 DEF Early
<1> QED BY <1>1, <1>2, <1>3, <1>4, OnwardStep

\* Nor is a coupon that is rejected.
LEMMA RejectBills ==
  ASSUME Inv, Bills, NEW c \in Calls, RejectCoupon(c) PROVE Bills'
<1>1. pc[c] = "coupons" /\ shop' = shop /\ sees' = sees
  BY DEF RejectCoupon, world
<1>2. PICK reason : bill' = [bill EXCEPT ![c].rejected = reason]
  BY Zenon DEF RejectCoupon
<1>3. PICK next \in {"coupons", "done", "refused"} : pc' = [pc EXCEPT ![c] = next]
  <2>1. Advance(c) \/ pc' = [pc EXCEPT ![c] = "refused"]
    BY Zenon DEF RejectCoupon
  <2>2. Advance(c) => pc' = [pc EXCEPT ![c] = "coupons"] \/ pc' = [pc EXCEPT ![c] = "done"]
    BY <1>1 DEF Advance
  <2> QED BY <2>1, <2>2
<1>4. pc[c] \notin {"bundles", "rules"} /\ next \notin Early \cup {"bundles", "rules"}
  BY <1>1, <1>3 DEF Early
<1> QED BY <1>1, <1>2, <1>3, <1>4, OnwardStep

\* What follows the price leaves the bill alone.
LEMMA AnswerBills ==
  ASSUME Inv, Bills, NEW c \in Calls, Suggest(c) \/ AskMinimum(c) PROVE Bills'
<1>1. pc[c] = "done" /\ shop' = shop /\ sees' = sees
  BY DEF Suggest, AskMinimum, world
<1>2. PICK reason : bill' = [bill EXCEPT ![c].rejected = reason]
  <2>1. bill' = bill \/ \E reason : bill' = [bill EXCEPT ![c].rejected = reason]
    BY Zenon DEF Suggest, AskMinimum
  <2> QED BY <2>1, SameBill
<1>3. PICK next \in {"refused", "answered"} : pc' = [pc EXCEPT ![c] = next]
  BY DEF Suggest, AskMinimum
<1>4. pc[c] \notin {"bundles", "rules"} /\ next \notin Early \cup {"bundles", "rules"}
  BY <1>1, <1>3 DEF Early
<1> QED BY <1>1, <1>2, <1>3, <1>4, OnwardStep

\* A step of one call, from the bill it makes.
LEMMA BillStep ==
  ASSUME Inv, Bills, NEW c \in Calls, shop' = shop,
         NEW d, bill' = [bill EXCEPT ![c] = d],
         NEW next, pc' = [pc EXCEPT ![c] = next],
         \A e \in Calls \ {c} : sees'[e] = sees[e],
         Sound(Lines, WholeOffers, shop, d), Staged(shop, d, next, sees'[c].bundles)
  PROVE  Bills'
<1>1. bill = [e \in Calls |-> bill[e]] /\ pc \in [Calls -> Stages]
  BY DEF Inv, TypeOK
<1>2. bill'[c] = d /\ pc'[c] = next
  BY <1>1
<1>3. \A e \in Calls \ {c} : /\ bill'[e] = bill[e] /\ pc'[e] = pc[e]
                             /\ sees'[e].bundles = sees[e].bundles
  BY <1>1
<1> QED BY <1>2, <1>3, OneCall

\* What is known of the bill of a call.
LEMMA BillFacts ==
  ASSUME Inv, Bills, NEW c \in Calls
  PROVE  /\ shop \in Shops /\ BillOK(bill[c]) /\ Sound(Lines, WholeOffers, shop, bill[c])
         /\ Staged(shop, bill[c], pc[c], sees[c].bundles)
         /\ pc[c] \in Early => bill[c].coupon = 0 /\ bill[c].applied = <<>>
  BY DEF Inv, TypeOK, CallInv, Bills

\* Reading offers makes sound lines.
LEMMA OffersBills ==
  ASSUME Inv, Bills, NEW c \in Calls, ReadOffers(c) PROVE Bills'
<1> DEFINE reads == ~shop.couponsOnly /\ ~sees[c].paused
           made(sales, bundles) == LinesOf(Cart(c), RunningSales(reads /\ sales),
                                           RunningBundles(reads /\ bundles))
<1>1. PICK sales, bundles, lines :
        /\ sees' = [sees EXCEPT ![c].bundles = reads /\ bundles]
        /\ lines \in {made(sales, bundles)}
        /\ LET campaigns == UNION {lines[i].campaigns : i \in DOMAIN lines}
           IN bill' = [bill EXCEPT ![c] =
                [@ EXCEPT !.lines = lines,
                          !.onSale = campaigns # {},
                          !.campaigns = campaigns,
                          !.credit = SaleCredit(lines)]]
  BY ZenonT(30) DEF ReadOffers
<1> DEFINE on == reads /\ bundles
<1>2. bill' = [bill EXCEPT ![c] = [bill[c] EXCEPT !.lines = lines,
                                             !.onSale = SalesOf(lines) # {},
                                             !.campaigns = SalesOf(lines),
                                             !.credit = SaleCredit(lines)]]
  BY <1>1, Zenon DEF SalesOf
<1>3. pc[c] = "offers" /\ pc' = [pc EXCEPT ![c] = "bundles"] /\ shop' = shop
  BY DEF ReadOffers, world
<1>4. /\ shop \in Shops /\ BillOK(bill[c]) /\ Sound(Lines, WholeOffers, shop, bill[c])
      /\ Staged(shop, bill[c], "offers", sees[c].bundles)
      /\ bill[c].coupon = 0 /\ bill[c].applied = <<>>
  BY <1>3, BillFacts DEF Early
<1>5. /\ lines \in Seq(Lines) /\ \A i \in DOMAIN lines : lines[i].free = 0
      /\ ~reads => \A i \in DOMAIN lines : lines[i].campaigns = {}
  <2> DEFINE cart == Cart(c)
             o == RunningSales(reads /\ sales)
             r == RunningBundles(reads /\ bundles)
  <2>1. Items(cart)
    BY <1>4, CartIs
  <2>2. o \in {shop.overlays, <<>>} /\ r \in {shop.bundles, <<>>} /\ (~reads => o = <<>>)
    BY DEF RunningSales, RunningBundles
  <2>3. lines = LinesOf(cart, o, r)
    BY <1>1
  <2> HIDE DEF cart, o, r, reads
  <2>4. LET l == LinesOf(cart, o, r)
        IN /\ l \in Seq(Lines) /\ \A i \in DOMAIN l : l[i].free = 0
           /\ o = <<>> => \A i \in DOMAIN l : l[i].campaigns = {}
    BY <1>4, <2>1, <2>2, LinesOfIs
  <2> QED BY <2>2, <2>3, <2>4
<1>6. /\ (\A e \in Calls \ {c} : sees'[e] = sees[e]) /\ sees'[c].bundles = on
      /\ shop.couponsOnly => ~reads
      /\ on => reads
  <2>1. sees \in [Calls -> Sights] /\ sees' = [sees EXCEPT ![c].bundles = on]
    BY <1>1 DEF Inv, TypeOK, Sights
  <2>2. (on => reads) /\ (shop.couponsOnly => ~reads)
    OBVIOUS
  <2> HIDE DEF on, reads
  <2>3. sees'[c] = [sees[c] EXCEPT !.bundles = on] /\ \A e \in Calls \ {c} : sees'[e] = sees[e]
    BY <2>1
  <2>4. sees'[c].bundles = on
    BY <2>1, <2>3 DEF Sights
  <2> QED BY <2>2, <2>3, <2>4
<1> DEFINE b == bill[c]
           d == [b EXCEPT !.lines = lines, !.onSale = SalesOf(lines) # {},
                          !.campaigns = SalesOf(lines), !.credit = SaleCredit(lines)]
<1>7. bill' = [bill EXCEPT ![c] = d]
  BY <1>2, Zenon
<1>8. Sound(Lines, WholeOffers, shop, d) /\ Staged(shop, d, "bundles", on)
  <2>1. d = [b EXCEPT !.lines = lines, !.onSale = SalesOf(lines) # {},
                      !.campaigns = SalesOf(lines), !.credit = SaleCredit(lines)]
    OBVIOUS
  <2> HIDE DEF b, d, reads, on
  <2>2. /\ BillOK(b) /\ Sound(Lines, WholeOffers, shop, b) /\ b.coupon = 0 /\ b.applied = <<>>
        /\ Staged(shop, b, "offers", sees[c].bundles)
    BY <1>4 DEF b
  <2> QED BY <1>4, <1>5, <1>6, <2>1, <2>2, OffersSound
<1> HIDE DEF d
<1>9. Staged(shop, d, "bundles", sees'[c].bundles)
  <2> HIDE DEF on
  <2> QED BY <1>6, <1>8
<1> QED BY <1>3, <1>6, <1>7, <1>8, <1>9, BillStep

\* Giving bundles keeps the bill sound.
LEMMA BundlesBills ==
  ASSUME Inv, Bills, NEW c \in Calls, GiveBundles(c) PROVE Bills'
<1> DEFINE b == bill[c]
           x == sees[c].bundles
           g == EvaluateBundles(b.lines, RunningBundles(x), shop.combine)
           d == WithGifts(b, g)
<1>1. bill' = [bill EXCEPT ![c] = d]
  BY DEF GiveBundles
<1>2. /\ pc[c] = "bundles" /\ pc' = [pc EXCEPT ![c] = "rules"]
      /\ shop' = shop /\ sees' = sees
  BY DEF GiveBundles, world
<1>3. /\ shop \in Shops /\ BillOK(b) /\ Sound(Lines, WholeOffers, shop, b)
      /\ Staged(shop, b, "bundles", x) /\ b.coupon = 0 /\ b.applied = <<>>
  BY <1>2, BillFacts DEF Early
<1>4. Sound(Lines, WholeOffers, shop, d) /\ Staged(shop, d, "rules", x)
  <2>1. /\ g = EvaluateBundles(b.lines, RunningBundles(x), shop.combine)
        /\ d = [b EXCEPT !.lines = g.lines, !.bundle = g.discount,
                         !.campaigns = b.campaigns \cup {k \in Campaigns : g.credit[k] > 0},
                         !.credit = Plus(b.credit, g.credit)]
    BY Zenon DEF WithGifts
  <2> HIDE DEF b, x, g, d
  <2> QED BY <1>3, <2>1, BundlesSound
<1> HIDE DEF d
<1>5. Staged(shop, d, "rules", sees'[c].bundles) /\ \A e \in Calls \ {c} : sees'[e] = sees[e]
  BY <1>2, <1>4
<1> QED BY <1>1, <1>2, <1>4, <1>5, BillStep

\* So does taking off automatic offers.
LEMMA RulesBills ==
  ASSUME Inv, Bills, NEW c \in Calls, ReadRules(c) PROVE Bills'
<1> DEFINE b == bill[c]
           usableOf(fromRedis) ==
             LET on == IF fromRedis THEN redis.running ELSE running
                 rules == IF sees[c].paused \/ ~on THEN <<>> ELSE shop.autos
             IN IF b.onSale THEN Those(rules, {i \in DOMAIN rules : Stacks(rules[i])})
                ELSE rules
           winnersOf(fromRedis) ==
             Winners(usableOf(fromRedis), Amounts(b.lines), shop.combine, fromRedis)
<1>1. PICK fromRedis \in BOOLEAN :
        bill' = [bill EXCEPT ![c] =
                   WithOffers(bill[c], usableOf(fromRedis), winnersOf(fromRedis))]
  BY Zenon DEF ReadRules
<1> DEFINE rules == IF sees[c].paused \/ ~(IF fromRedis THEN redis.running ELSE running)
                    THEN <<>> ELSE shop.autos
           usable == usableOf(fromRedis)
           w == winnersOf(fromRedis)
           d == WithOffers(b, usable, w)
<1>2. bill' = [bill EXCEPT ![c] = d]
  BY <1>1
<1>3. pc[c] = "rules" /\ shop' = shop /\ sees' = sees
  BY DEF ReadRules, world
<1>4. /\ shop \in Shops /\ BillOK(b) /\ Sound(Lines, WholeOffers, shop, b)
      /\ Staged(shop, b, "rules", sees[c].bundles) /\ b.coupon = 0 /\ b.applied = <<>>
  BY <1>3, BillFacts DEF Early
<1>5. /\ rules \in {shop.autos, <<>>}
      /\ usable = IF b.onSale THEN Those(rules, {i \in DOMAIN rules : Stacks(rules[i])})
                  ELSE rules
      /\ w = Winners(usable, Amounts(b.lines), shop.combine, fromRedis)
  OBVIOUS
<1>6. PICK next \in {"customer", "coupons", "done", "refused"} : pc' = [pc EXCEPT ![c] = next]
  <2> DEFINE n == CASE CodesToTry = <<>> -> "done"
         [] CodesToTry # <<>> /\ Bxgy(bill[c]) -> IF c \in Previews THEN "done" ELSE "refused"
         [] CodesToTry # <<>> /\ ~Bxgy(bill[c]) /\ sees[c].paused -> "done"
         [] OTHER -> IF c \in guests THEN "coupons" ELSE "customer"
  <2>1. pc' = [pc EXCEPT ![c] = n]
    BY DEF ReadRules
  <2>2. n \in {"customer", "coupons", "done", "refused"}
    OBVIOUS
  <2> HIDE DEF n
  <2> QED BY <2>1, <2>2
<1>7. d = WithOffers(b, usable, w)
  OBVIOUS
<1> HIDE DEF b, rules, usable, w, d
<1>8. usable \in Seq(ToSet(shop.autos)) /\ \A r \in ToSet(shop.autos) : CartRule(r)
  <2> DEFINE onSale == b.onSale
  <2>1. usable = IF onSale THEN Those(rules, {i \in DOMAIN rules : Stacks(rules[i])})
                 ELSE rules
    BY <1>5
  <2> HIDE DEF onSale
  <2> QED BY <1>4, <1>5, <2>1, UsableIs
<1>9. Entries(Amounts(b.lines)) /\ CartTotal(Amounts(b.lines)) = Due(b.lines)
  <2> DEFINE lines == b.lines
  <2>1. lines \in Seq(Lines)
    BY <1>4 DEF Sound
  <2> HIDE DEF lines
  <2>2. Entries(Amounts(lines)) /\ CartTotal(Amounts(lines)) = Due(lines)
    BY <2>1, AmountsIs
  <2> QED BY <2>2 DEF lines
<1>10. AllWin(w, usable, Due(b.lines), Amounts(b.lines))
  <2> DEFINE lines == Amounts(b.lines)
             combine == shop.combine
             R == ToSet(shop.autos)
  <2>1. w = Winners(usable, lines, combine, fromRedis) /\ Entries(lines)
    BY <1>5, <1>9
  <2>2. usable \in Seq(R) /\ \A r \in R : CartRule(r)
    BY <1>8
  <2> HIDE DEF lines, combine, R
  <2>3. AllWin(Winners(usable, lines, combine, fromRedis), usable, CartTotal(lines), lines)
    BY <2>1, <2>2, WinnersWin
  <2>4. AllWin(w, usable, CartTotal(lines), lines)
    BY <2>1, <2>3
  <2> QED BY <1>9, <2>4 DEF lines
<1>11. next \notin Early
  BY <1>6 DEF Early
<1>12. Sound(Lines, WholeOffers, shop, d) /\ Staged(shop, d, next, sees[c].bundles)
  BY <1>4, <1>7, <1>8, <1>10, <1>11, RulesSound
<1>13. Staged(shop, d, next, sees'[c].bundles) /\ \A e \in Calls \ {c} : sees'[e] = sees[e]
  BY <1>3, <1>12
<1> QED BY <1>2, <1>3, <1>6, <1>12, <1>13, BillStep

\* So does redeeming a coupon.
LEMMA CouponBills ==
  ASSUME Inv, Bills, NEW c \in Calls, ApplyCoupon(c) PROVE Bills'
<1> DEFINE b == bill[c]
           k == Code(c)
           d == Redeemed(b, k)
<1>1. /\ pc[c] = "coupons" /\ Refusal(c, k) = "none" /\ Advance(c)
      /\ shop' = shop /\ sees' = sees /\ bill' = [bill EXCEPT ![c] = d]
  BY DEF ApplyCoupon, world
<1>2. /\ shop \in Shops /\ BillOK(b) /\ Sound(Lines, WholeOffers, shop, b)
      /\ Staged(shop, b, "coupons", sees[c].bundles)
  BY <1>1, BillFacts
<1>3. ~Bxgy(b) /\ RefusalOn(c, b, k) = "none"
  BY <1>1 DEF Inv, CallInv, Refusal
<1>4. k \in Codes
  <2>1. CodesToTry \in Seq(Codes)
    BY <1>2, CodesFacts
  <2>2. at[c] \in 1 .. Len(CodesToTry)
    BY <1>1, AdvanceIs
  <2> QED BY <2>1, <2>2 DEF Code
<1>5. PICK next \in {"coupons", "done"} : pc' = [pc EXCEPT ![c] = next]
  BY <1>1 DEF Advance
<1>6. next \notin Early /\ "coupons" \notin Early
  BY <1>5 DEF Early
<1>7. d = Redeemed(b, k)
  OBVIOUS
<1> HIDE DEF b, k, d
<1>8. Sound(Lines, WholeOffers, shop, d) /\ Staged(shop, d, next, sees[c].bundles)
  BY <1>2, <1>3, <1>4, <1>6, <1>7, CouponSound
<1>9. Staged(shop, d, next, sees'[c].bundles) /\ \A e \in Calls \ {c} : sees'[e] = sees[e]
  BY <1>1, <1>8
<1> QED BY <1>1, <1>5, <1>8, <1>9, BillStep

\* Every step keeps the bills sound.
THEOREM NextBills == Inv /\ Bills /\ [Next]_vars => Bills'
<1> SUFFICES ASSUME Inv, Bills, [Next]_vars PROVE Bills'
  OBVIOUS
<1>1. ASSUME NEW c \in Calls, RefuseBasket(c) \/ ShowNothing(c) \/ ReadSettings(c)
      PROVE  Bills'
  BY <1>1, StartBills
<1>2. ASSUME NEW c \in Calls, ReadOffers(c) PROVE Bills'
  BY <1>2, OffersBills
<1>3. ASSUME NEW c \in Calls, GiveBundles(c) PROVE Bills'
  BY <1>3, BundlesBills
<1>4. ASSUME NEW c \in Calls, ReadRules(c) PROVE Bills'
  BY <1>4, RulesBills
<1>5. ASSUME NEW c \in Calls, ReadCustomer(c) PROVE Bills'
  BY <1>5, CustomerBills
<1>6. ASSUME NEW c \in Calls, ApplyCoupon(c) PROVE Bills'
  BY <1>6, CouponBills
<1>7. ASSUME NEW c \in Calls, RejectCoupon(c) PROVE Bills'
  BY <1>7, RejectBills
<1>8. ASSUME NEW c \in Calls, Suggest(c) \/ AskMinimum(c) PROVE Bills'
  BY <1>8, AnswerBills
<1>9. ASSUME UNCHANGED <<shop, pc, sees, bill>> PROVE Bills'
  <2>1. Lines' = Lines /\ WholeOffers' = WholeOffers
    BY <1>9 DEF Lines, WholeOffers, WholeOffer
  <2> QED BY <1>9, <2>1 DEF Bills
<1>10. CASE \/ PausePromotions \/ EndCampaigns \/ CustomerAges \/ RefreshCache
            \/ \E k \in Codes : EndCoupon(k) \/ OtherRedeems(k) \/ CustomerOrders(k)
  <2>1. UNCHANGED <<shop, guests, calls>>
    BY <1>10 DEF PausePromotions, EndCampaigns, CustomerAges, RefreshCache, EndCoupon,
                 OtherRedeems, CustomerOrders, Change
  <2> QED BY <1>9, <2>1 DEF calls
<1>11. CASE UNCHANGED vars
  BY <1>9, <1>11 DEF vars, world, calls
<1> QED BY <1>1, <1>2, <1>3, <1>4, <1>5, <1>6, <1>7, <1>8, <1>10, <1>11 DEF Next

-----------------------------------------------------------------------------
(* Results.                                                                 *)

\* Every call keeps its codes and bill in order.
THEOREM Invariance == Spec => []Inv
  BY InitInv, NextInv, PTL DEF Spec

\* Every bill is sound, at every stage, whatever goes on in between.
THEOREM BillsAlways == Spec => []Bills
<1>1. Inv /\ Bills /\ [Next]_vars => Bills'
  BY NextBills
<1> QED BY <1>1, InitBills, Invariance, PTL DEF Spec

\* Amounts are natural numbers and a call never runs past its codes
\* (priceStorefrontLines), whatever the rules and whatever changes.
THEOREM TypeCorrect == Spec => []TypeOK
<1>1. Inv => TypeOK
  BY DEF Inv
<1> QED BY <1>1, Invariance, PTL

\* Every call keeps its coupons in order: the discounts are what was taken
\* off the cart, no code counts twice, none goes with a bundle, and a
\* checkout that goes through has used every code it was to try.
THEOREM CouponsAreHonoured == Spec => []CouponsHonoured
<1>1. ASSUME Inv PROVE CouponsHonoured
  <2> SUFFICES ASSUME NEW c \in Calls
               PROVE  /\ bill[c].coupon + bill[c].remaining = bill[c].afterAuto
                      /\ \A i, j \in DOMAIN bill[c].applied :
                           bill[c].applied[i] = bill[c].applied[j] => i = j
                      /\ bill[c].applied # <<>> => ~Bxgy(bill[c])
                      /\ pc[c] \in {"done", "answered"} /\ c \notin Previews
                         /\ ~sees[c].paused =>
                           bill[c].applied = CodesToTry
    BY DEF CouponsHonoured
  <2>1. CallInv(c) /\ CodesToTry \in Seq(Codes)
    BY <1>1, CodesFacts DEF Inv, TypeOK
  <2>2. bill[c].applied \in Seq(Codes)
    BY <2>1 DEF CallInv, BillOK
  <2>3. AllApplied(bill[c], Len(CodesToTry)) => bill[c].applied = CodesToTry
    BY <2>1, <2>2 DEF AllApplied
  <2>4. \A i, j \in DOMAIN bill[c].applied : bill[c].applied[i] = bill[c].applied[j] => i = j
    BY <2>1, Zenon DEF CallInv, AppliedOnce
  <2> QED BY <2>1, <2>3, <2>4 DEF CallInv
<1> QED BY <1>1, Invariance, PTL

\* An applied coupon stacks with the automatic offers and sales of the cart.
THEOREM StackingAlways == Spec => []StackingRespected
<1>1. ASSUME Bills PROVE StackingRespected
  <2> SUFFICES ASSUME NEW c \in Calls, NEW k \in ToSet(bill[c].applied)
               PROVE  LET b == bill[c]
                          sales == UNION {b.lines[i].campaigns : i \in DOMAIN b.lines}
                      IN /\ b.auto > 0 => /\ shop.couponAfterAuto
                                          /\ Coupon(k).afterAuto # "no"
                         /\ b.auto > 0 /\ (\E r \in ToSet(Coupon(k).rules) :
                                              r.kind = "category_percent_off") =>
                              Flag(Coupon(k).stackCategory, shop.stackCategory)
                         /\ sales # {} =>
                              \/ Flag(Coupon(k).stackSku, shop.stackSku)
                              \/ Coupon(k).campaign \in sales
    BY DEF StackingRespected
  <2>1. StacksIn(shop, bill[c].lines, bill[c].auto, k)
    BY <1>1 DEF Bills, Sound
  <2> QED BY <2>1, Zenon DEF StacksIn, SalesOf, Coupon
<1> QED BY <1>1, BillsAlways, PTL

\* What a customer is told of offers is true.
THEOREM ToldAlways == Spec => []OffersToldTruly
<1>1. ASSUME Bills PROVE OffersToldTruly
  <2>1. ASSUME NEW c \in Calls
        PROVE  ToldTruly(shop, bill[c].given, bill[c].told, bill[c].ahead)
    BY <1>1 DEF Bills, Sound
  <2>2. Priced \subseteq Calls
    BY DEF Priced
  <2> QED BY <2>1, <2>2, Zenon DEF OffersToldTruly, ToldTruly
<1> QED BY <1>1, BillsAlways, PTL

\* While only coupons are on, the ledger gets what offers and coupons took off.
LEMMA LedgerIs ==
  ASSUME NEW L, NEW whole, shop \in Shops, shop.couponsOnly, NEW b, BillOK(b),
         Sound(L, whole, shop, b)
  PROVE  LedgerTotal(b) = b.auto + b.coupon
<1> DEFINE coupons == CouponCampaigns(shop, b.applied)
           rest == Campaigns \ coupons
           credit == b.credit
           given == b.given
<1>1. /\ given \in [Campaigns -> Nat] /\ credit \in [Campaigns -> Nat]
      /\ SumFunction(given) = b.auto
      /\ \A k \in Campaigns : given[k] > 0 => k \in AutoCampaigns(shop)
      /\ \A k \in rest : credit[k] = given[k]
  BY DEF Sound
<1>2. \A l \in ToSet(b.applied) : l \in Codes
  BY DEF BillOK, ToSet
<1>3. ASSUME NEW k \in Campaigns \ rest PROVE given[k] = 0
  <2>1. PICK l \in ToSet(b.applied) : shop.coupon[l].campaign = k
    BY DEF CouponCampaigns
  <2>2. k \notin AutoCampaigns(shop)
    BY <1>2, <2>1, PricingAssumption DEF AutoCampaigns, ToSet
  <2>3. given[k] \in Nat /\ ~(given[k] > 0)
    BY <1>1, <2>2
  <2> QED BY <2>3
<1>4. LedgerTotal(b) = b.coupon + SumFunctionOnSet(credit, rest)
  BY DEF LedgerTotal, CouponCampaigns, Coupon
<1>5. rest \in SUBSET Campaigns /\ IsFiniteSet(Campaigns)
  BY PriceRulesAssumption
<1>6. SumFunction(given) = SumFunctionOnSet(given, Campaigns) /\ DOMAIN given = Campaigns
  BY <1>1 DEF SumFunction
<1> HIDE DEF coupons, rest, credit, given
<1>7. \A k \in Campaigns : given[k] \in Int
  BY <1>1
<1>8. SumFunctionOnSet(given, Campaigns) = SumFunctionOnSet(given, rest)
  BY <1>3, <1>5, <1>7, SumPart
<1>9. IsFiniteSet(rest)
  BY <1>5, FS_Subset
<1>10. \A k \in rest : given[k] \in Int /\ credit[k] = given[k]
  BY <1>1, <1>5, <1>7
<1>11. SumFunctionOnSet(credit, rest) = SumFunctionOnSet(given, rest)
  BY <1>9, <1>10, SumSame
<1>12. b.auto \in Nat /\ b.coupon \in Nat
  BY DEF Sound, BillOK
<1> QED BY <1>1, <1>4, <1>6, <1>8, <1>11, <1>12

\* All that is taken off a cart is credited, and what is charged is what is
\* left of it.
THEOREM AccountedAlways == Spec => []Accounted
<1>1. ASSUME Inv, Bills PROVE Accounted
  <2>1. ASSUME NEW c \in Priced
        PROVE  LET b == bill[c]
               IN /\ b.credit \in [Campaigns -> Nat]
                  /\ SumFunction(b.credit) = SalesOn(b.lines) + b.bundle + b.auto + b.coupon
                  /\ \A k \in Campaigns : b.credit[k] > 0 => k \in b.campaigns
                  /\ shop.couponsOnly => LedgerTotal(b) = b.auto + b.coupon
                  /\ WholeOffers =>
                       Subtotal(c) = Units(b.lines) - b.bundle - b.auto - b.coupon
    <3> DEFINE b == bill[c]
    <3>1. /\ c \in Calls /\ pc[c] \notin {"bundles", "rules"}
      BY DEF Priced
    <3>2. /\ shop \in Shops /\ BillOK(b) /\ Sound(Lines, WholeOffers, shop, b)
          /\ Staged(shop, b, pc[c], sees[c].bundles)
      BY <1>1, <3>1, BillFacts
    <3>3. b.coupon + b.remaining = b.afterAuto
      BY <1>1, <3>1 DEF Inv, CallInv
    <3>4. Subtotal(c) = NonNegative(b.afterAuto - b.coupon)
      BY DEF Subtotal
    <3> HIDE DEF b
    <3>5. shop.couponsOnly => LedgerTotal(b) = b.auto + b.coupon
      BY <3>2, LedgerIs
    <3>6. /\ b.remaining \in Nat /\ b.coupon \in Nat /\ b.afterAuto \in Nat
          /\ b.auto \in Nat /\ b.bundle \in Nat /\ b.lines \in Seq(Lines)
      BY <3>2 DEF BillOK, Sound
    <3>7. Subtotal(c) = b.remaining
      <4>1. b.afterAuto - b.coupon = b.remaining
        BY <3>3, <3>6
      <4> QED BY <3>4, <3>6, <4>1, NonNegativeIs
    <3>8. b.afterAuto = Due(b.lines) - b.auto
      BY <3>1, <3>2 DEF Staged
    <3>9. Units(b.lines) \in Nat /\ Due(b.lines) \in Nat
      BY <3>6, LinesTotal
    <3>10. ASSUME WholeOffers
           PROVE  Subtotal(c) = Units(b.lines) - b.bundle - b.auto - b.coupon
      <4>1. Units(b.lines) = Due(b.lines) + b.bundle
        BY <3>2, <3>10 DEF Sound
      <4> QED BY <3>3, <3>6, <3>7, <3>8, <3>9, <4>1
    <3>11. /\ b.credit \in [Campaigns -> Nat]
           /\ SumFunction(b.credit) = SalesOn(b.lines) + b.bundle + b.auto + b.coupon
           /\ \A k \in Campaigns : b.credit[k] > 0 => k \in b.campaigns
      BY <3>2 DEF Sound
    <3> QED BY <3>5, <3>10, <3>11 DEF b
  <2> QED BY <2>1, Zenon DEF Accounted, SalesOn, Units, AllUnits, WholeOffers, WholeOffer
<1> QED BY <1>1, Invariance, BillsAlways, PTL

-----------------------------------------------------------------------------
(* What is suggested.                                                       *)

\* What a coupon is taken to be worth is a natural number.
LEMMA EstimateType ==
  ASSUME NEW coupon, NEW subtotal \in Nat
  PROVE  Estimate(coupon, subtotal) \in Nat
<1> DEFINE d == RulesDiscount(PublicBenefits(coupon.rules), subtotal, <<>>)
<1>1. d \in Nat
  BY NonNegativeType DEF RulesDiscount
<1>2. Estimate(coupon, subtotal) = Least(subtotal, d)
  BY DEF Estimate
<1> HIDE DEF d
<1> QED BY <1>1, <1>2, LeastIs

\* The coupons that are suggested are some of those that apply, and none left
\* out is worth more.
LEMMA RankedIs ==
  ASSUME NEW codes \in SUBSET Codes, NEW coupon, NEW subtotal \in Nat
  PROVE  LET best == ToSet(Ranked(codes, coupon, subtotal))
         IN /\ best \subseteq codes
            /\ \A k \in best, l \in codes \ best :
                 Estimate(coupon[l], subtotal) <= Estimate(coupon[k], subtotal)
<1> DEFINE places == {i \in DOMAIN CodesByName : CodesByName[i] \in codes}
           s == Those(CodesByName, places)
           N == Len(s)
           E(i) == Estimate(coupon[s[i]], subtotal)
           w == [i \in 1 .. N |-> E(i)]
           place(n) == CHOOSE i \in DOMAIN s :
                         Cardinality({j \in DOMAIN s : E(j) > E(i) \/ (E(j) = E(i) /\ j < i)}) = n - 1
           top == Least(SuggestionCap, N)
           best == ToSet(Ranked(codes, coupon, subtotal))
<1>1. Ranked(codes, coupon, subtotal) = [n \in 1 .. top |-> s[place(n)]]
  BY DEF Ranked
<1>2. /\ s \in Seq(Codes) /\ N \in Nat /\ DOMAIN s = 1 .. N
      /\ \A m \in 1 .. N : s[m] \in codes
  <2>1. CodesByName \in Seq(Codes)
    BY PricingAssumption
  <2> HIDE DEF places
  <2>2. s \in Seq(Codes) /\ \A m \in DOMAIN s : \E i \in DOMAIN CodesByName :
                               i \in places /\ s[m] = CodesByName[i]
    BY <2>1, ThoseOf
  <2>3. \A m \in DOMAIN s : s[m] \in codes
    BY <2>2 DEF places
  <2> HIDE DEF s
  <2> QED BY <2>2, <2>3
<1>3. \A l \in codes : \E m \in 1 .. N : s[m] = l
  <2> TAKE l \in codes
  <2>1. PICK i \in DOMAIN CodesByName : CodesByName[i] = l
    BY PricingAssumption DEF ToSet
  <2>2. /\ Len(CodesByName) \in Nat /\ DOMAIN CodesByName = 1 .. Len(CodesByName)
    BY PricingAssumption
  <2>3. i \in places
    BY <2>1
  <2> HIDE DEF places
  <2>4. \E m \in DOMAIN s : s[m] = CodesByName[i]
    BY <2>2, <2>3, ThoseKeep
  <2> QED BY <1>2, <2>1, <2>4
<1>4. top \in 0 .. N /\ (top < N => top = SuggestionCap) /\ SuggestionCap \in Nat
  <2>1. SuggestionCap \in Nat
    BY BasketsAssumption
  <2> HIDE DEF s
  <2>2. N \in Nat
    BY <1>2
  <2> HIDE DEF N
  <2> QED BY <2>1, <2>2 DEF Least
<1> HIDE DEF s, top
<1>5. \A i \in 1 .. N : E(i) \in Nat /\ w[i] = E(i)
  BY EstimateType
<1>6. \A i \in 1 .. N : {j \in DOMAIN s : E(j) > E(i) \/ (E(j) = E(i) /\ j < i)} = Ahead(w, N, i)
  <2> TAKE i \in 1 .. N
  <2> HIDE DEF E, w
  <2> QED BY <1>2, <1>5 DEF Ahead
<1> HIDE DEF E, w
<1> DEFINE R(i) == Cardinality(Ahead(w, N, i))
<1>7. /\ \A i \in 1 .. N : R(i) \in 0 .. N - 1
      /\ \A m \in 0 .. N - 1 : \E i \in 1 .. N : R(i) = m
      /\ \A i, j \in 1 .. N :
           \/ i = j
           \/ R(i) < R(j) /\ w[j] <= w[i]
           \/ R(j) < R(i) /\ w[i] <= w[j]
  <2>1. \A i \in 1 .. N : w[i] \in Nat
    BY <1>5
  <2> QED BY <1>2, <2>1, Ranks
<1>8. \A n \in 1 .. top : place(n) \in 1 .. N /\ R(place(n)) = n - 1
  <2> TAKE n \in 1 .. top
  <2>1. \E i \in 1 .. N : R(i) = n - 1
    BY <1>2, <1>4, <1>7
  <2>2. \E i \in DOMAIN s :
          Cardinality({j \in DOMAIN s : E(j) > E(i) \/ (E(j) = E(i) /\ j < i)}) = n - 1
    BY <1>2, <1>6, <2>1
  <2>3. /\ place(n) \in DOMAIN s
        /\ Cardinality({j \in DOMAIN s : \/ E(j) > E(place(n))
                                         \/ (E(j) = E(place(n)) /\ j < place(n))}) = n - 1
    BY <2>2
  <2> HIDE DEF place
  <2> QED BY <1>2, <1>6, <2>3
<1> HIDE DEF place
<1>9. \A k : k \in best <=> \E n \in 1 .. top : k = s[place(n)]
  BY <1>1 DEF ToSet
<1> HIDE DEF best
<1>10. best \subseteq codes
  BY <1>2, <1>8, <1>9
<1>11. ASSUME NEW k \in best, NEW l \in codes \ best
       PROVE  Estimate(coupon[l], subtotal) <= Estimate(coupon[k], subtotal)
  <2>1. PICK n \in 1 .. top : k = s[place(n)]
    BY <1>9
  <2>2. PICK j \in 1 .. N : s[j] = l
    BY <1>3
  <2> DEFINE i == place(n)
             r == R(j)
  <2>3. i \in 1 .. N /\ R(i) = n - 1
    BY <1>8
  <2>4. r \in 0 .. N - 1
    BY <1>7
  <2>5. r + 1 > top
    <3> SUFFICES ASSUME r + 1 <= top PROVE FALSE
      BY <1>2, <1>4, <2>4
    <3>1. r + 1 \in 1 .. top /\ (r + 1) - 1 = r
      BY <2>4
    <3>2. place(r + 1) \in 1 .. N /\ R(place(r + 1)) = r
      BY <1>8, <3>1
    <3>3. place(r + 1) = j
      BY <1>7, <2>4, <3>2, SMTT(20)
    <3> QED BY <1>9, <2>2, <3>1, <3>3
  <2> HIDE DEF i, r
  <2>6. w[j] <= w[i]
    <3>1. R(i) < R(j)
      BY <1>2, <1>4, <2>3, <2>4, <2>5 DEF r
    <3>2. R(i) \in Int /\ R(j) \in Int
      BY <1>7, <2>3
    <3> QED BY <1>7, <2>3, <3>1, <3>2
  <2>7. w[j] = E(j) /\ w[i] = E(i)
    BY <1>5, <2>3
  <2> QED BY <2>1, <2>2, <2>6, <2>7 DEF E, i
<1> QED BY <1>10, <1>11 DEF best

\* What a rule takes off a subtotal that has neither a category nor a cap.
PlainDiscount(r, subtotal) ==
  LET reached == r.kind \in Conditional => subtotal >= r.threshold
  IN IF r.kind \in CartPercent /\ reached /\ r.bps \in 0 .. 10000
     THEN RoundDiv(subtotal * r.bps, 10000)
     ELSE IF r.kind \in CartFixed /\ reached /\ Given(r.amount)
     THEN Least(r.amount, subtotal)
     ELSE 0

\* Such a rule looks at the subtotal only.
LEMMA PlainRule ==
  ASSUME NEW r, r.kind # "category_percent_off", ~Given(r.cap), NEW subtotal, NEW lines
  PROVE  RuleDiscount(r, subtotal, lines) = PlainDiscount(r, subtotal)
<1> DEFINE capped(d) == IF Given(r.cap) THEN Least(d, r.cap) ELSE d
           percentOf(base) == capped(RoundDiv(base * r.bps, 10000))
           inCategory == SumFunction([i \in DOMAIN lines |->
                            IF MatchesCategory(lines[i].category, r.category)
                            THEN lines[i].amount ELSE 0])
           reached == r.kind \in Conditional => subtotal >= r.threshold
           p == r.kind \in CartPercent /\ reached /\ r.bps \in 0 .. 10000
           f == r.kind \in CartFixed /\ reached /\ Given(r.amount)
           c == r.kind = "category_percent_off" /\ r.bps \in 0 .. 10000
           d == RuleDiscount(r, subtotal, lines)
<1>1. d = CASE p -> percentOf(subtotal)
            [] f -> capped(Least(r.amount, subtotal))
            [] c -> percentOf(inCategory)
            [] OTHER -> 0
  BY DEF RuleDiscount
<1>2. /\ percentOf(subtotal) = RoundDiv(subtotal * r.bps, 10000)
      /\ capped(Least(r.amount, subtotal)) = Least(r.amount, subtotal)
  OBVIOUS
<1>3. ~c
  BY SMTT(20)
<1>4. ~(p /\ f)
  <2>1. ~(r.kind \in CartPercent /\ r.kind \in CartFixed)
    BY DEF CartPercent, CartFixed
  <2> QED BY <2>1, SMTT(20)
<1> SUFFICES d = IF p THEN RoundDiv(subtotal * r.bps, 10000)
                 ELSE IF f THEN Least(r.amount, subtotal) ELSE 0
  BY SMTT(20) DEF PlainDiscount
<1> HIDE DEF d, p, f, c, percentOf, capped
<1> QED BY <1>1, <1>2, <1>3, <1>4

\* The public benefit of such a rule takes as much off as the rule.
LEMMA BenefitIs ==
  ASSUME NEW r, r.kind # "category_percent_off", ~Given(r.cap), NEW subtotal, NEW lines
  PROVE  RuleDiscount(Benefit(r), subtotal, <<>>) = RuleDiscount(r, subtotal, lines)
<1> DEFINE b == Benefit(r)
<1>1. /\ b.kind = r.kind /\ b.threshold = r.threshold /\ b.bps = r.bps
      /\ b.amount = r.amount /\ ~Given(b.cap)
  BY DEF Benefit, Given
<1> HIDE DEF b
<1>2. b.kind # "category_percent_off"
  BY <1>1
<1>3. RuleDiscount(b, subtotal, <<>>) = PlainDiscount(b, subtotal)
  BY <1>1, <1>2, PlainRule
<1>4. RuleDiscount(r, subtotal, lines) = PlainDiscount(r, subtotal)
  BY PlainRule
<1>5. PlainDiscount(b, subtotal) = PlainDiscount(r, subtotal)
  BY <1>1 DEF PlainDiscount
<1> QED BY <1>3, <1>4, <1>5 DEF b

\* A coupon of such rules is worth what it takes off.
LEMMA EstimateIs ==
  ASSUME NEW coupon, coupon.rules \in Seq(ToSet(coupon.rules)),
         \A r \in ToSet(coupon.rules) : CartRule(r) /\ ~ForCategory(r) /\ ~Given(r.cap),
         NEW subtotal \in Nat, NEW lines
  PROVE  Estimate(coupon, subtotal) = Least(RulesDiscount(coupon.rules, subtotal, lines), subtotal)
<1> DEFINE rules == coupon.rules
           n == Len(rules)
           benefits == [i \in DOMAIN rules |-> Benefit(rules[i])]
           public == PublicBenefits(rules)
           f == [i \in DOMAIN public |-> RuleDiscount(public[i], subtotal, <<>>)]
           g == [i \in DOMAIN rules |-> RuleDiscount(rules[i], subtotal, lines)]
<1>1. /\ n \in Nat /\ DOMAIN rules = 1 .. n
      /\ \A i \in 1 .. n : rules[i] \in ToSet(rules)
  BY DEF ToSet
<1>2. \A i \in 1 .. n : rules[i].kind # "category_percent_off" /\ ~Given(rules[i].cap)
  BY <1>1 DEF ForCategory
<1>3. DOMAIN public = 1 .. n /\ \A i \in 1 .. n : public[i] = Benefit(rules[i])
  <2> DEFINE places == {i \in DOMAIN rules : rules[i].kind # "category_percent_off"}
  <2>1. public = Those(benefits, places)
    BY DEF PublicBenefits
  <2>2. 1 .. n \subseteq places
    BY <1>1, <1>2
  <2>3. DOMAIN benefits = 1 .. n /\ \A i \in 1 .. n : benefits[i] = Benefit(rules[i])
    BY <1>1
  <2> HIDE DEF public, benefits, places, n
  <2>4. /\ DOMAIN Those(benefits, places) = 1 .. n
        /\ \A i \in 1 .. n : Those(benefits, places)[i] = benefits[i]
    BY <1>1, <2>2, <2>3, ThoseAll
  <2> QED BY <2>1, <2>3, <2>4
<1> HIDE DEF public
<1>4. \A i \in 1 .. n : RuleDiscount(public[i], subtotal, <<>>) =
                          RuleDiscount(rules[i], subtotal, lines)
  BY <1>2, <1>3, BenefitIs
<1>5. f = g
  <2> HIDE DEF n, rules
  <2> QED BY <1>1, <1>3, <1>4
<1> DEFINE d == RulesDiscount(rules, subtotal, lines)
<1>6. RulesDiscount(public, subtotal, <<>>) = d
  BY <1>5 DEF RulesDiscount
<1>7. d \in Nat
  BY NonNegativeType DEF RulesDiscount
<1>8. Estimate(coupon, subtotal) = Least(subtotal, RulesDiscount(public, subtotal, <<>>))
  BY DEF Estimate, public
<1> HIDE DEF d
<1>9. Least(subtotal, d) = Least(d, subtotal)
  BY <1>7 DEF Least
<1> QED BY <1>6, <1>8, <1>9 DEF d

\* A reason that is given is that of a pair that applies.
LEMMA ReasonOf ==
  ASSUME NEW n \in Nat, NEW pairs, Len(pairs) = n
  PROVE  \/ FirstReason(pairs) = "none"
         \/ \E i \in 1 .. n : pairs[i][2] /\ FirstReason(pairs) = pairs[i][1]
<1> DEFINE I == {i \in 1 .. Len(pairs) : pairs[i][2]}
<1>1. FirstReason(pairs) = IF (IF I # {} THEN Min(I) ELSE 0) = 0 THEN "none"
                           ELSE pairs[IF I # {} THEN Min(I) ELSE 0][1]
  BY DEF FirstReason, SelectInSeq
<1>2. CASE I = {}
  BY <1>1, <1>2
<1>3. CASE I # {}
  <2>1. I \subseteq 1 .. n /\ IsFiniteSet(1 .. n)
    BY FS_Interval
  <2>2. IsFiniteSet(I) /\ I \subseteq Int
    BY <2>1, FS_Subset
  <2> DEFINE m == Min(I)
  <2>3. m \in I
    <3> HIDE DEF I
    <3> QED BY <1>3, <2>2, MinIs
  <2> HIDE DEF m
  <2>4. m \in 1 .. n /\ m # 0 /\ pairs[m][2]
    BY <2>1, <2>3
  <2>5. FirstReason(pairs) = pairs[m][1]
    BY <1>1, <1>3, <2>4 DEF m
  <2> QED BY <2>4, <2>5
<1> QED BY <1>2, <1>3

\* What a customer, the limits and the amount of a cart say against a coupon.
Barred(c, b, k) ==
  LET coupon == shop.coupon[k]
      known == c \notin guests
  IN \/ k \notin live
     \/ known /\ coupon.firstOrderOnly /\ sees[c].ordered
     \/ known /\ coupon.newCustomerOnly /\ ~sees[c].newcomer
     \/ known /\ b.remaining < coupon.minSubtotal
     \/ Given(coupon.totalLimit) /\ usedByAll[k] >= coupon.totalLimit
     \/ known /\ Given(coupon.customerLimit) /\ usedByMe[k] >= coupon.customerLimit

Bars == {"COUPON_NOT_FOUND", "FIRST_ORDER_ONLY_NOT_MET", "NEW_CUSTOMER_ONLY_NOT_MET",
         "MIN_SUBTOTAL_NOT_MET", "COUPON_EXHAUSTED"}

\* A coupon that is accepted is not barred, and one that is not barred is not
\* refused as if it were.
LEMMA RefusalIs ==
  ASSUME NEW c, NEW b, NEW k
  PROVE  /\ RefusalOn(c, b, k) = "none" => ~Barred(c, b, k)
         /\ ~Barred(c, b, k) => RefusalOn(c, b, k) \notin Bars
<1> DEFINE row == CouponRow(k)
           coupon == row.coupon
           auto == b.auto > 0
           known == c \notin guests
           byCategory == \E i \in DOMAIN coupon.rules :
                           coupon.rules[i].kind = "category_percent_off"
           zero == ZeroDiscount(coupon.rules, b.remaining)
           p1 == auto /\ ~shop.couponAfterAuto
           p2 == ~row.found
           p3 == coupon.hasProducts /\ coupon.rules = <<>>
           p4 == coupon.rules = <<>>
           p5 == auto /\ ~Flag(coupon.afterAuto, shop.couponAfterAuto)
           p6 == BesideOtherSale(b, coupon)
           p7 == known /\ coupon.firstOrderOnly /\ sees[c].ordered
           p8 == known /\ coupon.newCustomerOnly /\ ~sees[c].newcomer
           p9 == known /\ b.remaining < coupon.minSubtotal
           p10 == Given(coupon.totalLimit) /\ row.total >= coupon.totalLimit
           p11 == /\ known
                  /\ Given(coupon.customerLimit)
                  /\ row.mine >= coupon.customerLimit
           p12 == auto /\ byCategory /\ ~Flag(coupon.stackCategory, shop.stackCategory)
           p13 == CouponDiscount(b, k) <= 0
           pairs == <<
             <<"COUPON_NOT_AFTER_AUTO", p1>>,
             <<"COUPON_NOT_FOUND", p2>>,
             <<"COUPON_NOT_APPLICABLE", p3>>,
             <<"COUPON_NO_CART_BENEFIT", p4>>,
             <<"COUPON_NOT_AFTER_AUTO", p5>>,
             <<"COUPON_NOT_WITH_SKU", p6>>,
             <<"FIRST_ORDER_ONLY_NOT_MET", p7>>,
             <<"NEW_CUSTOMER_ONLY_NOT_MET", p8>>,
             <<"MIN_SUBTOTAL_NOT_MET", p9>>,
             <<"COUPON_EXHAUSTED", p10>>,
             <<"COUPON_EXHAUSTED", p11>>,
             <<"COUPON_NOT_WITH_AUTO_CART", p12>>,
             <<zero, p13>> >>
<1>1. RefusalOn(c, b, k) = FirstReason(pairs)
  BY Zenon DEF RefusalOn
<1>2. zero # "none" /\ zero \notin Bars
  BY DEF ZeroDiscount, Bars
<1>3. coupon = shop.coupon[k] /\ row.found = (k \in live) /\ row.total = usedByAll[k]
      /\ row.mine = usedByMe[k]
  BY DEF CouponRow
<1>4. Barred(c, b, k) <=> p2 \/ p7 \/ p8 \/ p9 \/ p10 \/ p11
  BY <1>3, Zenon DEF Barred
<1> HIDE DEF row, zero, p1, p2, p3, p4, p5, p6, p7, p8, p9, p10, p11, p12, p13
<1>5. Len(pairs) = 13 /\ \A i \in 1 .. 13 :
        /\ pairs[i][1] # "none"
        /\ pairs[i][1] \in Bars => i \in {2, 7, 8, 9, 10, 11}
  <2>1. pairs[13][1] = zero
    OBVIOUS
  <2>2. \A i \in 1 .. 13 :
          i \in {1, 2, 3, 4, 5, 6, 7, 8, 9, 10, 11, 12, 13}
    OBVIOUS
  <2> QED BY <1>2, <2>1, <2>2 DEF Bars
<1>6. /\ pairs[2][2] = p2 /\ pairs[7][2] = p7 /\ pairs[8][2] = p8
      /\ pairs[9][2] = p9 /\ pairs[10][2] = p10 /\ pairs[11][2] = p11
      /\ \A i \in {2, 7, 8, 9, 10, 11} : i \in 1 .. 13
      /\ 13 \in Nat
  OBVIOUS
<1> HIDE DEF pairs
<1>7. ASSUME RefusalOn(c, b, k) = "none" PROVE ~Barred(c, b, k)
  <2>1. \A i \in 1 .. 13 : ~pairs[i][2]
    BY <1>1, <1>5, <1>6, <1>7, NoReason
  <2>2. \A i \in {2, 7, 8, 9, 10, 11} : ~pairs[i][2]
    BY <1>6, <2>1
  <2>3. ~p2 /\ ~p7 /\ ~p8 /\ ~p9 /\ ~p10 /\ ~p11
    BY <1>6, <2>2, Zenon
  <2> QED BY <1>4, <2>3, Zenon
<1>8. ASSUME ~Barred(c, b, k), RefusalOn(c, b, k) \in Bars PROVE FALSE
  <2>1. ~p2 /\ ~p7 /\ ~p8 /\ ~p9 /\ ~p10 /\ ~p11
    BY <1>4, <1>8, Zenon
  <2>2. "none" \notin Bars
    BY DEF Bars
  <2>3. PICK i \in 1 .. 13 : pairs[i][2] /\ RefusalOn(c, b, k) = pairs[i][1]
    <3>1. \/ FirstReason(pairs) = "none"
          \/ \E i \in 1 .. 13 : pairs[i][2] /\ FirstReason(pairs) = pairs[i][1]
      BY <1>5, <1>6, ReasonOf, ZenonT(40)
    <3>2. FirstReason(pairs) # "none"
      BY <1>1, <1>8, <2>2
    <3> QED BY <1>1, <3>1, <3>2, Zenon
  <2>4. i \in {2, 7, 8, 9, 10, 11}
    BY <1>5, <1>8, <2>3
  <2>5. i = 2 \/ i = 7 \/ i = 8 \/ i = 9 \/ i = 10 \/ i = 11
    BY <2>4
  <2> QED BY <1>6, <2>1, <2>3, <2>5, Zenon
<1> QED BY <1>7, <1>8

\* Suggestions are made by Suggest alone.
SuggestionsListed == suggested = [c \in Calls |-> suggested[c]]

\* Only Suggest changes what is suggested.
LEMMA OnlySuggest ==
  ASSUME [Next]_vars
  PROVE  UNCHANGED suggested \/ \E c \in Calls : Suggest(c)
<1>1. CASE UNCHANGED vars
  BY <1>1 DEF vars, calls
<1>2. ASSUME NEW c \in Calls,
             \/ RefuseBasket(c) \/ ShowNothing(c) \/ ReadSettings(c) \/ ReadOffers(c)
             \/ GiveBundles(c) \/ ReadRules(c) \/ ReadCustomer(c)
             \/ ApplyCoupon(c) \/ RejectCoupon(c) \/ AskMinimum(c)
      PROVE  UNCHANGED suggested
  BY <1>2
  DEF RefuseBasket, ShowNothing, ReadSettings, ReadOffers, GiveBundles, ReadRules,
      ReadCustomer, ApplyCoupon, RejectCoupon, AskMinimum
<1>3. ASSUME NEW k \in Codes, EndCoupon(k) \/ OtherRedeems(k) \/ CustomerOrders(k)
      PROVE  UNCHANGED suggested
  BY <1>3 DEF EndCoupon, OtherRedeems, CustomerOrders, Change, calls
<1>4. CASE PausePromotions \/ EndCampaigns \/ CustomerAges \/ RefreshCache
  BY <1>4 DEF PausePromotions, EndCampaigns, CustomerAges, RefreshCache, Change, calls
<1> QED BY <1>1, <1>2, <1>3, <1>4 DEF Next

\* What is suggested is kept for each call.
LEMMA ListedAlways == Spec => []SuggestionsListed
<1>1. Init => SuggestionsListed
  BY DEF Init, SuggestionsListed
<1>2. ASSUME SuggestionsListed, [Next]_vars PROVE SuggestionsListed'
  <2>1. CASE UNCHANGED suggested
    BY <1>2, <2>1 DEF SuggestionsListed
  <2>2. ASSUME NEW c \in Calls, Suggest(c) PROVE SuggestionsListed'
    <3>1. PICK best : suggested' = [suggested EXCEPT ![c] = best]
      BY <2>2 DEF Suggest
    <3> QED BY <1>2, <3>1 DEF SuggestionsListed
  <2> QED BY <1>2, <2>1, <2>2, OnlySuggest
<1> QED BY <1>1, <1>2, PTL DEF Spec

\* What the list asks of a coupon and what the price asks of it agree, for a
\* customer, on what both read of coupons, limits, history and amount.
LEMMA ApplicableIs ==
  ASSUME Inv, NEW p \in Calls, p \notin guests, NEW k \in Codes,
         sees[p].ordered = ordered, sees[p].newcomer = newcomer,
         NEW b, b.remaining = bill[p].afterAuto
  PROVE  ~Barred(p, b, k) <=> k \in live /\ Applicable(p, k)
<1>1. /\ bill[p].afterAuto \in Int /\ usedByAll[k] \in Int /\ usedByMe[k] \in Int
      /\ {shop.coupon[k].minSubtotal, shop.coupon[k].totalLimit,
          shop.coupon[k].customerLimit} \subseteq Int
  BY ShopsAssumption DEF Inv, TypeOK
<1> DEFINE row == shop.coupon[k]
           s == bill[p].afterAuto
           all == usedByAll[k]
           mine == usedByMe[k]
<1>2. Barred(p, b, k) <=>
        \/ k \notin live
        \/ row.firstOrderOnly /\ ordered
        \/ row.newCustomerOnly /\ ~newcomer
        \/ s < row.minSubtotal
        \/ Given(row.totalLimit) /\ all >= row.totalLimit
        \/ Given(row.customerLimit) /\ mine >= row.customerLimit
  BY Zenon DEF Barred
<1>3. Applicable(p, k) <=>
        /\ Given(row.totalLimit) => all < row.totalLimit
        /\ Given(row.customerLimit) => mine < row.customerLimit
        /\ row.firstOrderOnly => ~ordered
        /\ row.newCustomerOnly => newcomer
        /\ s >= row.minSubtotal
  BY Zenon DEF Applicable
<1>4. /\ s < row.minSubtotal <=> ~(s >= row.minSubtotal)
      /\ all < row.totalLimit <=> ~(all >= row.totalLimit)
      /\ mine < row.customerLimit <=> ~(mine >= row.customerLimit)
  BY <1>1
<1> QED BY <1>2, <1>3, <1>4, Zenon

\* What a coupon without categories and caps takes off is what it was ranked by.
LEMMA WorthIs ==
  ASSUME Inv, NEW k \in Codes,
         \A r \in ToSet(shop.coupon[k].rules) : ~ForCategory(r) /\ ~Given(r.cap),
         NEW b, b.remaining \in Nat
  PROVE  CouponDiscount(b, k) = Estimate(shop.coupon[k], b.remaining)
<1> DEFINE coupon == shop.coupon[k]
           lines == ScaleLinesToPayable(Amounts(b.lines), b.remaining)
<1>1. /\ coupon.rules \in Seq(ToSet(coupon.rules))
      /\ \A r \in ToSet(coupon.rules) : CartRule(r)
  BY ShopsAssumption DEF Inv, TypeOK
<1>2. \A r \in ToSet(coupon.rules) : CartRule(r) /\ ~ForCategory(r) /\ ~Given(r.cap)
  BY <1>1
<1>3. CouponDiscount(b, k) = Least(RulesDiscount(coupon.rules, b.remaining, lines), b.remaining)
  BY DEF CouponDiscount
<1> HIDE DEF coupon, lines
<1>4. Estimate(coupon, b.remaining) =
        Least(RulesDiscount(coupon.rules, b.remaining, lines), b.remaining)
  BY <1>1, <1>2, EstimateIs
<1> QED BY <1>3, <1>4 DEF coupon

\* A usable coupon the listing does not give has as many before it as the
\* listing reads, or as many that apply as it keeps.
LEMMA ListedIs ==
  ASSUME NEW c \in Calls, NEW valid \in SUBSET Codes
  PROVE  /\ Listed(c, valid) \subseteq {k \in valid : Applicable(c, k)}
         /\ \A l \in valid : Applicable(c, l) =>
              \/ l \in Listed(c, valid)
              \/ Cardinality(AheadOf(valid, shop.coupon, l)) >= RowCap
              \/ Cardinality({k \in AheadOf(valid, shop.coupon, l) : Applicable(c, k)}) >= ListCap
<1> DEFINE rows == FirstListed(valid, shop.coupon, RowCap)
           usable == {k \in rows : Applicable(c, k)}
           ahead(l) == AheadOf(valid, shop.coupon, l)
           before(l) == {k \in ahead(l) : Applicable(c, k)}
<1>1. Listed(c, valid) = FirstListed(usable, shop.coupon, ListCap)
  BY DEF Listed
<1>2. rows \subseteq valid
  BY DEF FirstListed
<1>3. Listed(c, valid) \subseteq usable
  BY <1>1 DEF FirstListed
<1>4. ASSUME NEW l \in valid, Applicable(c, l), l \notin Listed(c, valid),
             ~(Cardinality(ahead(l)) >= RowCap), ~(Cardinality(before(l)) >= ListCap)
      PROVE  FALSE
  <2>1. IsFiniteSet(ahead(l)) /\ IsFiniteSet(before(l))
    <3>1. IsFiniteSet(ToSet(CodesByName))
      <4> DEFINE D == 1 .. Len(CodesByName)
                 f == [i \in D |-> CodesByName[i]]
      <4>1. DOMAIN CodesByName = D /\ Len(CodesByName) \in Nat
        BY PricingAssumption
      <4>2. f \in [D -> ToSet(CodesByName)] /\ \A k \in ToSet(CodesByName) : \E i \in D : f[i] = k
        BY <4>1 DEF ToSet
      <4>3. f \in Surjection(D, ToSet(CodesByName))
        BY <4>2 DEF Surjection
      <4>4. IsFiniteSet(D)
        BY <4>1, FS_Interval
      <4> HIDE DEF D, f
      <4> QED BY <4>3, <4>4, FS_Surjection
    <3>2. ahead(l) \subseteq ToSet(CodesByName) /\ before(l) \subseteq ToSet(CodesByName)
      BY PricingAssumption DEF AheadOf
    <3> QED BY <3>1, <3>2, FS_Subset
  <2>2. {Cardinality(ahead(l)), Cardinality(before(l)), RowCap, ListCap} \subseteq Nat
    BY <2>1, FS_CardinalityType, BasketsAssumption
  <2>3. l \in usable
    <3>1. Cardinality(ahead(l)) < RowCap
      BY <1>4, <2>2
    <3> QED BY <1>4, <3>1 DEF FirstListed
  <2>4. AheadOf(usable, shop.coupon, l) \subseteq before(l)
    BY <1>2 DEF AheadOf
  <2>5. Cardinality(AheadOf(usable, shop.coupon, l)) <= Cardinality(before(l))
        /\ Cardinality(AheadOf(usable, shop.coupon, l)) \in Nat
    BY <2>1, <2>4, FS_Subset, FS_CardinalityType
  <2>6. Cardinality(AheadOf(usable, shop.coupon, l)) < ListCap
    BY <1>4, <2>2, <2>5
  <2> QED BY <1>1, <1>4, <2>3, <2>6 DEF FirstListed
<1> QED BY <1>2, <1>3, <1>4

\* A suggested coupon is not refused at that moment for the customer, its
\* limits or the amount of the cart, and no usable one left out takes more off
\* that the public benefits tell of, unless the listing ends before it
\* (listApplicableCoupons, applyOneCoupon, rankSuggestedCouponsByDiscount).
THEOREM SuggestionsAlways == Spec => SuggestionsHold
<1> DEFINE known(p) == /\ p \in Previews \ guests
                       /\ sees[p].ordered = ordered /\ sees[p].newcomer = newcomer
                       /\ redis.live = live
           alone(p) == [bill[p] EXCEPT !.remaining = bill[p].afterAuto]
           refusal(p, k) == RefusalOn(p, alone(p), k)
           told(k) == \A r \in ToSet(Coupon(k).rules) : ~ForCategory(r) /\ ~Given(r.cap)
           Step == \A p \in Previews : known(p) =>
             \A k \in ToSet(suggested'[p]) \ ToSet(suggested[p]) :
               /\ refusal(p, k) \notin {"COUPON_NOT_FOUND", "FIRST_ORDER_ONLY_NOT_MET",
                                        "NEW_CUSTOMER_ONLY_NOT_MET", "MIN_SUBTOTAL_NOT_MET",
                                        "COUPON_EXHAUSTED"}
               /\ \A l \in Codes \ ToSet(suggested'[p]) :
                    told(k) /\ told(l) /\ refusal(p, l) = "none" /\ ~CutOff(p, l) =>
                      CouponDiscount(alone(p), l) <= CouponDiscount(alone(p), k)
<1>1. ASSUME Inv, SuggestionsListed, [Next]_vars PROVE Step
  <2>1. CASE UNCHANGED suggested
    BY <2>1
  <2>2. ASSUME NEW c \in Calls, Suggest(c) PROVE Step
    <3> SUFFICES ASSUME NEW p \in Previews, known(p),
                        NEW k \in ToSet(suggested'[p]) \ ToSet(suggested[p])
                 PROVE  /\ refusal(p, k) \notin Bars
                        /\ \A l \in Codes \ ToSet(suggested'[p]) :
                             told(k) /\ told(l) /\ refusal(p, l) = "none" /\ ~CutOff(p, l) =>
                               CouponDiscount(alone(p), l) <= CouponDiscount(alone(p), k)
      BY DEF Bars
    <3> HIDE DEF refusal, told
    <3>1. PICK off \in {redis.paused, paused}, valid \in {redis.live, live} :
            suggested' = [suggested EXCEPT ![c] =
              Ranked(IF AsksForCoupons(c) /\ ~off THEN Listed(c, valid) ELSE {},
                     shop.coupon, bill[c].afterAuto)]
      BY <2>2 DEF Suggest
    <3> DEFINE codes == IF AsksForCoupons(c) /\ ~off THEN Listed(c, valid) ELSE {}
               s == bill[p].afterAuto
               best == ToSet(Ranked(codes, shop.coupon, s))
    <3>2. c = p /\ ToSet(suggested'[p]) = best
      <4>1. p \in Calls
        BY PricingAssumption
      <4> HIDE DEF codes
      <4>2. suggested' = [suggested EXCEPT ![c] = Ranked(codes, shop.coupon, bill[c].afterAuto)]
        BY <3>1 DEF codes
      <4>3. CASE c # p
        <5>1. suggested'[p] = suggested[p]
          BY <1>1, <4>1, <4>2, <4>3 DEF SuggestionsListed
        <5> QED BY <5>1
      <4>4. CASE c = p
        BY <1>1, <4>1, <4>2, <4>4 DEF SuggestionsListed
      <4> QED BY <4>3, <4>4
    <3>3. /\ p \in Calls /\ p \notin guests /\ sees[p].ordered = ordered
          /\ sees[p].newcomer = newcomer /\ valid = live
          /\ live \in SUBSET Codes /\ s \in Nat
      BY <1>1, <3>1, PricingAssumption DEF Inv, TypeOK
    <3>4. alone(p).remaining = s
      BY <1>1, <3>3 DEF Inv, CallInv, BillOK
    <3>6. \A j \in codes : j \in live /\ Applicable(p, j)
      BY <3>2, <3>3, ListedIs
    <3>5. codes \in SUBSET Codes
      BY <3>3, <3>6
    <3> HIDE DEF alone
    <3>7. \A j \in Codes : ~Barred(p, alone(p), j) <=> j \in live /\ Applicable(p, j)
      BY <1>1, <3>3, <3>4, ApplicableIs
    <3>8. codes # {} =>
            \A j \in Codes : j \in live /\ Applicable(p, j) => j \in codes \/ CutOff(p, j)
      BY <3>2, <3>3, ListedIs DEF CutOff
    <3> HIDE DEF codes, s, known
    <3>9. /\ best \subseteq codes
          /\ \A j \in best, l \in codes \ best :
               Estimate(shop.coupon[l], s) <= Estimate(shop.coupon[j], s)
      BY <3>3, <3>5, RankedIs
    <3> HIDE DEF best
    <3>10. k \in best /\ k \in codes /\ k \in Codes
      BY <3>2, <3>5, <3>9
    <3>11. refusal(p, k) \notin Bars
      <4>1. ~Barred(p, alone(p), k)
        BY <3>6, <3>7, <3>10
      <4> QED BY <4>1, RefusalIs DEF refusal
    <3>12. ASSUME NEW l \in Codes \ ToSet(suggested'[p]),
                  told(k), told(l), refusal(p, l) = "none", ~CutOff(p, l)
           PROVE  CouponDiscount(alone(p), l) <= CouponDiscount(alone(p), k)
      <4>1. ~Barred(p, alone(p), l)
        BY <3>12, RefusalIs DEF refusal
      <4>2. l \in codes \ best
        BY <3>2, <3>7, <3>8, <3>10, <3>12, <4>1
      <4>3. CouponDiscount(alone(p), k) = Estimate(shop.coupon[k], s)
        BY <1>1, <3>3, <3>4, <3>10, <3>12, WorthIs DEF told, Coupon
      <4>4. CouponDiscount(alone(p), l) = Estimate(shop.coupon[l], s)
        BY <1>1, <3>3, <3>4, <3>12, WorthIs DEF told, Coupon
      <4> QED BY <3>9, <3>10, <4>2, <4>3, <4>4
    <3> QED BY <3>11, <3>12
  <2> QED BY <1>1, <2>1, <2>2, OnlySuggest
<1>2. Inv /\ SuggestionsListed /\ [Next]_vars => [Step]_vars
  BY <1>1
<1> HIDE DEF Step
<1>3. Spec => [][Step]_vars
  BY <1>2, Invariance, ListedAlways, PTL DEF Spec
<1> QED BY <1>3 DEF SuggestionsHold, Step

=============================================================================
