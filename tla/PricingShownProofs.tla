------------------------- MODULE PricingShownProofs -------------------------
(***************************************************************************)
(* Proof of ChargedAsShown (Pricing), for every shop without ties, every   *)
(* basket that is taken and any number of calls: while nothing changes, a  *)
(* checkout charges what a preview showed, or is refused for the reason    *)
(* the preview gave.                                                       *)
(*                                                                         *)
(* No step of a preview and of a checkout is taken together, so the two    *)
(* are compared through what each is computed from.  The invariant Calm    *)
(* says of every call what that is: its lines are quoted from its cart,    *)
(* bundles gave what they give for these lines, and its bill is the last   *)
(* of a trace that begins when the rules were read and goes on code by     *)
(* code.  Two traces of the same basket are then matched, although the     *)
(* cart of a preview is in the order the client sends and that of a        *)
(* checkout in that of its ids: sums, winners and limits do not depend on  *)
(* the order of the lines, and what does (free units, and the rounding of  *)
(* a coupon's share) is what SameOrder keeps out.                          *)
(***************************************************************************)
EXTENDS PricingProofs

(* Two carts of the same products.                                          *)

\* f puts the members of s in the order of t.
Reorders(f, s, t) ==
  /\ f \in [DOMAIN s -> DOMAIN t]
  /\ \A i, j \in DOMAIN s : f[i] = f[j] => i = j
  /\ \A j \in DOMAIN t : \E i \in DOMAIN s : f[i] = j
  /\ \A i \in DOMAIN s : t[f[i]] = s[i]

\* The same terms in another order have the same sum.
LEMMA SumReordered ==
  ASSUME NEW S, IsFiniteSet(S), NEW T, NEW f \in [S -> T],
         \A x, y \in S : f[x] = f[y] => x = y,
         \A z \in T : \E x \in S : f[x] = z,
         NEW g, NEW h, \A x \in S : g[x] \in Int /\ h[f[x]] = g[x]
  PROVE  SumFunctionOnSet(h, T) = SumFunctionOnSet(g, S)
<1> DEFINE At(U) == {f[x] : x \in U}
           Good == {U \in SUBSET S : SumFunctionOnSet(h, At(U)) = SumFunctionOnSet(g, U)}
<1>1. T = At(S) /\ \A U \in SUBSET S : At(U) \subseteq T
  OBVIOUS
<1>2. IsFiniteSet(T)
  <2> HIDE DEF At
  <2>1. IsFiniteSet(At(S))
    BY ImageFinite DEF At
  <2> QED BY <1>1, <2>1
<1>3. \A z \in T : h[z] \in Int
  OBVIOUS
<1>4. Adds(g, S) /\ Adds(h, T)
  BY <1>2, <1>3, SumOn
<1>5. {} \in Good
  <2>1. At({}) = {}
    OBVIOUS
  <2> QED BY <1>4, <2>1 DEF Adds
<1>6. ASSUME NEW U \in SUBSET S, U # {}, \A x \in U : U \ {x} \in Good PROVE U \in Good
  <2>1. PICK x \in U : TRUE
    BY <1>6
  <2>2. At(U) \ {f[x]} = At(U \ {x}) /\ f[x] \in At(U)
    OBVIOUS
  <2>3. At(U) \in SUBSET T
    BY <1>1
  <2>4. SumFunctionOnSet(h, At(U \ {x})) = SumFunctionOnSet(g, U \ {x})
    BY <1>6
  <2> HIDE DEF At
  <2>5. SumFunctionOnSet(h, At(U)) = h[f[x]] + SumFunctionOnSet(h, At(U) \ {f[x]})
    BY <1>4, <2>2, <2>3, Zenon DEF Adds
  <2>6. SumFunctionOnSet(g, U) = g[x] + SumFunctionOnSet(g, U \ {x})
    BY <1>4 DEF Adds
  <2>7. h[f[x]] = g[x]
    OBVIOUS
  <2>8. SumFunctionOnSet(h, At(U)) = SumFunctionOnSet(g, U)
    BY <2>2, <2>4, <2>5, <2>6, <2>7
  <2> QED BY <2>8 DEF At
<1>7. \A U \in SUBSET S : U # {} /\ (\A x \in U : U \ {x} \in Good) => U \in Good
  BY <1>6
<1>8. S \in Good
  <2> HIDE DEF Good
  <2>1. \A U \in SUBSET S : U \in Good
    BY <1>5, <1>7, SubsetInduction
  <2> QED BY <2>1
<1> QED BY <1>1, <1>8

\* For functions of the members of two lists in different orders.
LEMMA SumsAgree ==
  ASSUME NEW s, NEW t, NEW f, Reorders(f, s, t), IsFiniteSet(DOMAIN s),
         NEW g, DOMAIN g = DOMAIN s, NEW h, DOMAIN h = DOMAIN t,
         \A i \in DOMAIN s : g[i] \in Int /\ h[f[i]] = g[i]
  PROVE  SumFunction(h) = SumFunction(g)
<1>1. /\ f \in [DOMAIN s -> DOMAIN t]
      /\ \A i, j \in DOMAIN s : f[i] = f[j] => i = j
      /\ \A j \in DOMAIN t : \E i \in DOMAIN s : f[i] = j
  BY DEF Reorders
<1>2. SumFunctionOnSet(h, DOMAIN t) = SumFunctionOnSet(g, DOMAIN s)
  BY <1>1, SumReordered
<1> QED BY <1>2 DEF SumFunction

\* kept has what s has at the places, the member at place e[a] as its a-th.
KeptFrom(kept, e, s, n, places) ==
  \E m \in Nat :
    /\ DOMAIN kept = 1 .. m /\ Len(kept) = m
    /\ \A a \in 1 .. m : e[a] \in 1 .. n /\ e[a] \in places /\ kept[a] = s[e[a]]
    /\ \A a, b \in 1 .. m : e[a] = e[b] => a = b
    /\ \A i \in 1 .. n : i \in places => \E a \in 1 .. m : e[a] = i

\* The members of a list with one more at its end.
LEMMA Appended ==
  ASSUME NEW X, NEW k \in Seq(X), NEW v \in X
  PROVE  LET t == Append(k, v)
         IN /\ t \in Seq(X) /\ Len(t) = Len(k) + 1
            /\ (\A a \in 1 .. Len(k) : t[a] = k[a]) /\ t[Len(k) + 1] = v
OBVIOUS

\* Those keeps the places asked for, each of them once.
LEMMA ThosePlaces ==
  ASSUME NEW s, NEW n \in Nat, DOMAIN s = 1 .. n, NEW places
  PROVE  \E e : KeptFrom(Those(s, places), e, s, n, places)
<1> DEFINE S == 1 .. n
           Kept(T) == {i \in T : i \in places}
           Placed(kept, T, m, e) ==
             /\ kept \in Seq({s[i] : i \in Kept(S)}) /\ Len(kept) = m
             /\ e \in [1 .. m -> Kept(T)]
             /\ \A a, b \in 1 .. m : e[a] = e[b] => a = b
             /\ \A i \in Kept(T) : \E a \in 1 .. m : e[a] = i
             /\ \A a \in 1 .. m : kept[a] = s[e[a]]
<1>1. PICK it : Those(s, places) = it[S] /\ Keeps(it, s, S, places)
  BY ThoseFold
<1> DEFINE Good == {T \in SUBSET S : \E m \in Nat : \E e : Placed(it[T], T, m, e)}
<1>2. {} \in Good
  <2>1. it[{}] = <<>>
    BY <1>1 DEF Keeps
  <2>2. Placed(it[{}], {}, 0, <<>>)
    BY <2>1
  <2> QED BY <2>2
<1>3. ASSUME NEW T \in SUBSET S, T # {}, \A x \in T : T \ {x} \in Good PROVE T \in Good
  <2> DEFINE x == Max(T)
  <2>1. x \in T /\ x \in S
    BY <1>3, LastPlace
  <2>2. it[T] = IF x \in places THEN Append(it[T \ {x}], s[x]) ELSE it[T \ {x}]
    BY <1>1, <1>3 DEF Keeps
  <2> HIDE DEF x
  <2>12. PICK m \in Nat : \E e : Placed(it[T \ {x}], T \ {x}, m, e)
    BY <1>3, <2>1
  <2>3. PICK e : Placed(it[T \ {x}], T \ {x}, m, e)
    BY <2>12
  <2>4. CASE x \notin places
    <3>1. Kept(T) = Kept(T \ {x})
      BY <2>4
    <3>2. it[T] = it[T \ {x}]
      BY <2>2, <2>4
    <3>3. Placed(it[T], T, m, e)
      <4> HIDE DEF Kept
      <4> QED BY <2>3, <3>1, <3>2
    <3> HIDE DEF Placed
    <3> QED BY <2>3, <3>3
  <2>5. CASE x \in places
    <3> DEFINE d == [a \in 1 .. m + 1 |-> IF a <= m THEN e[a] ELSE x]
               kept == it[T \ {x}]
    <3>1. it[T] = Append(kept, s[x]) /\ s[x] \in {s[i] : i \in Kept(S)}
      BY <2>1, <2>2, <2>5
    <3>2. it[T] \in Seq({s[i] : i \in Kept(S)}) /\ Len(it[T]) = m + 1
          /\ (\A a \in 1 .. m : it[T][a] = kept[a]) /\ it[T][m + 1] = s[x]
      <4> DEFINE X == {s[i] : i \in Kept(S)}
      <4>1. kept \in Seq(X) /\ Len(kept) = m /\ s[x] \in X
        BY <2>3, <3>1
      <4> HIDE DEF X, kept
      <4>2. /\ it[T] \in Seq(X) /\ Len(it[T]) = m + 1
            /\ (\A a \in 1 .. m : it[T][a] = kept[a]) /\ it[T][m + 1] = s[x]
        BY <3>1, <4>1, Appended
      <4> QED BY <4>2 DEF X
    <3>3. \A a \in 1 .. m : e[a] \in Kept(T \ {x}) /\ d[a] = e[a]
      BY <2>3
    <3>4. d[m + 1] = x /\ \A a \in 1 .. m + 1 : a \in 1 .. m \/ a = m + 1
      OBVIOUS
    <3>5. DOMAIN d = 1 .. m + 1 /\ Kept(T) = Kept(T \ {x}) \cup {x} /\ x \notin Kept(T \ {x})
      BY <2>1, <2>5
    <3> HIDE DEF d
    <3>6. d \in [1 .. m + 1 -> Kept(T)]
      <4>1. \A a \in 1 .. m + 1 : d[a] \in Kept(T)
        BY <3>3, <3>4, <3>5
      <4>2. d = [a \in 1 .. m + 1 |-> d[a]]
        BY DEF d
      <4> HIDE DEF Kept
      <4> QED BY <4>1, <4>2
    <3>7. \A a, b \in 1 .. m + 1 : d[a] = d[b] => a = b
      <4>1. \A a, b \in 1 .. m : e[a] = e[b] => a = b
        BY <2>3
      <4>2. \A a \in 1 .. m : d[a] # d[m + 1]
        BY <3>3, <3>4, <3>5
      <4> HIDE DEF Kept
      <4> QED BY <3>3, <3>4, <4>1, <4>2
    <3>8. \A i \in Kept(T) : \E a \in 1 .. m + 1 : d[a] = i
      <4> TAKE i \in Kept(T)
      <4>1. CASE i = x
        BY <3>4, <4>1
      <4>2. CASE i # x
        <5>1. i \in Kept(T \ {x})
          BY <3>5, <4>2
        <5>2. PICK a \in 1 .. m : e[a] = i
          BY <2>3, <5>1
        <5> QED BY <3>3, <5>2
      <4> QED BY <4>1, <4>2
    <3>9. \A a \in 1 .. m + 1 : it[T][a] = s[d[a]]
      BY <2>3, <3>2, <3>3, <3>4
    <3>10. Placed(it[T], T, m + 1, d)
      <4> HIDE DEF Kept
      <4> QED BY <3>2, <3>6, <3>7, <3>8, <3>9
    <3>11. m + 1 \in Nat
      BY <2>3
    <3> HIDE DEF Placed
    <3> QED BY <3>10, <3>11
  <2> QED BY <2>4, <2>5
<1>4. \A T \in SUBSET S : T # {} /\ (\A x \in T : T \ {x} \in Good) => T \in Good
  BY <1>3
<1>5. IsFiniteSet(S)
  BY FS_Interval
<1>6. S \in Good
  <2> HIDE DEF Good, S
  <2>1. \A T \in SUBSET S : T \in Good
    BY <1>2, <1>4, <1>5, SubsetInduction
  <2> QED BY <2>1
<1>12. PICK m \in Nat : \E e : Placed(it[S], S, m, e)
  BY <1>6
<1>7. PICK e : Placed(it[S], S, m, e)
  BY <1>12
<1> DEFINE kept == Those(s, places)
<1>8. Placed(kept, S, m, e)
  BY <1>1, <1>7
<1>9. DOMAIN kept = 1 .. m /\ Len(kept) = m
  <2> DEFINE X == {s[i] : i \in Kept(S)}
  <2>1. kept \in Seq(X) /\ Len(kept) = m
    BY <1>8
  <2> HIDE DEF X, kept
  <2> QED BY <2>1
<1> HIDE DEF kept
<1>10. /\ \A a \in 1 .. m : e[a] \in 1 .. n /\ e[a] \in places /\ kept[a] = s[e[a]]
       /\ \A a, b \in 1 .. m : e[a] = e[b] => a = b
       /\ \A i \in 1 .. n : i \in places => \E a \in 1 .. m : e[a] = i
  BY <1>8
<1>11. KeptFrom(kept, e, s, n, places)
  BY <1>9, <1>10 DEF KeptFrom
<1> QED BY <1>11 DEF kept

\* Two lists of the same members, each once, differ in their order alone.
LEMMA SameMembers ==
  ASSUME NEW n \in Nat, NEW s, DOMAIN s = 1 .. n, \A i, j \in 1 .. n : s[i] = s[j] => i = j,
         NEW m \in Nat, NEW t, DOMAIN t = 1 .. m, \A i, j \in 1 .. m : t[i] = t[j] => i = j,
         \A i \in 1 .. n : \E j \in 1 .. m : t[j] = s[i],
         \A j \in 1 .. m : \E i \in 1 .. n : t[j] = s[i]
  PROVE  n = m /\ \E f : Reorders(f, s, t)
<1> DEFINE S == 1 .. n
           T == 1 .. m
           f == [i \in S |-> CHOOSE j \in T : t[j] = s[i]]
<1>1. \A i \in S : f[i] \in T /\ t[f[i]] = s[i]
  <2>1. \A i \in S : f[i] = CHOOSE j \in T : t[j] = s[i]
    OBVIOUS
  <2> HIDE DEF f
  <2> QED BY <2>1
<1>a. DOMAIN f = S /\ f = [i \in S |-> f[i]]
  OBVIOUS
<1> HIDE DEF f
<1>2. \A i, j \in S : f[i] = f[j] => i = j
  BY <1>1
<1>3. \A j \in T : \E i \in S : f[i] = j
  <2> TAKE j \in T
  <2>1. PICK i \in S : t[j] = s[i]
    OBVIOUS
  <2>2. f[i] = j
    BY <1>1, <2>1
  <2> QED BY <2>2
<1>4. f \in [S -> T]
  BY <1>1, <1>a
<1>5. Reorders(f, s, t)
  BY <1>1, <1>2, <1>3, <1>4 DEF Reorders
<1>6. n = m
  <2>1. IsFiniteSet(S) /\ Cardinality(S) = n /\ Cardinality(T) = m
    BY FS_Interval
  <2> HIDE DEF S, T
  <2>2. f \in Bijection(S, T)
    BY <1>2, <1>3, <1>4 DEF Bijection, Injection, Surjection, IsInjective
  <2>3. Cardinality(T) = Cardinality(S)
    BY <2>1, <2>2, FS_Bijection DEF ExistsBijection
  <2> QED BY <2>1, <2>3
<1> QED BY <1>5, <1>6

\* The products of the basket, and what a cart holds of one.
Asked == ToSet(AskedFor(shop.basket))
ItemFor(product) ==
  [product |-> product, ticks |-> QuantityOf(shop.basket, product),
   weighed |-> shop.shelf[product].weighed]

\* A cart holds what the basket asks for, each product once.
Takes(cart, n) ==
  /\ DOMAIN cart = 1 .. n
  /\ \A i \in 1 .. n : cart[i].product \in Asked /\ cart[i] = ItemFor(cart[i].product)
  /\ \A i, j \in 1 .. n : cart[i].product = cart[j].product => i = j
  /\ \A product \in Asked : \E i \in 1 .. n : cart[i].product = product

\* It is an item of that product.
LEMMA ItemIs == \A product : ItemFor(product).product = product
  BY DEF ItemFor

\* Products named once each make such a cart.
LEMMA LinesForTake ==
  ASSUME NEW n, NEW products, DOMAIN products = 1 .. n,
         \A i, j \in 1 .. n : products[i] = products[j] => i = j,
         \A i \in 1 .. n : products[i] \in Asked,
         \A product \in Asked : \E i \in 1 .. n : products[i] = product
  PROVE  Takes(LinesFor(products, shop.basket, shop.shelf), n)
<1> DEFINE cart == LinesFor(products, shop.basket, shop.shelf)
<1>1. DOMAIN cart = 1 .. n /\ \A i \in 1 .. n : cart[i] = ItemFor(products[i])
  BY DEF LinesFor, ItemFor
<1> HIDE DEF cart
<1>2. \A i \in 1 .. n : cart[i].product = products[i]
  BY <1>1, ItemIs
<1>3. \A i \in 1 .. n : cart[i].product \in Asked /\ cart[i] = ItemFor(cart[i].product)
  BY <1>1, <1>2
<1>4. \A i, j \in 1 .. n : cart[i].product = cart[j].product => i = j
  BY <1>2
<1>5. \A product \in Asked : \E i \in 1 .. n : cart[i].product = product
  BY <1>2
<1>6. Takes(cart, n)
  BY <1>1, <1>3, <1>4, <1>5 DEF Takes
<1> QED BY <1>6 DEF cart

\* A basket asks for each of its products once, and for one at least.
LEMMA AskedOnce ==
  ASSUME shop \in Shops
  PROVE  LET asked == AskedFor(shop.basket)
         IN \E n \in Nat \ {0} :
              /\ DOMAIN asked = 1 .. n
              /\ \A i, j \in 1 .. n : asked[i] = asked[j] => i = j
<1> DEFINE products == [i \in DOMAIN shop.basket |-> shop.basket[i].product]
           places == {i \in DOMAIN shop.basket : \A j \in 1 .. i - 1 : products[j] # products[i]}
           asked == Those(products, places)
           n == Len(shop.basket)
<1>1. n \in Nat \ {0} /\ DOMAIN products = 1 .. n
  <2>1. shop.basket \in Seq(ToSet(shop.basket)) /\ shop.basket # <<>>
    BY ShopsAssumption, PricingAssumption
  <2> DEFINE X == ToSet(shop.basket)
  <2> HIDE DEF X
  <2>2. n \in Nat /\ DOMAIN shop.basket = 1 .. n /\ n # 0
    BY <2>1 DEF X
  <2> QED BY <2>2
<1>2. \A i \in 1 .. n : i \in places <=> \A j \in 1 .. i - 1 : products[j] # products[i]
  BY <1>1
<1>3. 1 \in places
  BY <1>1, <1>2
<1>9. places \subseteq 1 .. n
  BY <1>1
<1> HIDE DEF products, places, n
<1>4. \A i, j \in places : products[i] = products[j] => i = j
  <2> SUFFICES ASSUME NEW i \in places, NEW j \in places, products[i] = products[j]
               PROVE  i = j
    OBVIOUS
  <2>1. i \in 1 .. n /\ j \in 1 .. n
    BY <1>9
  <2>2. CASE i < j
    BY <1>2, <2>1, <2>2
  <2>3. CASE j < i
    BY <1>2, <2>1, <2>3
  <2> QED BY <1>1, <2>1, <2>2, <2>3
<1>10. PICK e : KeptFrom(asked, e, products, n, places)
  BY <1>1, ThosePlaces
<1>5. PICK m \in Nat :
        /\ DOMAIN asked = 1 .. m
        /\ \A a \in 1 .. m : e[a] \in 1 .. n /\ e[a] \in places /\ asked[a] = products[e[a]]
        /\ \A a, b \in 1 .. m : e[a] = e[b] => a = b
        /\ \A i \in 1 .. n : i \in places => \E a \in 1 .. m : e[a] = i
  BY <1>10 DEF KeptFrom
<1>6. m # 0
  <2>1. 1 \in 1 .. n
    BY <1>1
  <2>2. PICK a \in 1 .. m : e[a] = 1
    BY <1>3, <1>5, <2>1
  <2>3. a \in Int /\ 1 <= a /\ a <= m
    BY <2>2
  <2> QED BY <2>3
<1>7. \A a, b \in 1 .. m : asked[a] = asked[b] => a = b
  BY <1>4, <1>5
<1>8. AskedFor(shop.basket) = asked
  BY DEF AskedFor, products, places
<1> HIDE DEF asked
<1>11. m \in Nat \ {0}
  BY <1>6
<1>12. \E k \in Nat \ {0} :
         DOMAIN asked = 1 .. k /\ \A i, j \in 1 .. k : asked[i] = asked[j] => i = j
  BY <1>5, <1>7, <1>11
<1> QED BY <1>8, <1>12

\* A checkout that takes the items of a basket, and a preview of it, hold what
\* it asks for, at the quantities asked for.
LEMMA CartTakes ==
  ASSUME shop \in Shops, BasketRefusal(shop.basket, shop.shelf) = "none", NEW c
  PROVE  /\ \E n \in Nat \ {0} : Takes(Cart(c), n)
         /\ \A product \in Asked :
              \/ shop.shelf[product].weighed
              \/ QuantityOf(shop.basket, product) % Ticks = 0
<1> DEFINE asked == AskedFor(shop.basket)
           X == ToSet(asked)
           shelf == shop.shelf
           fraction(p) == ~shelf[p].weighed /\ QuantityOf(shop.basket, p) % Ticks # 0
           p1 == \E p \in X : QuantityOf(shop.basket, p) > LineCap
           p2 == \E p \in X : ~shelf[p].sellable
           p3 == \E p \in X : fraction(p)
           pairs == << <<"LINE_QUANTITY_CAP", p1>>, <<"PRODUCT_UNAVAILABLE", p2>>,
                       <<"INVALID_QUANTITY", p3>> >>
<1>1. ~p2 /\ ~p3
  <2>1. FirstReason(pairs) = "none"
    BY Zenon DEF BasketRefusal
  <2> HIDE DEF p1, p2, p3
  <2>2. Len(pairs) = 3 /\ \A i \in 1 .. 3 : pairs[i][1] # "none"
    OBVIOUS
  <2>3. pairs[2][2] = p2 /\ pairs[3][2] = p3
    OBVIOUS
  <2> HIDE DEF pairs
  <2>4. \A i \in 1 .. 3 : ~pairs[i][2]
    BY <2>1, <2>2, NoReason
  <2>5. 2 \in 1 .. 3 /\ 3 \in 1 .. 3
    OBVIOUS
  <2>6. ~pairs[2][2] /\ ~pairs[3][2]
    BY <2>4, <2>5, Zenon
  <2> QED BY <2>3, <2>6, Zenon
<1>2. \A product \in X : shelf[product].weighed \/ QuantityOf(shop.basket, product) % Ticks = 0
  BY <1>1
<1>3. PICK n \in Nat \ {0} :
        DOMAIN asked = 1 .. n /\ \A i, j \in 1 .. n : asked[i] = asked[j] => i = j
  BY AskedOnce
<1>4. (\A i \in 1 .. n : asked[i] \in X) /\ \A x \in X : \E i \in 1 .. n : asked[i] = x
  BY <1>3 DEF ToSet
<1>5. CASE c \in Previews
  <2> DEFINE places == {i \in DOMAIN asked : shelf[asked[i]].sellable}
             kept == Those(asked, places)
  <2>1. 1 .. n \subseteq places
    BY <1>1, <1>3, <1>4
  <2> HIDE DEF places, asked
  <2>2. DOMAIN kept = 1 .. n /\ \A i \in 1 .. n : kept[i] = asked[i]
    BY <1>3, <2>1, ThoseAll
  <2>3. kept = LiveProducts(asked, shelf)
    BY DEF LiveProducts, places
  <2>4. Cart(c) = LinesFor(kept, shop.basket, shelf)
    BY <1>5, <2>3 DEF Cart, PreviewCart, asked
  <2> HIDE DEF kept
  <2>6. X = Asked
    BY DEF Asked, asked
  <2> HIDE DEF X
  <2>5. Takes(Cart(c), n)
    BY <1>3, <1>4, <2>2, <2>4, <2>6, LinesForTake
  <2> QED BY <1>2, <1>3, <2>5, <2>6
<1>6. CASE c \notin Previews
  <2> DEFINE places == {i \in DOMAIN ProductsById : ProductsById[i] \in X}
             byId == Those(ProductsById, places)
             k == Len(ProductsById)
  <2>1. k \in Nat /\ DOMAIN ProductsById = 1 .. k
        /\ \A i, j \in 1 .. k : ProductsById[i] = ProductsById[j] => i = j
    BY BasketsAssumption
  <2>2. \A x \in X : \E i \in 1 .. k : ProductsById[i] = x
    <3>1. asked \in Seq(Products)
      BY AskedForIs
    <3>2. X \subseteq Products
      <4> HIDE DEF asked
      <4> QED BY <3>1 DEF ToSet
    <3> QED BY <2>1, <3>2 DEF Products, ToSet
  <2>3. \A i \in 1 .. k : i \in places <=> ProductsById[i] \in X
    BY <2>1
  <2> HIDE DEF places, X, k
  <2>11. PICK e : KeptFrom(byId, e, ProductsById, k, places)
    BY <2>1, ThosePlaces
  <2>4. PICK m \in Nat :
          /\ DOMAIN byId = 1 .. m
          /\ \A a \in 1 .. m : e[a] \in 1 .. k /\ e[a] \in places /\ byId[a] = ProductsById[e[a]]
          /\ \A a, b \in 1 .. m : e[a] = e[b] => a = b
          /\ \A i \in 1 .. k : i \in places => \E a \in 1 .. m : e[a] = i
    BY <2>11 DEF KeptFrom
  <2>5. \A a, b \in 1 .. m : byId[a] = byId[b] => a = b
    BY <2>1, <2>4
  <2>6. \A a \in 1 .. m : byId[a] \in X
    BY <2>3, <2>4
  <2>7. \A x \in X : \E a \in 1 .. m : byId[a] = x
    BY <2>2, <2>3, <2>4
  <2>8. m # 0
    <3>1. asked[1] \in X
      BY <1>3, <1>4
    <3> QED BY <2>7, <3>1
  <2>9. Cart(c) = LinesFor(byId, shop.basket, shelf)
    BY <1>6 DEF Cart, CheckoutCart, places, X, asked
  <2>12. X = Asked
    BY DEF X, Asked, asked
  <2>10. Takes(Cart(c), m)
    <3> HIDE DEF byId, asked
    <3> QED BY <2>4, <2>5, <2>6, <2>7, <2>9, <2>12, LinesForTake
  <2> QED BY <1>2, <2>4, <2>8, <2>10, <2>12
<1> QED BY <1>5, <1>6

\* The two carts of a basket differ in their order.
LEMMA CartsReordered ==
  ASSUME NEW n \in Nat, NEW m \in Nat, NEW s, NEW t, Takes(s, n), Takes(t, m)
  PROVE  n = m /\ \E f : Reorders(f, s, t)
<1>1. \A i, j \in 1 .. n : s[i] = s[j] => i = j
  BY DEF Takes
<1>2. \A i, j \in 1 .. m : t[i] = t[j] => i = j
  BY DEF Takes
<1>3. \A i \in 1 .. n, j \in 1 .. m : s[i].product = t[j].product => t[j] = s[i]
  BY DEF Takes
<1>4. \A i \in 1 .. n : \E j \in 1 .. m : t[j] = s[i]
  <2> TAKE i \in 1 .. n
  <2>1. PICK j \in 1 .. m : t[j].product = s[i].product
    BY DEF Takes
  <2> QED BY <1>3, <2>1
<1>5. \A j \in 1 .. m : \E i \in 1 .. n : t[j] = s[i]
  <2> TAKE j \in 1 .. m
  <2>1. PICK i \in 1 .. n : s[i].product = t[j].product
    BY DEF Takes
  <2> QED BY <1>3, <2>1
<1>6. DOMAIN s = 1 .. n /\ DOMAIN t = 1 .. m
  BY DEF Takes
<1> HIDE DEF Takes
<1> QED BY <1>1, <1>2, <1>4, <1>5, <1>6, SameMembers, ZenonT(60)

\* The lines asked for, as LinesOf makes them.
AskedLines(cart, overlays) ==
  [i \in DOMAIN cart |->
     PricedLine(cart[i], shop.shelf[cart[i].product],
                SaleOf(cart[i].product, overlays, shop.overlap))]

\* The lines of what is missing.
AddedLines(cart, overlays, rewards) ==
  LET missing == Those(rewards, {i \in DOMAIN rewards :
                                   /\ shop.shelf[rewards[i].product].sellable
                                   /\ shop.shelf[rewards[i].product].list > 0})
  IN [i \in DOMAIN missing |->
        [PricedLine(missing[i], shop.shelf[missing[i].product],
                    IF \E j \in DOMAIN cart : cart[j].product = missing[i].product
                    THEN SaleOf(missing[i].product, overlays, shop.overlap)
                    ELSE {})
           EXCEPT !.campaigns = {}, !.sale = 0]]

\* The lines of a cart are those asked for and the rewards added.
LEMMA LinesOfAre ==
  ASSUME NEW cart, NEW overlays, NEW bundles
  PROVE  LinesOf(cart, overlays, bundles) =
           AskedLines(cart, overlays)
             \o AddedLines(cart, overlays,
                           MissingRewards(AskedLines(cart, overlays), bundles))
BY DEF LinesOf, AskedLines, AddedLines

\* Units of a product do not depend on the order of the lines.
LEMMA UnitsAgree ==
  ASSUME NEW s \in Seq(Lines), NEW t \in Seq(Lines), NEW f, Reorders(f, s, t), NEW product
  PROVE  UnitsOf(t, product) = UnitsOf(s, product) /\ PaidOf(t, product) = PaidOf(s, product)
<1> DEFINE g == [i \in DOMAIN s |-> IF s[i].product = product THEN s[i].paid \div Ticks ELSE 0]
           h == [i \in DOMAIN t |-> IF t[i].product = product THEN t[i].paid \div Ticks ELSE 0]
           u == [i \in DOMAIN s |-> IF s[i].product = product THEN s[i].paid ELSE 0]
           v == [i \in DOMAIN t |-> IF t[i].product = product THEN t[i].paid ELSE 0]
<1>1. IsFiniteSet(DOMAIN s) /\ \A i \in DOMAIN s : s[i].paid \in Nat
  BY LineFacts
<1>2. \A i \in DOMAIN s : f[i] \in DOMAIN t /\ t[f[i]] = s[i]
  BY DEF Reorders
<1>3. \A i \in DOMAIN s : g[i] \in Int /\ h[f[i]] = g[i]
  <2>1. \A i \in DOMAIN s : s[i].paid \div Ticks \in Int
    BY <1>1, TicksType, Quotient
  <2> QED BY <1>2, <2>1
<1>4. \A i \in DOMAIN s : u[i] \in Int /\ v[f[i]] = u[i]
  BY <1>1, <1>2
<1>5. DOMAIN g = DOMAIN s /\ DOMAIN h = DOMAIN t /\ DOMAIN u = DOMAIN s /\ DOMAIN v = DOMAIN t
  OBVIOUS
<1> HIDE DEF g, h, u, v
<1>6. SumFunction(h) = SumFunction(g)
  BY <1>1, <1>3, <1>5, SumsAgree
<1>7. SumFunction(v) = SumFunction(u)
  BY <1>1, <1>4, <1>5, SumsAgree
<1> QED BY <1>6, <1>7 DEF UnitsOf, PaidOf, g, h, u, v

\* What is missing depends on the units of products alone.
LEMMA RewardsAgree ==
  ASSUME NEW s, NEW t, NEW bundles, \A product : UnitsOf(t, product) = UnitsOf(s, product)
  PROVE  MissingRewards(t, bundles) = MissingRewards(s, bundles)
<1> DEFINE missing(l, r) == (UnitsOf(l, r.bought) \div r.buy) * r.get - UnitsOf(l, r.rewarded)
           lacks(l, r) == /\ r.scope = "cross"
                          /\ r.bought # r.rewarded
                          /\ UnitsOf(l, r.bought) >= r.buy
                          /\ missing(l, r) > 0
           places(l) == {i \in DOMAIN bundles : lacks(l, bundles[i])}
           rules(l) == Those(bundles, places(l))
           made(l) == [i \in DOMAIN rules(l) |->
                         [product |-> rules(l)[i].rewarded,
                          ticks |-> missing(l, rules(l)[i]) * Ticks,
                          weighed |-> FALSE]]
<1>1. MissingRewards(s, bundles) = made(s) /\ MissingRewards(t, bundles) = made(t)
  BY DEF MissingRewards
<1>2. \A r : missing(t, r) = missing(s, r)
  OBVIOUS
<1>3. \A r : lacks(t, r) <=> lacks(s, r)
  <2> HIDE DEF missing
  <2> QED BY <1>2
<1>4. places(t) = places(s)
  <2> HIDE DEF lacks
  <2> QED BY <1>3
<1>5. rules(t) = rules(s)
  <2> HIDE DEF places
  <2> QED BY <1>4
<1>6. made(t) = made(s)
  <2> HIDE DEF missing, rules
  <2> QED BY <1>2, <1>5
<1> HIDE DEF made
<1> QED BY <1>1, <1>6

\* The price a product is quoted at, and whether it is a reward.
UnitAt(product, overlays) ==
  LET sale == SaleOf(product, overlays, shop.overlap)
  IN IF sale = {} THEN Baseline(shop.shelf[product]) ELSE (CHOOSE s \in sale : TRUE).price
Rewarded(product) ==
  \E r \in ToSet(shop.bundles) : r.scope = "cross" /\ r.rewarded = product

\* A line for each item, at its price.
Wanted(asked, cart, n, overlays) ==
  /\ asked \in Seq(Lines) /\ DOMAIN asked = 1 .. n /\ Len(asked) = n
  /\ \A i \in 1 .. n :
       /\ asked[i].product = cart[i].product
       /\ asked[i].paid = Quantity(cart[i])
       /\ asked[i].unit = UnitAt(cart[i].product, overlays)

\* What is asked for becomes a line each.
LEMMA AskedAre ==
  ASSUME shop \in Shops, NEW cart, NEW n \in Nat, DOMAIN cart = 1 .. n,
         \A i \in 1 .. n : IsItem(cart[i]), NEW overlays \in {shop.overlays, <<>>}
  PROVE  Wanted(AskedLines(cart, overlays), cart, n, overlays)
<1> DEFINE asked == AskedLines(cart, overlays)
           one(i) == SaleOf(cart[i].product, overlays, shop.overlap)
           line(i) == PricedLine(cart[i], shop.shelf[cart[i].product], one(i))
<1>1. ASSUME NEW i \in 1 .. n
      PROVE  /\ line(i) \in Lines /\ line(i).product = cart[i].product
             /\ line(i).paid = Quantity(cart[i])
             /\ line(i).unit = UnitAt(cart[i].product, overlays)
  <2>1. SaleOf(cart[i].product, <<>>, shop.overlap) = {}
    BY DEF SaleOf
  <2>2. IsSale(one(i))
    <3>1. IsSale(SaleOf(cart[i].product, shop.overlays, shop.overlap))
      BY SaleOfIs
    <3>2. CASE overlays = <<>>
      <4>1. one(i) = {}
        BY <2>1, <3>2
      <4> QED BY <4>1 DEF IsSale
    <3>3. CASE overlays = shop.overlays
      BY <3>1, <3>3
    <3> QED BY <3>2, <3>3
  <2>3. line(i) \in Lines
    <3> HIDE DEF one
    <3> QED BY <2>2, PricedLineIs
  <2> QED BY <2>3 DEF PricedLine, UnitAt
<1>2. DOMAIN asked = 1 .. n /\ \A i \in 1 .. n : asked[i] = line(i)
  BY DEF AskedLines
<1>3. asked \in [1 .. n -> Lines]
  <2>1. asked = [i \in 1 .. n |-> line(i)]
    BY DEF AskedLines
  <2> HIDE DEF asked, line
  <2> QED BY <1>1, <2>1
<1> HIDE DEF asked, line
<1>4. asked \in Seq(Lines) /\ Len(asked) = n
  BY <1>3, SequenceOf
<1>5. Wanted(asked, cart, n, overlays)
  BY <1>1, <1>2, <1>4 DEF Wanted
<1> QED BY <1>5 DEF asked

\* Lines of rewards of offers across products; those that the cart has too
\* are at its prices.
Injected(added, cart, overlays, m) ==
  /\ DOMAIN added = 1 .. m /\ added = [i \in 1 .. m |-> added[i]]
  /\ \A i \in 1 .. m :
       /\ Rewarded(added[i].product)
       /\ (\E j \in DOMAIN cart : cart[j].product = added[i].product) =>
            added[i].unit = UnitAt(added[i].product, overlays)

\* What is added are rewards.
LEMMA AddedAre ==
  ASSUME shop \in Shops, NEW cart, NEW lines \in Seq(Lines),
         NEW overlays, NEW bundles \in {shop.bundles, <<>>}
  PROVE  \E m \in Nat :
           Injected(AddedLines(cart, overlays, MissingRewards(lines, bundles)), cart, overlays, m)
<1> DEFINE rewards == MissingRewards(lines, bundles)
           places == {i \in DOMAIN rewards : /\ shop.shelf[rewards[i].product].sellable
                                             /\ shop.shelf[rewards[i].product].list > 0}
           missing == Those(rewards, places)
           added == AddedLines(cart, overlays, rewards)
<1>1. PICK k \in Nat : DOMAIN rewards = 1 .. k
  BY MissingRewardsIs DEF Items
<1>2. \A i \in DOMAIN rewards : Rewarded(rewards[i].product)
  <2> DEFINE lacks(r) == /\ r.scope = "cross"
                         /\ r.bought # r.rewarded
                         /\ UnitsOf(lines, r.bought) >= r.buy
                         /\ (UnitsOf(lines, r.bought) \div r.buy) * r.get
                              - UnitsOf(lines, r.rewarded) > 0
             at1 == {i \in DOMAIN bundles : lacks(bundles[i])}
             rules == Those(bundles, at1)
  <2>1. bundles \in Seq(ToSet(shop.bundles))
    <3>1. shop.bundles \in Seq(ToSet(shop.bundles)) /\ <<>> \in Seq(ToSet(shop.bundles))
      BY OffersOf
    <3> QED BY <3>1
  <2>2. DOMAIN rewards = DOMAIN rules
        /\ \A i \in DOMAIN rules : rewards[i].product = rules[i].rewarded
    BY DEF MissingRewards
  <2>3. \A i \in at1 : i \in DOMAIN bundles /\ bundles[i].scope = "cross"
    OBVIOUS
  <2> HIDE DEF at1, lacks, rewards
  <2>4. rules \in Seq(ToSet(shop.bundles))
        /\ \A i \in DOMAIN rules : \E j \in DOMAIN bundles : j \in at1 /\ rules[i] = bundles[j]
    BY <2>1, ThoseOf
  <2> HIDE DEF rules
  <2>5. \A i \in DOMAIN rules : rules[i] \in ToSet(shop.bundles) /\ rules[i].scope = "cross"
    <3> TAKE i \in DOMAIN rules
    <3>1. rules[i] \in ToSet(shop.bundles)
      BY <2>4, Places
    <3> QED BY <2>3, <2>4, <3>1
  <2> QED BY <2>2, <2>5 DEF Rewarded
<1> HIDE DEF rewards, places
<1>3. /\ missing \in Seq({rewards[i] : i \in {j \in 1 .. k : j \in places}})
  BY <1>1, ThoseIs
<1>4. Len(missing) \in Nat /\ DOMAIN missing = 1 .. Len(missing)
      /\ \A i \in DOMAIN missing : Rewarded(missing[i].product)
  <2> DEFINE X == {rewards[i] : i \in {j \in 1 .. k : j \in places}}
  <2>1. \A x \in X : Rewarded(x.product)
    BY <1>1, <1>2
  <2> HIDE DEF X, missing
  <2>2. Len(missing) \in Nat /\ DOMAIN missing = 1 .. Len(missing)
        /\ \A i \in DOMAIN missing : missing[i] \in X
    BY <1>3, Places DEF X
  <2> QED BY <2>1, <2>2
<1>5. DOMAIN added = DOMAIN missing
      /\ \A i \in DOMAIN missing :
           added[i] = [PricedLine(missing[i], shop.shelf[missing[i].product],
                                  IF \E j \in DOMAIN cart : cart[j].product = missing[i].product
                                  THEN SaleOf(missing[i].product, overlays, shop.overlap)
                                  ELSE {}) EXCEPT !.campaigns = {}, !.sale = 0]
  BY DEF AddedLines, places
<1>10. added = [i \in DOMAIN missing |-> added[i]]
  BY DEF AddedLines, places
<1> HIDE DEF missing, added
<1>6. ASSUME NEW i \in DOMAIN missing
      PROVE  /\ added[i].product = missing[i].product
             /\ (\E j \in DOMAIN cart : cart[j].product = missing[i].product) =>
                  added[i].unit = UnitAt(missing[i].product, overlays)
  <2> DEFINE sale == IF \E j \in DOMAIN cart : cart[j].product = missing[i].product
                     THEN SaleOf(missing[i].product, overlays, shop.overlap) ELSE {}
             l == PricedLine(missing[i], shop.shelf[missing[i].product], sale)
  <2>1. added[i] = [l EXCEPT !.campaigns = {}, !.sale = 0]
    BY <1>5
  <2> DEFINE row == shop.shelf[missing[i].product]
             unit == IF sale = {} THEN Baseline(row) ELSE (CHOOSE s \in sale : TRUE).price
             paid == Quantity(missing[i])
             in == {s.campaign : s \in sale}
             off == Charge(NonNegative(Baseline(row) - unit), paid)
             product == missing[i].product
  <2>2. l = [product |-> product, category |-> row.category, unit |-> unit, paid |-> paid,
             free |-> 0, campaigns |-> in, sale |-> off]
    BY DEF PricedLine
  <2>3. added[i].product = product /\ added[i].unit = unit
    <3> HIDE DEF l, row, unit, paid, in, off, product
    <3> QED BY <2>1, <2>2
  <2>4. SUFFICES ASSUME \E j \in DOMAIN cart : cart[j].product = missing[i].product
                 PROVE  unit = UnitAt(product, overlays)
    BY <2>3
  <2>5. sale = SaleOf(product, overlays, shop.overlap)
    BY <2>4
  <2> HIDE DEF sale, product
  <2> QED BY <2>5 DEF UnitAt, product
<1> DEFINE m == Len(missing)
<1>7. m \in Nat /\ DOMAIN added = 1 .. m
  BY <1>4, <1>5
<1>8. \A i \in 1 .. m :
        /\ Rewarded(added[i].product)
        /\ (\E j \in DOMAIN cart : cart[j].product = added[i].product) =>
             added[i].unit = UnitAt(added[i].product, overlays)
  BY <1>4, <1>6
<1>9. Injected(added, cart, overlays, m)
  BY <1>4, <1>5, <1>7, <1>8, <1>10 DEF Injected
<1> QED BY <1>7, <1>9 DEF added, rewards

-----------------------------------------------------------------------------
(* Lines quoted for two carts.                                              *)

\* What lines quote for a cart of n items, before bundles.
Quotes(lines, cart, n, overlays) ==
  /\ lines \in Seq(Lines) /\ n <= Len(lines)
  /\ \A i \in DOMAIN lines : lines[i].free = 0
  /\ \A i \in 1 .. n : lines[i].product = cart[i].product /\ lines[i].paid = Quantity(cart[i])
  /\ \A i \in DOMAIN lines :
       (\E j \in DOMAIN cart : cart[j].product = lines[i].product) =>
         lines[i].unit = UnitAt(lines[i].product, overlays)
  /\ \A i \in DOMAIN lines : i \notin 1 .. n => Rewarded(lines[i].product)

\* What a list holds that is another one's with more at its end.
LEMMA ConcatIs ==
  ASSUME NEW n \in Nat, NEW s, s = [i \in 1 .. n |-> s[i]],
         NEW m \in Nat, NEW t, t = [i \in 1 .. m |-> t[i]]
  PROVE  /\ DOMAIN (s \o t) = 1 .. n + m
         /\ \A i \in 1 .. n : i \in 1 .. n + m /\ (s \o t)[i] = s[i]
         /\ \A i \in 1 .. n + m : i \notin 1 .. n => i - n \in 1 .. m /\ (s \o t)[i] = t[i - n]
<1> DEFINE X == {s[i] : i \in 1 .. n} \cup {t[i] : i \in 1 .. m}
<1>1. s \in [1 .. n -> X] /\ t \in [1 .. m -> X]
  OBVIOUS
<1> HIDE DEF X
<1>2. s \in Seq(X) /\ Len(s) = n /\ t \in Seq(X) /\ Len(t) = m
  BY <1>1, SequenceOf
<1> QED BY <1>2

\* The lines of a cart quote it.
LEMMA QuotesOf ==
  ASSUME shop \in Shops, NEW cart, NEW n \in Nat, DOMAIN cart = 1 .. n,
         \A i \in 1 .. n : IsItem(cart[i]),
         NEW overlays \in {shop.overlays, <<>>}, NEW bundles \in {shop.bundles, <<>>}
  PROVE  Quotes(LinesOf(cart, overlays, bundles), cart, n, overlays)
<1> DEFINE asked == AskedLines(cart, overlays)
           added == AddedLines(cart, overlays, MissingRewards(asked, bundles))
           lines == LinesOf(cart, overlays, bundles)
<1>1. lines \in Seq(Lines) /\ \A i \in DOMAIN lines : lines[i].free = 0
  BY LinesOfIs DEF Items
<1>12. Wanted(asked, cart, n, overlays) /\ asked = [i \in 1 .. n |-> asked[i]]
  BY AskedAre DEF AskedLines
<1>2. /\ asked \in Seq(Lines) /\ DOMAIN asked = 1 .. n
      /\ \A i \in 1 .. n :
           /\ asked[i].product = cart[i].product
           /\ asked[i].paid = Quantity(cart[i])
           /\ asked[i].unit = UnitAt(cart[i].product, overlays)
  BY <1>12 DEF Wanted
<1>13. PICK m \in Nat : Injected(added, cart, overlays, m)
  <2> HIDE DEF asked
  <2> QED BY <1>2, AddedAre
<1>4. lines = asked \o added
  BY LinesOfAre
<1> HIDE DEF asked, added, lines
<1>3. /\ DOMAIN added = 1 .. m /\ added = [i \in 1 .. m |-> added[i]]
      /\ \A i \in 1 .. m :
           /\ Rewarded(added[i].product)
           /\ (\E j \in DOMAIN cart : cart[j].product = added[i].product) =>
                added[i].unit = UnitAt(added[i].product, overlays)
  BY <1>13 DEF Injected
<1>6. /\ DOMAIN lines = 1 .. n + m
      /\ \A i \in 1 .. n : i \in 1 .. n + m /\ lines[i] = asked[i]
      /\ \A i \in 1 .. n + m : i \notin 1 .. n => i - n \in 1 .. m /\ lines[i] = added[i - n]
  BY <1>3, <1>4, <1>12, ConcatIs
<1>7. n <= Len(lines)
  <2>1. Len(lines) \in Nat /\ DOMAIN lines = 1 .. Len(lines)
    BY <1>1, LineFacts
  <2>2. Len(lines) = n + m
    BY <1>6, <2>1
  <2> QED BY <2>2
<1>8. \A i \in 1 .. n : lines[i].product = cart[i].product /\ lines[i].paid = Quantity(cart[i])
  BY <1>2, <1>6
<1>9. ASSUME NEW i \in DOMAIN lines, \E j \in DOMAIN cart : cart[j].product = lines[i].product
      PROVE  lines[i].unit = UnitAt(lines[i].product, overlays)
  <2>1. CASE i \in 1 .. n
    BY <1>2, <1>6, <2>1
  <2>2. CASE i \notin 1 .. n
    <3>1. i - n \in 1 .. m /\ lines[i] = added[i - n]
      BY <1>6, <2>2
    <3>2. \E j \in DOMAIN cart : cart[j].product = added[i - n].product
      BY <1>9, <3>1
    <3> QED BY <1>3, <3>1, <3>2
  <2> QED BY <2>1, <2>2
<1>10. \A i \in DOMAIN lines : i \notin 1 .. n => Rewarded(lines[i].product)
  BY <1>3, <1>6
<1>11. Quotes(lines, cart, n, overlays)
  BY <1>1, <1>7, <1>8, <1>9, <1>10 DEF Quotes
<1> QED BY <1>11 DEF lines

\* Two lists of the same products.
SameProducts(s, t) ==
  \A x : (\E j \in DOMAIN s : s[j].product = x) <=> (\E j \in DOMAIN t : t[j].product = x)

\* What is added to two carts of the same products.
LEMMA AddedAgree ==
  ASSUME NEW s, NEW t, SameProducts(s, t), NEW overlays, NEW rewards
  PROVE  AddedLines(t, overlays, rewards) = AddedLines(s, overlays, rewards)
<1> DEFINE has(cart, x) == \E j \in DOMAIN cart : cart[j].product = x
           missing == Those(rewards, {i \in DOMAIN rewards :
                                        /\ shop.shelf[rewards[i].product].sellable
                                        /\ shop.shelf[rewards[i].product].list > 0})
           sale(cart, x) == IF has(cart, x) THEN SaleOf(x, overlays, shop.overlap) ELSE {}
           made(cart) == [i \in DOMAIN missing |->
                            [PricedLine(missing[i], shop.shelf[missing[i].product],
                                        sale(cart, missing[i].product))
                               EXCEPT !.campaigns = {}, !.sale = 0]]
<1>1. AddedLines(s, overlays, rewards) = made(s) /\ AddedLines(t, overlays, rewards) = made(t)
  BY DEF AddedLines
<1>2. \A x : has(s, x) <=> has(t, x)
  BY DEF SameProducts
<1>3. \A x : sale(s, x) = sale(t, x)
  <2> HIDE DEF has
  <2> QED BY <1>2
<1>4. made(s) = made(t)
  <2> HIDE DEF sale, missing
  <2> QED BY <1>3
<1> HIDE DEF made
<1> QED BY <1>1, <1>4

\* f puts s in the order of t and keeps the first n ahead.
ReordersFirst(f, s, t, n) ==
  /\ Reorders(f, s, t)
  /\ \A i \in DOMAIN s : i \in 1 .. n <=> f[i] \in 1 .. n

\* The lines of two carts in different orders differ in their order.
LEMMA LinesReordered ==
  ASSUME shop \in Shops, NEW n \in Nat, NEW s, NEW t, Takes(s, n), Takes(t, n),
         \A i \in 1 .. n : IsItem(s[i]) /\ IsItem(t[i]),
         NEW f, Reorders(f, s, t),
         NEW overlays \in {shop.overlays, <<>>}, NEW bundles \in {shop.bundles, <<>>}
  PROVE  \E g : ReordersFirst(g, LinesOf(s, overlays, bundles), LinesOf(t, overlays, bundles), n)
<1> DEFINE a == AskedLines(s, overlays)
           b == AskedLines(t, overlays)
           rewards == MissingRewards(a, bundles)
           added == AddedLines(s, overlays, rewards)
           sums == LinesOf(s, overlays, bundles)
           sumt == LinesOf(t, overlays, bundles)
<1>1. DOMAIN s = 1 .. n /\ DOMAIN t = 1 .. n
  BY DEF Takes
<1>2. /\ a \in Seq(Lines) /\ DOMAIN a = 1 .. n /\ a = [i \in 1 .. n |-> a[i]]
      /\ b \in Seq(Lines) /\ DOMAIN b = 1 .. n /\ b = [i \in 1 .. n |-> b[i]]
  <2>1. Wanted(a, s, n, overlays) /\ Wanted(b, t, n, overlays)
    BY <1>1, AskedAre
  <2>2. a = [i \in 1 .. n |-> a[i]] /\ b = [i \in 1 .. n |-> b[i]]
    BY <1>1 DEF AskedLines
  <2> HIDE DEF a, b
  <2> QED BY <2>1, <2>2 DEF Wanted
<1>3. /\ f \in [1 .. n -> 1 .. n]
      /\ \A i, j \in 1 .. n : f[i] = f[j] => i = j
      /\ \A j \in 1 .. n : \E i \in 1 .. n : f[i] = j
      /\ \A i \in 1 .. n : t[f[i]] = s[i]
  BY <1>1 DEF Reorders
<1>4. \A i \in 1 .. n : b[f[i]] = a[i]
  BY <1>1, <1>3 DEF AskedLines
<1>5. Reorders(f, a, b)
  BY <1>2, <1>3, <1>4 DEF Reorders
<1>6. MissingRewards(b, bundles) = rewards
  <2> HIDE DEF a, b
  <2> QED BY <1>2, <1>5, UnitsAgree, RewardsAgree
<1>7. AddedLines(t, overlays, rewards) = added
  <2>1. \A x : (\E j \in DOMAIN s : s[j].product = x) <=> x \in Asked
    BY <1>1 DEF Takes
  <2>2. \A x : (\E j \in DOMAIN t : t[j].product = x) <=> x \in Asked
    BY <1>1 DEF Takes
  <2>3. SameProducts(s, t)
    BY <2>1, <2>2 DEF SameProducts
  <2> HIDE DEF rewards
  <2> QED BY <2>3, AddedAgree
<1>8. sums = a \o added /\ sumt = b \o added
  BY <1>6, <1>7, LinesOfAre
<1>10. PICK m \in Nat : Injected(added, s, overlays, m)
  <2> HIDE DEF a
  <2> QED BY <1>2, AddedAre
<1> HIDE DEF a, b, rewards, added, sums, sumt
<1>9. added = [i \in 1 .. m |-> added[i]]
  BY <1>10 DEF Injected
<1>11. /\ DOMAIN sums = 1 .. n + m
       /\ \A i \in 1 .. n : i \in 1 .. n + m /\ sums[i] = a[i]
       /\ \A i \in 1 .. n + m : i \notin 1 .. n => i - n \in 1 .. m /\ sums[i] = added[i - n]
  BY <1>2, <1>8, <1>9, ConcatIs
<1>12. /\ DOMAIN sumt = 1 .. n + m
       /\ \A i \in 1 .. n : i \in 1 .. n + m /\ sumt[i] = b[i]
       /\ \A i \in 1 .. n + m : i \notin 1 .. n => i - n \in 1 .. m /\ sumt[i] = added[i - n]
  BY <1>2, <1>8, <1>9, ConcatIs
<1> DEFINE N == 1 .. n + m
           g == [i \in N |-> IF i \in 1 .. n THEN f[i] ELSE i]
<1>13. \A i \in N : g[i] = IF i \in 1 .. n THEN f[i] ELSE i
  OBVIOUS
<1>14. \A i \in 1 .. n : i \in N /\ f[i] \in 1 .. n /\ f[i] \in N
  BY <1>3, <1>11
<1>15. \A i \in N : g[i] \in N /\ (i \in 1 .. n <=> g[i] \in 1 .. n)
  BY <1>13, <1>14
<1>16. g \in [N -> N]
  BY <1>15
<1> HIDE DEF g, N
<1>17. \A i, j \in N : g[i] = g[j] => i = j
  BY <1>3, <1>13, <1>15
<1>18. \A j \in N : \E i \in N : g[i] = j
  <2> TAKE j \in N
  <2>1. CASE j \in 1 .. n
    <3>1. PICK i \in 1 .. n : f[i] = j
      BY <1>3, <2>1
    <3> QED BY <1>13, <1>14, <3>1
  <2>2. CASE j \notin 1 .. n
    BY <1>13, <2>2
  <2> QED BY <2>1, <2>2
<1>19. \A i \in N : sumt[g[i]] = sums[i]
  <2> TAKE i \in N
  <2>1. CASE i \in 1 .. n
    BY <1>4, <1>11, <1>12, <1>13, <1>14, <2>1
  <2>2. CASE i \notin 1 .. n
    BY <1>11, <1>12, <1>13, <2>2 DEF N
  <2> QED BY <2>1, <2>2
<1>20. ReordersFirst(g, sums, sumt, n)
  BY <1>11, <1>12, <1>15, <1>16, <1>17, <1>18, <1>19 DEF ReordersFirst, Reorders, N
<1> QED BY <1>20 DEF sums, sumt

-----------------------------------------------------------------------------
(* Offers that give nothing away.                                           *)

\* Everybody of D gets what is left of all by those before.
ShareOut(D, want, before, all, gets) ==
  /\ IsFiniteSet(D) /\ \A i \in D : want[i] \in Nat
  /\ \A i \in D : before[i] \in SUBSET D
  /\ \A S \in SUBSET D : S # {} => \E x \in S : before[x] \cap S = {}
  /\ all \in Nat
  /\ \A i \in D : gets[i] = Least(want[i], Left(all, [j \in before[i] |-> want[j]]))

\* Nobody gets anything.
Nil(f, D) == \A i \in D : f[i] = 0

\* Nobody gets anything if there is nothing, or nobody wants any.
LEMMA Shared ==
  ASSUME NEW D, NEW want, NEW before, NEW all, NEW gets,
         ShareOut(D, want, before, all, gets)
  PROVE  Nil(gets, D) <=> (all = 0 \/ Nil(want, D))
<1> DEFINE taken(i) == [j \in before[i] |-> want[j]]
           sum(i) == SumFunction(taken(i))
<1> USE DEF ShareOut
<1>1. ASSUME NEW i \in D PROVE sum(i) \in Nat
  <2>1. IsFiniteSet(before[i])
    BY FS_Subset
  <2>2. DOMAIN taken(i) = before[i] /\ \A j \in DOMAIN taken(i) : taken(i)[j] \in Nat
    OBVIOUS
  <2> DEFINE f == taken(i)
  <2> HIDE DEF f
  <2>3. SumFunction(f) \in Nat
    <3>1. IsFiniteSet(DOMAIN f) /\ \A j \in DOMAIN f : f[j] \in Nat
      BY <2>1, <2>2 DEF f
    <3> QED BY <3>1, SumType
  <2> QED BY <2>3 DEF f
<1>2. \A i \in D : gets[i] = Least(want[i], NonNegative(all - sum(i)))
  BY DEF Left
<1>3. ASSUME NEW x \in D, want[x] # 0, all # 0, \A j \in before[x] : want[j] = 0
      PROVE  gets[x] # 0
  <2>1. sum(x) = 0
    <3>1. IsFiniteSet(before[x])
      BY FS_Subset
    <3>2. DOMAIN taken(x) = before[x] /\ \A j \in before[x] : taken(x)[j] = 0
      BY <1>3
    <3> DEFINE f == taken(x)
    <3> HIDE DEF f
    <3>3. SumFunctionOnSet(f, DOMAIN f) = 0
      <4>1. IsFiniteSet(DOMAIN f) /\ \A j \in DOMAIN f : f[j] = 0
        BY <3>1, <3>2 DEF f
      <4> QED BY <4>1, SumZero
    <3> QED BY <3>3 DEF SumFunction, f
  <2> HIDE DEF sum
  <2>2. gets[x] = Least(want[x], NonNegative(all - 0))
    BY <1>2, <2>1
  <2>3. NonNegative(all - 0) = all
    BY DEF NonNegative
  <2> QED BY <1>3, <2>2, <2>3 DEF Least
<1> HIDE DEF sum
<1>4. ASSUME all = 0 \/ \A i \in D : want[i] = 0, NEW i \in D PROVE gets[i] = 0
  <2> DEFINE left == NonNegative(all - sum(i))
  <2>1. left \in Nat /\ (all = 0 => left = 0)
    BY <1>1, NonNegativeType DEF NonNegative
  <2> HIDE DEF left
  <2>2. gets[i] = Least(want[i], left)
    BY <1>2 DEF left
  <2>3. want[i] \in Nat
    OBVIOUS
  <2> QED BY <1>4, <2>1, <2>2, <2>3 DEF Least
<1>5. ASSUME all # 0, \E i \in D : want[i] # 0 PROVE \E i \in D : gets[i] # 0
  <2> DEFINE S == {i \in D : want[i] # 0}
  <2>1. S # {} /\ S \in SUBSET D
    BY <1>5
  <2>2. PICK x \in S : before[x] \cap S = {}
    BY <2>1
  <2>3. \A j \in before[x] : want[j] = 0
    BY <2>2
  <2> QED BY <1>3, <1>5, <2>2, <2>3
<1> QED BY <1>4, <1>5 DEF Nil

\* An offer that gives nothing away.
GivesNothing(lines, r) == \A i \in DOMAIN lines : FreeTicks(lines, r)[i] = 0

\* The parts of an offer on a category and of one across products.
Slots(lines, r, i) ==
  IF MatchesCategory(lines[i].category, r.target)
  THEN (lines[i].paid + Ticks - 1) \div Ticks ELSE 0
Pool(lines, r) ==
  Sets(r, SumFunction([i \in DOMAIN lines |->
                         IF MatchesCategory(lines[i].category, r.target)
                         THEN lines[i].paid ELSE 0]))
Rewards(lines, r, i) == IF lines[i].product = r.rewarded THEN lines[i].paid ELSE 0

\* An offer on a category gives nothing if it asks for more, or nothing is in it.
LEMMA PoolNothing ==
  ASSUME NEW lines \in Seq(Lines), NEW r, Bundle(r), r.scope = "category"
  PROVE  GivesNothing(lines, r) <=>
           (Pool(lines, r) = 0 \/ \A i \in DOMAIN lines : Slots(lines, r, i) = 0)
<1> DEFINE D == DOMAIN lines
           want == [i \in D |-> Slots(lines, r, i)]
           before == [i \in D |-> {j \in D : \/ lines[j].unit < lines[i].unit
                                             \/ lines[j].unit = lines[i].unit /\ j < i}]
           gets == [i \in D |-> Least(want[i], Left(Pool(lines, r), [j \in before[i] |-> want[j]]))]
<1>1. IsFiniteSet(D) /\ \A i \in D : lines[i].paid \in Nat /\ lines[i].unit \in Nat /\ i \in Nat
  BY LineFacts
<1>2. \A i \in D : want[i] \in Nat
  <2> SUFFICES ASSUME NEW i \in D PROVE Slots(lines, r, i) \in Nat
    OBVIOUS
  <2> DEFINE t == lines[i].paid + Ticks - 1
  <2>1. t \in Nat
    BY <1>1, TicksType
  <2> HIDE DEF t
  <2>2. t \div Ticks \in Nat
    BY <2>1, TicksType, Quotient
  <2> QED BY <2>2 DEF t, Slots
<1>3. \A i \in D : before[i] \in SUBSET D
  OBVIOUS
<1>4. ASSUME NEW S \in SUBSET D, S # {} PROVE \E x \in S : before[x] \cap S = {}
  <2> DEFINE R == {p \in D \X D : \/ lines[p[1]].unit < lines[p[2]].unit
                                  \/ lines[p[1]].unit = lines[p[2]].unit /\ p[1] < p[2]}
  <2>1. \A x, y \in S : <<x, y>> \in R <=> \/ lines[x].unit < lines[y].unit
                                           \/ lines[x].unit = lines[y].unit /\ x < y
    OBVIOUS
  <2> HIDE DEF R
  <2>2. \A x, y \in S : x # y => <<x, y>> \in R \/ <<y, x>> \in R
    BY <1>1, <2>1
  <2>3. \A x, y, z \in S : <<x, y>> \in R /\ <<y, z>> \in R => <<x, z>> \in R
    BY <1>1, <2>1
  <2>4. IsFiniteSet(S)
    BY <1>1, FS_Subset
  <2>5. PICK x \in S : \A y \in S \ {x} : <<x, y>> \in R
    BY <1>4, <2>2, <2>3, <2>4, LeastExists
  <2>6. ASSUME NEW y \in before[x] \cap S PROVE FALSE
    <3>1. y \in S /\ x \in S /\ (lines[y].unit < lines[x].unit \/ (lines[y].unit = lines[x].unit /\ y < x))
      OBVIOUS
    <3>2. y # x
      BY <1>1, <3>1
    <3>3. <<x, y>> \in R
      BY <2>5, <3>1, <3>2
    <3> QED BY <1>1, <2>1, <3>1, <3>3
  <2> QED BY <2>5, <2>6
<1>5. Pool(lines, r) \in Nat
  <2> DEFINE f == [i \in D |-> IF MatchesCategory(lines[i].category, r.target)
                               THEN lines[i].paid ELSE 0]
  <2>1. IsFiniteSet(DOMAIN f) /\ \A x \in DOMAIN f : f[x] \in Nat
    BY <1>1
  <2>2. Pool(lines, r) = Sets(r, SumFunction(f))
    BY DEF Pool
  <2> HIDE DEF f
  <2>3. SumFunction(f) \in Nat
    BY <2>1, SumType
  <2> QED BY <2>2, <2>3, SetsType
<1>6. ASSUME NEW i \in D PROVE FreeTicks(lines, r)[i] = gets[i] * Ticks
  BY DEF FreeTicks, Sets, Left, Slots, Pool
<1>7. \A i \in D : gets[i] = Least(want[i], Left(Pool(lines, r), [j \in before[i] |-> want[j]]))
  OBVIOUS
<1>8. \A i \in D : want[i] = Slots(lines, r, i)
  OBVIOUS
<1>9. \A i \in D : gets[i] \in Nat
  <2> TAKE i \in D
  <2>1. Left(Pool(lines, r), [j \in before[i] |-> want[j]]) \in Nat
    BY NonNegativeType DEF Left
  <2> HIDE DEF want, before
  <2> QED BY <1>2, <1>7, <2>1, LeastIs
<1> HIDE DEF want, before, gets, D
<1>10. Nil(gets, D) <=> (Pool(lines, r) = 0 \/ Nil(want, D))
  <2>1. ShareOut(D, want, before, Pool(lines, r), gets)
    BY <1>1, <1>2, <1>3, <1>4, <1>5, <1>7 DEF ShareOut
  <2> QED BY <2>1, Shared, ZenonT(60)
<1>11. \A i \in D : FreeTicks(lines, r)[i] = 0 <=> gets[i] = 0
  BY <1>6, <1>9, TicksType
<1> QED BY <1>8, <1>10, <1>11 DEF GivesNothing, Nil, D

\* One across products gives nothing if no set is bought, or no line is its reward.
LEMMA CrossNothing ==
  ASSUME NEW lines \in Seq(Lines), NEW r, Bundle(r), r.scope = "cross"
  PROVE  GivesNothing(lines, r) <=>
           (Sets(r, PaidOf(lines, r.bought)) = 0 \/ \A i \in DOMAIN lines : Rewards(lines, r, i) = 0)
<1> DEFINE D == DOMAIN lines
           want == [i \in D |-> Rewards(lines, r, i)]
           before == [i \in D |-> 1 .. i - 1]
           all == Sets(r, PaidOf(lines, r.bought)) * Ticks
           gets == [i \in D |-> FreeTicks(lines, r)[i]]
<1>1. IsFiniteSet(D) /\ Len(lines) \in Nat /\ D = 1 .. Len(lines)
      /\ \A i \in D : lines[i].paid \in Nat /\ i \in Nat \ {0}
  BY LineFacts
<1>2. \A i \in D : want[i] \in Nat
  BY <1>1 DEF Rewards
<1>3. \A i \in D : before[i] \in SUBSET D
  BY <1>1
<1>4. ASSUME NEW S \in SUBSET D, S # {} PROVE \E x \in S : before[x] \cap S = {}
  <2>1. IsFiniteSet(S) /\ S \subseteq Int
    <3>1. S \in SUBSET Int
      BY <1>1
    <3> HIDE DEF D
    <3> QED BY <1>1, <3>1, FS_Subset
  <2>2. Min(S) \in S /\ \A x \in S : Min(S) <= x
    <3> HIDE DEF D
    <3> QED BY <1>4, <2>1, MinIs
  <2> DEFINE x == Min(S)
  <2> HIDE DEF x
  <2>3. x \in S /\ \A y \in S : x <= y
    BY <2>2 DEF x
  <2>4. before[x] = 1 .. x - 1
    BY <2>3
  <2> HIDE DEF before
  <2>5. before[x] \cap S = {}
    BY <2>1, <2>3, <2>4
  <2> QED BY <2>3, <2>5
<1>5. Sets(r, PaidOf(lines, r.bought)) \in Nat /\ all \in Nat
  <2>1. PaidOf(lines, r.bought) \in Nat
    BY UnitsOfType
  <2>2. Sets(r, PaidOf(lines, r.bought)) \in Nat
    BY <2>1, SetsType
  <2> QED BY <2>2, TicksType
<1>6. ASSUME NEW i \in D
      PROVE  gets[i] = Least(want[i], Left(all, [j \in before[i] |-> want[j]]))
  <2> DEFINE rewards(k) == IF lines[k].product = r.rewarded THEN lines[k].paid ELSE 0
             f == [j \in 1 .. i - 1 |-> rewards(j)]
             g == [j \in before[i] |-> want[j]]
  <2>1. FreeTicks(lines, r)[i] = Least(rewards(i), Left(all, f))
    BY DEF FreeTicks, Sets, Left
  <2>2. f = g
    <3>1. before[i] = 1 .. i - 1 /\ \A j \in before[i] : want[j] = rewards(j)
      <4>1. \A j \in before[i] : j \in D
        BY <1>3
      <4> QED BY <4>1 DEF Rewards
    <3> HIDE DEF before, want, rewards
    <3> QED BY <3>1
  <2>3. want[i] = rewards(i) /\ gets[i] = FreeTicks(lines, r)[i]
    BY DEF Rewards
  <2> HIDE DEF f, g, want, gets, all, rewards
  <2> QED BY <2>1, <2>2, <2>3 DEF g
<1>8. \A i \in D : want[i] = Rewards(lines, r, i)
  OBVIOUS
<1>9. \A i \in D : FreeTicks(lines, r)[i] = gets[i]
  OBVIOUS
<1>11. all = 0 <=> Sets(r, PaidOf(lines, r.bought)) = 0
  BY <1>5, TicksType
<1> HIDE DEF want, before, gets, D, all
<1>10. Nil(gets, D) <=> (all = 0 \/ Nil(want, D))
  <2>1. ShareOut(D, want, before, all, gets)
    BY <1>1, <1>2, <1>3, <1>4, <1>5, <1>6 DEF ShareOut
  <2> QED BY <2>1, Shared, ZenonT(60)
<1> QED BY <1>8, <1>9, <1>10, <1>11 DEF GivesNothing, Nil, D

\* Whether an offer gives anything does not depend on the order of lines.
LEMMA NothingAgrees ==
  ASSUME NEW s \in Seq(Lines), NEW t \in Seq(Lines), NEW f, Reorders(f, s, t),
         NEW r, Bundle(r), GivesNothing(s, r)
  PROVE  GivesNothing(t, r)
<1>1. /\ \A i \in DOMAIN s : f[i] \in DOMAIN t /\ t[f[i]] = s[i]
      /\ \A j \in DOMAIN t : \E i \in DOMAIN s : f[i] = j
  BY DEF Reorders
<1>2. \A j \in DOMAIN t : \E i \in DOMAIN s : t[j] = s[i]
  BY <1>1
<1>3. CASE r.scope = "same"
  <2>1. \A i \in DOMAIN s : FreeTicks(s, r)[i] =
          IF s[i].product = r.target THEN Sets(r, s[i].paid) * Ticks ELSE 0
    BY <1>3 DEF FreeTicks, Sets
  <2>2. \A i \in DOMAIN t : FreeTicks(t, r)[i] =
          IF t[i].product = r.target THEN Sets(r, t[i].paid) * Ticks ELSE 0
    BY <1>3 DEF FreeTicks, Sets
  <2> QED BY <1>2, <2>1, <2>2 DEF GivesNothing
<1>4. CASE r.scope = "category"
  <2> DEFINE g == [i \in DOMAIN s |-> IF MatchesCategory(s[i].category, r.target)
                                      THEN s[i].paid ELSE 0]
             h == [i \in DOMAIN t |-> IF MatchesCategory(t[i].category, r.target)
                                      THEN t[i].paid ELSE 0]
  <2>1. IsFiniteSet(DOMAIN s) /\ \A i \in DOMAIN s : s[i].paid \in Nat
    BY LineFacts
  <2>2. \A i \in DOMAIN s : g[i] \in Int /\ h[f[i]] = g[i]
    BY <1>1, <2>1
  <2>3. DOMAIN g = DOMAIN s /\ DOMAIN h = DOMAIN t
    OBVIOUS
  <2> HIDE DEF g, h
  <2>4. SumFunction(h) = SumFunction(g)
    BY <2>1, <2>2, <2>3, SumsAgree
  <2>5. Pool(t, r) = Pool(s, r)
    BY <2>4 DEF Pool, g, h
  <2>6. (\A i \in DOMAIN s : Slots(s, r, i) = 0) => \A j \in DOMAIN t : Slots(t, r, j) = 0
    BY <1>2 DEF Slots
  <2> QED BY <1>4, <2>5, <2>6, PoolNothing
<1>5. CASE r.scope = "cross"
  <2>1. PaidOf(t, r.bought) = PaidOf(s, r.bought)
    BY UnitsAgree
  <2>2. (\A i \in DOMAIN s : Rewards(s, r, i) = 0) => \A j \in DOMAIN t : Rewards(t, r, j) = 0
    BY <1>2 DEF Rewards
  <2> QED BY <1>5, <2>1, <2>2, CrossNothing
<1> QED BY <1>3, <1>4, <1>5 DEF Bundle

\* A call before its bundles, and the offers it applies.
Ungiven(lines) == [lines |-> lines, discount |-> 0, credit |-> Nothing]
RulesUsed(bundles, combine) == IF combine THEN bundles ELSE OnePerScope(bundles)

\* The bundles of a call are a fold over the offers it applies.
LEMMA BundlesAre ==
  ASSUME shop \in Shops, NEW lines, NEW bundles \in {shop.bundles, <<>>}, NEW combine
  PROVE  LET rules == RulesUsed(bundles, combine)
         IN /\ EvaluateBundles(lines, bundles, combine) = FoldLeft(ApplyBundle, Ungiven(lines), rules)
            /\ rules \in Seq(ToSet(shop.bundles))
            /\ Len(rules) \in Nat /\ DOMAIN rules = 1 .. Len(rules)
            /\ \A i \in 1 .. Len(rules) : rules[i] \in ToSet(shop.bundles) /\ Offer(rules[i])
<1> DEFINE X == ToSet(shop.bundles)
           rules == RulesUsed(bundles, combine)
<1>1. bundles \in Seq(X)
  <2>1. shop.bundles \in Seq(X)
    BY OffersOf
  <2> HIDE DEF X
  <2>2. <<>> \in Seq(X)
    OBVIOUS
  <2> QED BY <2>1, <2>2
<1>2. rules \in Seq(X)
  <2>1. PICK places : OnePerScope(bundles) = Those(bundles, places)
    BY DEF OnePerScope
  <2> HIDE DEF X
  <2>2. Those(bundles, places) \in Seq(X)
    BY <1>1, ThoseOf
  <2> QED BY <1>1, <2>1, <2>2 DEF RulesUsed
<1>3. EvaluateBundles(lines, bundles, combine) = FoldLeft(ApplyBundle, Ungiven(lines), rules)
  BY DEF EvaluateBundles, Ungiven, RulesUsed
<1>4. \A r \in X : Offer(r)
  BY OffersOf
<1> HIDE DEF X, rules
<1>5. Len(rules) \in Nat /\ DOMAIN rules = 1 .. Len(rules) /\ \A i \in 1 .. Len(rules) : rules[i] \in X
  BY <1>2
<1> QED BY <1>2, <1>3, <1>4, <1>5 DEF X, rules

\* A call before its bundles is a possible result of them.
LEMMA UngivenIs ==
  ASSUME shop \in Shops, NEW lines \in Seq(Lines), \A i \in DOMAIN lines : lines[i].free = 0
  PROVE  Ungiven(lines) \in Gifts(lines)
<1> DEFINE y == EvaluateBundles(lines, <<>>, TRUE)
<1>1. y \in Gifts(lines) /\ y.lines = lines /\ y.discount = 0 /\ y.credit = Nothing
  BY EvaluateBundlesIs
<1> HIDE DEF y
<1>2. y \in [lines : Seq(Lines), discount : Nat, credit : [Campaigns -> Nat]]
  BY <1>1 DEF Gifts
<1>3. y = [lines |-> y.lines, discount |-> y.discount, credit |-> y.credit]
  BY <1>2
<1> QED BY <1>1, <1>3 DEF Ungiven

\* An offer that gives nothing changes nothing.
LEMMA ApplyNothing ==
  ASSUME NEW lines \in Seq(Lines), NEW r, Bundle(r), GivesNothing(lines, r)
  PROVE  ApplyBundle(Ungiven(lines), r) = Ungiven(lines)
<1> DEFINE D == DOMAIN lines
           free == FreeTicks(lines, r)
           values == [i \in D |-> RewardValue(r, lines[i].unit, free[i])]
           given == [i \in D |-> GivenLine(lines[i], r, free[i])]
           credit == Plus(Nothing, Only(r.campaign, SumFunction(values)))
<1>1. ApplyBundle(Ungiven(lines), r) =
        [lines |-> given, discount |-> 0 + SumFunction(values), credit |-> credit]
  BY DEF ApplyBundle, GivenLine, Ungiven
<1>2. IsFiniteSet(D) /\ Len(lines) \in Nat /\ D = 1 .. Len(lines)
      /\ \A i \in D : lines[i] \in Lines /\ lines[i].unit \in Nat /\ lines[i].paid \in Nat
                      /\ lines[i].free \in Nat
  BY LineFacts
<1>3. \A i \in D : free[i] = 0
  BY DEF GivesNothing
<1>4. \A i \in D : RewardValue(r, lines[i].unit, 0) = 0
  <2> SUFFICES ASSUME NEW unit \in Nat PROVE RewardValue(r, unit, 0) = 0
    BY <1>2
  <2>1. 0 \div Ticks = 0
    <3>1. 0 * Ticks = 0
      BY TicksType
    <3> QED BY <3>1, UnitsBack
  <2> DEFINE base == unit * (0 \div Ticks)
  <2>2. base = 0
    BY <2>1
  <2> HIDE DEF base
  <2>3. RewardValue(r, unit, 0) =
          CASE r.reward = "free" -> base
            [] r.reward = "percent_off_reward" /\ r.bps > 0 ->
                 RoundDiv(base * Least(10000, r.bps), 10000)
            [] OTHER -> 0
    BY DEF RewardValue, base
  <2>4. RoundDiv(0, 10000) = 0
    BY DEF RoundDiv
  <2>5. r.bps \in Int
    BY DEF Bundle
  <2>6. 0 * Least(10000, r.bps) = 0
    BY <2>5 DEF Least
  <2> QED BY <2>2, <2>3, <2>4, <2>6
<1>5. SumFunction(values) = 0
  <2>1. DOMAIN values = D /\ \A i \in D : values[i] = 0
    BY <1>3, <1>4
  <2> HIDE DEF values
  <2> QED BY <1>2, <2>1, SumZero DEF SumFunction
<1>6. given = lines
  <2>1. \A i \in D : given[i] = lines[i]
    <3> TAKE i \in D
    <3> DEFINE l == lines[i]
               Rows == [product : Products, category : {shop.shelf[p].category : p \in Products},
                        unit : Nat, paid : Nat, free : Nat, campaigns : SUBSET Campaigns, sale : Nat]
    <3>1. l \in Rows
      BY <1>2 DEF Lines
    <3>2. given[i] = GivenLine(l, r, 0)
      BY <1>3
    <3>3. l.free + 0 = l.free /\ l.paid - 0 = l.paid
      BY <1>2
    <3>4. GivenLine(l, r, 0) = [l EXCEPT !.free = l.free, !.paid = l.paid]
      BY <3>3 DEF GivenLine
    <3> HIDE DEF l, given
    <3>5. [l EXCEPT !.free = l.free, !.paid = l.paid] = l
      BY <3>1
    <3> QED BY <3>2, <3>4, <3>5 DEF l
  <2>2. lines = [i \in D |-> lines[i]]
    BY <1>2
  <2>3. given = [i \in D |-> given[i]]
    OBVIOUS
  <2> HIDE DEF given
  <2>4. [i \in D |-> given[i]] = [i \in D |-> lines[i]]
    BY <2>1
  <2> QED BY <2>2, <2>3, <2>4
<1>7. credit = Nothing
  <2>1. Only(r.campaign, 0) = Nothing
    BY DEF Only, Nothing
  <2>2. \A c \in Campaigns : Plus(Nothing, Nothing)[c] = 0
    BY DEF Plus, Nothing
  <2>3. Plus(Nothing, Nothing) = Nothing
    BY <2>2 DEF Plus, Nothing
  <2> HIDE DEF values
  <2> QED BY <1>5, <2>1, <2>3
<1> HIDE DEF given, values, credit
<1> QED BY <1>1, <1>5, <1>6, <1>7 DEF Ungiven

\* Offers that give nothing leave the lines, and credit nobody.
LEMMA NothingGives ==
  ASSUME shop \in Shops, NEW lines \in Seq(Lines),
         NEW bundles \in {shop.bundles, <<>>}, NEW combine,
         \A i \in DOMAIN RulesUsed(bundles, combine) :
           GivesNothing(lines, RulesUsed(bundles, combine)[i])
  PROVE  EvaluateBundles(lines, bundles, combine) = Ungiven(lines)
<1> DEFINE rules == RulesUsed(bundles, combine)
           n == Len(rules)
           Y == {Ungiven(lines)}
<1>1. /\ EvaluateBundles(lines, bundles, combine) = FoldLeft(ApplyBundle, Ungiven(lines), rules)
      /\ n \in Nat /\ DOMAIN rules = 1 .. n
      /\ \A i \in 1 .. n : Offer(rules[i])
  BY BundlesAre
<1>2. \A i \in 1 .. n : Bundle(rules[i]) /\ GivesNothing(lines, rules[i])
  BY <1>1 DEF Offer
<1> HIDE DEF rules, n
<1>3. \A y \in Y, i \in 1 .. n : ApplyBundle(y, rules[i]) \in Y
  BY <1>2, ApplyNothing
<1>4. Ungiven(lines) \in Y
  OBVIOUS
<1> HIDE DEF Y
<1>5. FoldLeft(ApplyBundle, Ungiven(lines), rules) \in Y
  BY <1>1, <1>3, <1>4, FoldBundles
<1> QED BY <1>1, <1>5 DEF Y

\* What an offer makes of lines, line by line.
LEMMA AppliedLines ==
  ASSUME NEW base, NEW y \in Gifts(base), NEW r, Offer(r)
  PROVE  LET z == ApplyBundle(y, r)
         IN /\ y.lines \in Seq(Lines) /\ z \in Gifts(base)
            /\ DOMAIN z.lines = DOMAIN y.lines
            /\ \A i \in DOMAIN y.lines :
                 /\ FreeTicks(y.lines, r)[i] \in Nat
                 /\ z.lines[i] = GivenLine(y.lines[i], r, FreeTicks(y.lines, r)[i])
                 /\ r.scope = "cross" /\ y.lines[i].product # r.rewarded =>
                      FreeTicks(y.lines, r)[i] = 0
<1>1. y.lines \in Seq(Lines) /\ ApplyBundle(y, r) \in Gifts(base)
  BY ApplyBundleIs DEF Gifts
<1>2. Bundle(r)
  BY DEF Offer
<1>3. \A i \in DOMAIN y.lines : FreeTicks(y.lines, r)[i] \in Nat
  BY <1>1, <1>2, FreeTicksIs
<1>4. r.scope = "cross" => \A i \in DOMAIN y.lines : y.lines[i].product # r.rewarded =>
        FreeTicks(y.lines, r)[i] = 0
  BY <1>1, <1>2, FreeCross
<1>5. ApplyBundle(y, r).lines = [i \in DOMAIN y.lines |-> GivenLine(y.lines[i], r, FreeTicks(y.lines, r)[i])]
  BY DEF ApplyBundle, GivenLine
<1> QED BY <1>1, <1>3, <1>4, <1>5

\* A line keeps its product and its price.
LEMMA GivenLineHas ==
  ASSUME NEW line \in Lines, NEW r, NEW t \in Nat
  PROVE  LET given == GivenLine(line, r, t)
         IN /\ given.product = line.product /\ given.unit = line.unit
            /\ given.free = line.free + t
            /\ given.paid = (IF r.scope = "cross" THEN line.paid - t ELSE line.paid)
<1> DEFINE Rows == [product : Products, category : {shop.shelf[p].category : p \in Products},
                    unit : Nat, paid : Nat, free : Nat, campaigns : SUBSET Campaigns, sale : Nat]
           paid == IF r.scope = "cross" THEN line.paid - t ELSE line.paid
           free == line.free + t
<1>1. line \in Rows
  BY DEF Lines
<1>2. GivenLine(line, r, t) = [line EXCEPT !.free = free, !.paid = paid]
  BY DEF GivenLine
<1> HIDE DEF paid, free
<1>3. LET given == [line EXCEPT !.free = free, !.paid = paid]
      IN /\ given.product = line.product /\ given.unit = line.unit
         /\ given.free = free /\ given.paid = paid
  BY <1>1
<1> QED BY <1>2, <1>3 DEF paid, free

\* Where nothing is free in the end, no offer gave anything.
LEMMA NoneGave ==
  ASSUME shop \in Shops, NEW lines \in Seq(Lines), \A i \in DOMAIN lines : lines[i].free = 0,
         NEW bundles \in {shop.bundles, <<>>}, NEW combine,
         \A i \in DOMAIN lines : EvaluateBundles(lines, bundles, combine).lines[i].free = 0
  PROVE  \A i \in DOMAIN RulesUsed(bundles, combine) :
           GivesNothing(lines, RulesUsed(bundles, combine)[i])
<1> DEFINE rules == RulesUsed(bundles, combine)
           n == Len(rules)
           S == 1 .. n
           Y == Gifts(lines)
           base == Ungiven(lines)
<1>1. /\ EvaluateBundles(lines, bundles, combine) = FoldLeft(ApplyBundle, base, rules)
      /\ n \in Nat /\ DOMAIN rules = 1 .. n
      /\ \A i \in 1 .. n : Offer(rules[i])
  BY BundlesAre
<1>2. base \in Y
  BY UngivenIs
<1>12. base.lines = lines
  BY DEF Ungiven
<1>3. \A y \in Y, i \in 1 .. n : ApplyBundle(y, rules[i]) \in Y
  BY <1>1, ApplyBundleIs
<1> HIDE DEF rules, n, Y, base
<1>4. PICK it : FoldLeft(ApplyBundle, base, rules) = it[1 .. n] /\ Gives(it, base, rules, n)
  BY <1>1, <1>2, <1>3, BundlesFold
<1> DEFINE some(y) == \E i \in DOMAIN lines : y.lines[i].free # 0
           none(T) == \A i \in T : GivesNothing(lines, rules[i])
           Good == {T \in SUBSET S : it[T] \in Y /\ (some(it[T]) \/ (it[T] = base /\ none(T)))}
<1>5. {} \in Good
  BY <1>2, <1>4 DEF Gives
<1>6. ASSUME NEW T \in SUBSET S, T # {}, \A x \in T : T \ {x} \in Good PROVE T \in Good
  <2> DEFINE x == Max(T)
             y == it[T \ {x}]
             z == it[T]
  <2>1. x \in T /\ z = ApplyBundle(y, rules[x])
    BY <1>4, <1>6 DEF Gives
  <2>2. y \in Y /\ (some(y) \/ (y = base /\ none(T \ {x})))
    BY <1>6, <2>1
  <2>3. Offer(rules[x]) /\ Bundle(rules[x])
    BY <1>1, <2>1 DEF Offer
  <2> HIDE DEF x, y, z
  <2>4. /\ y.lines \in Seq(Lines) /\ z \in Y
        /\ \A i \in DOMAIN y.lines :
             /\ FreeTicks(y.lines, rules[x])[i] \in Nat
             /\ z.lines[i] = GivenLine(y.lines[i], rules[x], FreeTicks(y.lines, rules[x])[i])
    BY <2>1, <2>2, <2>3, AppliedLines DEF Y
  <2>5. DOMAIN y.lines = DOMAIN lines
    BY <2>2 DEF Y, Gifts, Alike
  <2>6. \A i \in DOMAIN lines : y.lines[i].free \in Nat /\
          z.lines[i].free = y.lines[i].free + FreeTicks(y.lines, rules[x])[i]
    <3> TAKE i \in DOMAIN lines
    <3>1. y.lines[i] \in Lines /\ y.lines[i].free \in Nat
      BY <2>4, <2>5, LineFacts
    <3> QED BY <2>4, <2>5, <3>1, GivenLineHas
  <2>7. CASE some(y)
    <3>1. some(z)
      BY <2>4, <2>5, <2>6, <2>7
    <3> QED BY <2>4, <3>1 DEF z
  <2>8. CASE y = base /\ none(T \ {x})
    <3>1. y.lines = lines
      BY <1>12, <2>8
    <3>2. CASE GivesNothing(lines, rules[x])
      <4>1. z = base
        BY <2>1, <2>3, <2>8, <3>2, ApplyNothing DEF base
      <4>2. none(T)
        BY <2>1, <2>8, <3>2
      <4> QED BY <2>4, <4>1, <4>2 DEF z
    <3>3. CASE ~GivesNothing(lines, rules[x])
      <4>1. PICK i \in DOMAIN lines : FreeTicks(lines, rules[x])[i] # 0
        BY <3>3 DEF GivesNothing
      <4>2. z.lines[i].free # 0
        BY <2>4, <2>6, <3>1, <4>1
      <4>3. some(z)
        BY <4>2
      <4> QED BY <2>4, <4>3 DEF z
    <3> QED BY <3>2, <3>3
  <2> QED BY <2>2, <2>7, <2>8
<1>7. \A T \in SUBSET S : T # {} /\ (\A x \in T : T \ {x} \in Good) => T \in Good
  BY <1>6
<1>8. IsFiniteSet(S)
  BY <1>1, FS_Interval
<1>9. S \in Good
  <2> HIDE DEF Good, S
  <2> QED BY <1>5, <1>7, <1>8, SubsetInduction
<1>10. ~some(it[S])
  BY <1>1, <1>4
<1>11. \A i \in S : GivesNothing(lines, rules[i])
  <2> HIDE DEF some
  <2> QED BY <1>9, <1>10
<1> QED BY <1>1, <1>11 DEF rules

\* Without anything free, bundles leave the lines of both orders as they are.
LEMMA NothingGiven ==
  ASSUME shop \in Shops, NEW s \in Seq(Lines), NEW t \in Seq(Lines), NEW f, Reorders(f, s, t),
         \A i \in DOMAIN s : s[i].free = 0,
         NEW bundles \in {shop.bundles, <<>>}, NEW combine,
         \A i \in DOMAIN s : EvaluateBundles(s, bundles, combine).lines[i].free = 0
  PROVE  /\ EvaluateBundles(s, bundles, combine) = Ungiven(s)
         /\ EvaluateBundles(t, bundles, combine) = Ungiven(t)
<1> DEFINE rules == RulesUsed(bundles, combine)
<1>1. \A i \in DOMAIN rules : GivesNothing(s, rules[i])
  BY NoneGave
<1>2. \A i \in DOMAIN rules : Bundle(rules[i])
  BY BundlesAre DEF Offer
<1> HIDE DEF rules
<1>3. \A i \in DOMAIN rules : GivesNothing(t, rules[i])
  BY <1>1, <1>2, NothingAgrees
<1> QED BY <1>1, <1>3, NothingGives DEF rules

\* Lines with what bundles gave: no unit is lost, and only rewards of offers
\* across products are taken from what is paid for.
Grown(lines, base) ==
  /\ DOMAIN lines = DOMAIN base
  /\ \A i \in DOMAIN base :
       /\ lines[i].product = base[i].product /\ lines[i].unit = base[i].unit
       /\ lines[i].paid + lines[i].free >= base[i].paid + base[i].free
       /\ Rewarded(base[i].product) \/ lines[i].paid = base[i].paid

\* Bundles make such lines of the quoted ones.
LEMMA BundlesGrow ==
  ASSUME shop \in Shops, NEW lines \in Seq(Lines), \A i \in DOMAIN lines : lines[i].free = 0,
         NEW bundles \in {shop.bundles, <<>>}, NEW combine
  PROVE  Grown(EvaluateBundles(lines, bundles, combine).lines, lines)
<1> DEFINE rules == RulesUsed(bundles, combine)
           n == Len(rules)
           base == Ungiven(lines)
           Y == {y \in Gifts(lines) : Grown(y.lines, lines)}
<1>1. /\ EvaluateBundles(lines, bundles, combine) = FoldLeft(ApplyBundle, base, rules)
      /\ n \in Nat /\ DOMAIN rules = 1 .. n
      /\ \A i \in 1 .. n : rules[i] \in ToSet(shop.bundles) /\ Offer(rules[i])
  BY BundlesAre
<1>2. base \in Y
  <2>1. base.lines = lines /\ base \in Gifts(lines)
    BY UngivenIs DEF Ungiven
  <2>2. Grown(lines, lines)
    <3>1. \A i \in DOMAIN lines : lines[i].paid \in Nat /\ lines[i].free \in Nat
      BY LineFacts
    <3> QED BY <3>1 DEF Grown
  <2> QED BY <2>1, <2>2
<1>3. ASSUME NEW y \in Y, NEW r \in ToSet(shop.bundles), Offer(r) PROVE ApplyBundle(y, r) \in Y
  <2> DEFINE z == ApplyBundle(y, r)
  <2>1. y \in Gifts(lines) /\ Grown(y.lines, lines)
    OBVIOUS
  <2>2. /\ y.lines \in Seq(Lines) /\ z \in Gifts(lines)
        /\ DOMAIN z.lines = DOMAIN y.lines
        /\ \A i \in DOMAIN y.lines :
             /\ FreeTicks(y.lines, r)[i] \in Nat
             /\ z.lines[i] = GivenLine(y.lines[i], r, FreeTicks(y.lines, r)[i])
             /\ r.scope = "cross" /\ y.lines[i].product # r.rewarded =>
                  FreeTicks(y.lines, r)[i] = 0
    BY <1>3, <2>1, AppliedLines
  <2> HIDE DEF z, Y
  <2>3. ASSUME NEW i \in DOMAIN lines
        PROVE  /\ z.lines[i].product = lines[i].product /\ z.lines[i].unit = lines[i].unit
               /\ z.lines[i].paid + z.lines[i].free >= lines[i].paid + lines[i].free
               /\ Rewarded(lines[i].product) \/ z.lines[i].paid = lines[i].paid
    <3> DEFINE t == FreeTicks(y.lines, r)[i]
               l == y.lines[i]
               g == z.lines[i]
    <3>1. i \in DOMAIN y.lines /\ l.product = lines[i].product /\ l.unit = lines[i].unit
          /\ l.paid + l.free >= lines[i].paid + lines[i].free
          /\ (Rewarded(lines[i].product) \/ l.paid = lines[i].paid)
      BY <2>1 DEF Grown
    <3>2. t \in Nat /\ g = GivenLine(l, r, t)
          /\ (r.scope = "cross" /\ l.product # r.rewarded => t = 0)
      BY <2>2, <3>1
    <3>3. l \in Lines /\ l.paid \in Nat /\ l.free \in Nat
          /\ lines[i].paid \in Nat /\ lines[i].free \in Nat
      BY <2>2, <3>1, LineFacts
    <3> HIDE DEF t, l, g
    <3>4. g.product = l.product /\ g.unit = l.unit /\ g.free = l.free + t
          /\ g.paid = (IF r.scope = "cross" THEN l.paid - t ELSE l.paid)
      BY <3>2, <3>3, GivenLineHas
    <3>5. g.paid + g.free >= l.paid + l.free
      BY <3>2, <3>3, <3>4
    <3>6. Rewarded(l.product) \/ g.paid = l.paid
      <4>1. CASE r.scope = "cross" /\ l.product = r.rewarded
        BY <4>1 DEF Rewarded
      <4>2. CASE ~(r.scope = "cross" /\ l.product = r.rewarded)
        BY <3>2, <3>3, <3>4, <4>2
      <4> QED BY <4>1, <4>2
    <3>7. g.paid \in Int /\ g.free \in Int
      BY <3>2, <3>3, <3>4
    <3> QED BY <3>1, <3>3, <3>4, <3>5, <3>6, <3>7 DEF g
  <2>4. DOMAIN z.lines = DOMAIN lines
    BY <2>1, <2>2 DEF Grown
  <2>5. Grown(z.lines, lines)
    BY <2>3, <2>4 DEF Grown
  <2> QED BY <2>2, <2>5 DEF Y, z
<1> HIDE DEF Y, rules, n, base
<1>4. \A y \in Y, i \in 1 .. n : ApplyBundle(y, rules[i]) \in Y
  BY <1>1, <1>3
<1>5. FoldLeft(ApplyBundle, base, rules) \in Y
  BY <1>1, <1>2, <1>4, FoldBundles
<1> QED BY <1>1, <1>5 DEF Y

-----------------------------------------------------------------------------
(* What is taken off, in either order of the lines.                         *)

\* What rules take off does not depend on the order of the lines.
LEMMA DiscountsAgree ==
  ASSUME NEW a, Entries(a), NEW b, Entries(b), NEW f, Reorders(f, a, b)
  PROVE  /\ CartTotal(b) = CartTotal(a)
         /\ \A r, subtotal : RuleDiscount(r, subtotal, b) = RuleDiscount(r, subtotal, a)
         /\ \A rules, subtotal : RulesDiscount(rules, subtotal, b) = RulesDiscount(rules, subtotal, a)
<1>1. IsFiniteSet(DOMAIN a) /\ \A i \in DOMAIN a : a[i].amount \in Nat
  BY DEF Entries
<1>2. \A i \in DOMAIN a : f[i] \in DOMAIN b /\ b[f[i]] = a[i]
  BY DEF Reorders
<1>3. CartTotal(b) = CartTotal(a)
  <2> DEFINE g == [i \in DOMAIN a |-> a[i].amount]
             h == [i \in DOMAIN b |-> b[i].amount]
  <2>1. DOMAIN g = DOMAIN a /\ DOMAIN h = DOMAIN b
        /\ \A i \in DOMAIN a : g[i] \in Int /\ h[f[i]] = g[i]
    BY <1>1, <1>2
  <2> HIDE DEF g, h
  <2>2. SumFunction(h) = SumFunction(g)
    BY <1>1, <2>1, SumsAgree
  <2> QED BY <2>2 DEF CartTotal, g, h
<1>4. ASSUME NEW r, NEW subtotal
      PROVE  RuleDiscount(r, subtotal, b) = RuleDiscount(r, subtotal, a)
  <2> DEFINE part(l) == [i \in DOMAIN l |-> IF MatchesCategory(l[i].category, r.category)
                                            THEN l[i].amount ELSE 0]
             capped(d) == IF Given(r.cap) THEN Least(d, r.cap) ELSE d
             percentOf(base) == capped(RoundDiv(base * r.bps, 10000))
             reached == r.kind \in Conditional => subtotal >= r.threshold
             made(sum) == CASE r.kind \in CartPercent /\ reached /\ r.bps \in 0 .. 10000 ->
                                 percentOf(subtotal)
                            [] r.kind \in CartFixed /\ reached /\ Given(r.amount) ->
                                 capped(Least(r.amount, subtotal))
                            [] r.kind = "category_percent_off" /\ r.bps \in 0 .. 10000 ->
                                 percentOf(sum)
                            [] OTHER -> 0
             g == part(a)
             h == part(b)
  <2>1. DOMAIN g = DOMAIN a /\ DOMAIN h = DOMAIN b
        /\ \A i \in DOMAIN a : g[i] \in Int /\ h[f[i]] = g[i]
    BY <1>1, <1>2
  <2>2. RuleDiscount(r, subtotal, a) = made(SumFunction(g))
        /\ RuleDiscount(r, subtotal, b) = made(SumFunction(h))
    BY DEF RuleDiscount
  <2> HIDE DEF g, h, made
  <2>3. SumFunction(h) = SumFunction(g)
    BY <1>1, <2>1, SumsAgree
  <2> QED BY <2>2, <2>3
<1>5. ASSUME NEW rules, NEW subtotal
      PROVE  RulesDiscount(rules, subtotal, b) = RulesDiscount(rules, subtotal, a)
  <2> DEFINE g == [i \in DOMAIN rules |-> RuleDiscount(rules[i], subtotal, a)]
             h == [i \in DOMAIN rules |-> RuleDiscount(rules[i], subtotal, b)]
  <2>1. g = h
    BY <1>4
  <2> HIDE DEF g, h
  <2> QED BY <2>1 DEF RulesDiscount, g, h
<1> QED BY <1>3, <1>4, <1>5

\* The amounts of reordered lines are reordered.
LEMMA AmountsReordered ==
  ASSUME NEW s \in Seq(Lines), NEW t \in Seq(Lines), NEW f, Reorders(f, s, t)
  PROVE  Reorders(f, Amounts(s), Amounts(t)) /\ Entries(Amounts(s)) /\ Entries(Amounts(t))
<1>1. \A i \in DOMAIN s : f[i] \in DOMAIN t /\ t[f[i]] = s[i]
  BY DEF Reorders
<1>2. DOMAIN Amounts(s) = DOMAIN s /\ DOMAIN Amounts(t) = DOMAIN t
      /\ \A i \in DOMAIN s : Amounts(t)[f[i]] = Amounts(s)[i]
  BY <1>1 DEF Amounts
<1> QED BY <1>2, AmountsIs DEF Reorders

\* So who competes, and with how much, is the same.
LEMMA WinnersSame ==
  ASSUME NEW a, NEW b, CartTotal(b) = CartTotal(a),
         \A rules, subtotal : RulesDiscount(rules, subtotal, b) = RulesDiscount(rules, subtotal, a),
         NEW rules, NEW combine, NEW fromRedis
  PROVE  Winners(rules, b, combine, fromRedis) = Winners(rules, a, combine, fromRedis)
<1>1. ASSUME NEW subtotal
      PROVE  Scored(rules, subtotal, b, fromRedis) = Scored(rules, subtotal, a, fromRedis)
  <2> DEFINE rowsOf(c) == {i \in DOMAIN rules : rules[i].campaign = c}
             discount(l, c) == RulesDiscount(Those(rules, rowsOf(c)), subtotal, l)
             gives(l, i) == /\ \A j \in 1 .. i - 1 : rules[j].campaign # rules[i].campaign
                            /\ discount(l, rules[i].campaign) > 0
             places(l) == {i \in DOMAIN rules : gives(l, i)}
             firsts(l) == Those(rules, places(l))
             made(l) == [n \in DOMAIN firsts(l) |->
                           Strength(firsts(l)[n], fromRedis, discount(l, firsts(l)[n].campaign))]
  <2>1. Scored(rules, subtotal, a, fromRedis) = made(a)
        /\ Scored(rules, subtotal, b, fromRedis) = made(b)
    BY DEF Scored
  <2>2. \A c : discount(a, c) = discount(b, c)
    OBVIOUS
  <2>3. places(a) = places(b)
    <3> HIDE DEF discount
    <3> QED BY <2>2
  <2>4. firsts(a) = firsts(b)
    <3> HIDE DEF places
    <3> QED BY <2>3
  <2>5. made(a) = made(b)
    <3> HIDE DEF firsts, discount
    <3> QED BY <2>2, <2>4
  <2> HIDE DEF made
  <2> QED BY <2>1, <2>5
<1> QED BY <1>1, Zenon DEF Winners

\* Winners that take off the same.
SameTakes(v, w) ==
  \E n \in Nat :
    /\ DOMAIN v = 1 .. n /\ DOMAIN w = 1 .. n /\ Len(v) = n /\ Len(w) = n
    /\ \A i \in 1 .. n : /\ v[i].campaign = w[i].campaign
                         /\ v[i].discount = w[i].discount
                         /\ v[i].priority = w[i].priority

\* From Redis or not, the scores are the same but for their times.
LEMMA ScoredAlike ==
  ASSUME NEW R, \A r \in R : CartRule(r), NEW rules \in Seq(R),
         NEW subtotal \in Nat, NEW lines, Entries(lines), NEW x, NEW y
  PROVE  SameTakes(Scored(rules, subtotal, lines, x), Scored(rules, subtotal, lines, y))
<1> DEFINE rowsOf(c) == {i \in DOMAIN rules : rules[i].campaign = c}
           discount(c) == RulesDiscount(Those(rules, rowsOf(c)), subtotal, lines)
           gives(i) == /\ \A j \in 1 .. i - 1 : rules[j].campaign # rules[i].campaign
                       /\ discount(rules[i].campaign) > 0
           firsts == Those(rules, {i \in DOMAIN rules : gives(i)})
           v == Scored(rules, subtotal, lines, x)
           w == Scored(rules, subtotal, lines, y)
<1>1. /\ v = [m \in DOMAIN firsts |-> Strength(firsts[m], x, discount(firsts[m].campaign))]
      /\ w = [m \in DOMAIN firsts |-> Strength(firsts[m], y, discount(firsts[m].campaign))]
  BY DEF Scored
<1>2. /\ \E n \in Nat : DOMAIN v = 1 .. n /\ Len(v) = n
      /\ \E n \in Nat : DOMAIN w = 1 .. n /\ Len(w) = n
  BY ScoredWin DEF AllWin
<1> HIDE DEF firsts, discount, v, w
<1>3. DOMAIN v = DOMAIN firsts /\ DOMAIN w = DOMAIN firsts
      /\ \A i \in DOMAIN v : /\ v[i].campaign = w[i].campaign
                             /\ v[i].discount = w[i].discount
                             /\ v[i].priority = w[i].priority
  BY <1>1 DEF Strength
<1>4. PICK n \in Nat : DOMAIN v = 1 .. n /\ Len(v) = n
  BY <1>2
<1>5. PICK m \in Nat : DOMAIN w = 1 .. m /\ Len(w) = m
  BY <1>2
<1>6. m = n
  <2>1. 1 .. m = 1 .. n
    BY <1>3, <1>4, <1>5
  <2> QED BY <2>1
<1>7. SameTakes(v, w)
  BY <1>3, <1>4, <1>5, <1>6 DEF SameTakes
<1> QED BY <1>7 DEF v, w

\* Scores of different campaigns.
ApartIn(w) == \A i, j \in DOMAIN w : i # j => w[i].priority # w[j].priority

\* Each campaign is scored once, and where none may tie they are apart.
LEMMA ScoredApart ==
  ASSUME shop \in Shops, ~TieBreak, ~shop.combine, NEW rules \in Seq(ToSet(shop.autos)),
         NEW subtotal, NEW lines, NEW x
  PROVE  ApartIn(Scored(rules, subtotal, lines, x))
<1> DEFINE rowsOf(c) == {i \in DOMAIN rules : rules[i].campaign = c}
           discount(c) == RulesDiscount(Those(rules, rowsOf(c)), subtotal, lines)
           gives(i) == /\ \A j \in 1 .. i - 1 : rules[j].campaign # rules[i].campaign
                       /\ discount(rules[i].campaign) > 0
           places == {i \in DOMAIN rules : gives(i)}
           firsts == Those(rules, places)
           n == Len(rules)
           w == Scored(rules, subtotal, lines, x)
<1>1. w = [m \in DOMAIN firsts |-> Strength(firsts[m], x, discount(firsts[m].campaign))]
  BY DEF Scored
<1>2. n \in Nat /\ DOMAIN rules = 1 .. n /\ \A i \in 1 .. n : rules[i] \in ToSet(shop.autos)
  BY Places
<1>3. \A i \in places, j \in 1 .. n : j < i => rules[j].campaign # rules[i].campaign
  <2> SUFFICES ASSUME NEW i \in places, NEW j \in 1 .. n, j < i
               PROVE  rules[j].campaign # rules[i].campaign
    OBVIOUS
  <2>1. i \in 1 .. n /\ \A k \in 1 .. i - 1 : rules[k].campaign # rules[i].campaign
    BY <1>2
  <2>2. j \in 1 .. i - 1
    BY <2>1
  <2> QED BY <2>1, <2>2
<1> HIDE DEF places, w, discount, n
<1>4. PICK e : KeptFrom(firsts, e, rules, n, places)
  BY <1>2, ThosePlaces
<1> HIDE DEF firsts
<1>5. PICK m \in Nat :
        /\ DOMAIN firsts = 1 .. m /\ Len(firsts) = m
        /\ \A a \in 1 .. m : e[a] \in 1 .. n /\ e[a] \in places /\ firsts[a] = rules[e[a]]
        /\ \A a, b \in 1 .. m : e[a] = e[b] => a = b
  BY <1>4 DEF KeptFrom
<1>6. \A r, s \in ToSet(shop.autos) : r.campaign # s.campaign => Priority(r) # Priority(s)
  BY DEF TieBreak
<1>7. ASSUME NEW a \in 1 .. m, NEW b \in 1 .. m, a # b
      PROVE  w[a].priority # w[b].priority
  <2>1. /\ e[a] \in 1 .. n /\ e[a] \in places /\ firsts[a] = rules[e[a]]
        /\ e[b] \in 1 .. n /\ e[b] \in places /\ firsts[b] = rules[e[b]]
        /\ e[a] # e[b]
    BY <1>5, <1>7
  <2>2. e[a] < e[b] \/ e[b] < e[a]
    BY <1>2, <2>1
  <2>3. firsts[a].campaign # firsts[b].campaign
    BY <1>3, <2>1, <2>2
  <2>4. firsts[a] \in ToSet(shop.autos) /\ firsts[b] \in ToSet(shop.autos)
    BY <1>2, <2>1
  <2>5. w[a].priority = Priority(firsts[a]) /\ w[b].priority = Priority(firsts[b])
    BY <1>1, <1>5 DEF Strength
  <2> QED BY <1>6, <2>3, <2>4, <2>5
<1>8. DOMAIN w = 1 .. m
  BY <1>1, <1>5
<1> QED BY <1>7, <1>8 DEF ApartIn, w

\* The strongest is known by its priority.
LEMMA StrongestIs ==
  ASSUME NEW w, NEW n \in Nat, DOMAIN w = 1 .. n, Len(w) = n, n # 0, ApartIn(w),
         \A i \in 1 .. n : w[i].priority \in Int /\ w[i].created \in Int
  PROVE  \E i \in 1 .. n : /\ Strongest(w) = <<w[i]>>
                           /\ \A j \in 1 .. n : j # i => w[i].priority < w[j].priority
<1> DEFINE S == 1 .. n
           before(i, j) ==
             \/ w[i].priority < w[j].priority
             \/ /\ w[i].priority = w[j].priority
                /\ \/ w[i].created > w[j].created
                   \/ w[i].created = w[j].created /\ i < j
           first == CHOOSE i \in DOMAIN w : \A j \in DOMAIN w \ {i} : before(i, j)
           R == {p \in S \X S : w[p[1]].priority < w[p[2]].priority}
<1>1. IsFiniteSet(S) /\ S # {}
  <2>1. 1 \in S
    OBVIOUS
  <2>2. 1 \in Int /\ n \in Int
    OBVIOUS
  <2>3. IsFiniteSet(1 .. n)
    BY <2>2, FS_Interval, Zenon
  <2> QED BY <2>1, <2>3
<1>2. \A i, j \in S : i # j => w[i].priority # w[j].priority
  BY DEF ApartIn
<1>3. \A i, j \in S : <<i, j>> \in R <=> w[i].priority < w[j].priority
  OBVIOUS
<1>9. \A i \in S : w[i].priority \in Int
  OBVIOUS
<1> HIDE DEF R
<1>4. \E i \in S : \A j \in S \ {i} : <<i, j>> \in R
  <2> HIDE DEF S
  <2>1. \A i, j \in S : i # j => <<i, j>> \in R \/ <<j, i>> \in R
    BY <1>2, <1>3, <1>9
  <2>2. \A i, j, k \in S : <<i, j>> \in R /\ <<j, k>> \in R => <<i, k>> \in R
    BY <1>3, <1>9
  <2> QED BY <1>1, <2>1, <2>2, LeastExists
<1>5. \E i \in DOMAIN w : \A j \in DOMAIN w \ {i} : before(i, j)
  BY <1>3, <1>4
<1>6. first \in S /\ \A j \in S \ {first} : before(first, j)
  <2> HIDE DEF before
  <2> QED BY <1>5
<1>7. \A j \in S : j # first => w[first].priority < w[j].priority
  <2> HIDE DEF first
  <2> QED BY <1>2, <1>6
<1>8. Strongest(w) = <<w[first]>>
  <2>1. w # <<>>
    OBVIOUS
  <2> QED BY <2>1 DEF Strongest, before
<1> HIDE DEF first
<1> QED BY <1>6, <1>7, <1>8

\* The strongest of winners that take off the same take off the same.
LEMMA StrongestAlike ==
  ASSUME NEW v, NEW w, SameTakes(v, w), ApartIn(v), ApartIn(w),
         \A i \in DOMAIN v : v[i].priority \in Int /\ v[i].created \in Int,
         \A i \in DOMAIN w : w[i].priority \in Int /\ w[i].created \in Int
  PROVE  SameTakes(Strongest(v), Strongest(w))
<1>1. PICK n \in Nat :
        /\ DOMAIN v = 1 .. n /\ DOMAIN w = 1 .. n /\ Len(v) = n /\ Len(w) = n
        /\ \A i \in 1 .. n : /\ v[i].campaign = w[i].campaign
                             /\ v[i].discount = w[i].discount
                             /\ v[i].priority = w[i].priority
  BY DEF SameTakes
<1>2. CASE n = 0
  <2>1. v = <<>> /\ w = <<>>
    BY <1>1, <1>2
  <2>2. Strongest(v) = v /\ Strongest(w) = w
    BY <2>1 DEF Strongest
  <2> QED BY <2>2
<1>3. CASE n # 0
  <2>1. PICK i \in 1 .. n : /\ Strongest(v) = <<v[i]>>
                            /\ \A j \in 1 .. n : j # i => v[i].priority < v[j].priority
    BY <1>1, <1>3, StrongestIs
  <2>2. PICK k \in 1 .. n : /\ Strongest(w) = <<w[k]>>
                            /\ \A j \in 1 .. n : j # k => w[k].priority < w[j].priority
    BY <1>1, <1>3, StrongestIs
  <2>3. i = k
    <3> SUFFICES ASSUME i # k PROVE FALSE
      OBVIOUS
    <3>1. v[i].priority < v[k].priority /\ w[k].priority < w[i].priority
      BY <2>1, <2>2
    <3>2. v[i].priority \in Int /\ v[k].priority \in Int
      BY <1>1
    <3>3. w[i].priority = v[i].priority /\ w[k].priority = v[k].priority
      BY <1>1
    <3> QED BY <3>1, <3>2, <3>3
  <2> DEFINE a == Strongest(v)
             b == Strongest(w)
  <2>4. /\ DOMAIN a = 1 .. 1 /\ Len(a) = 1 /\ a[1] = v[i]
        /\ DOMAIN b = 1 .. 1 /\ Len(b) = 1 /\ b[1] = w[i]
    BY <2>1, <2>2, <2>3
  <2> HIDE DEF a, b
  <2>5. \A j \in 1 .. 1 : j = 1
    OBVIOUS
  <2>6. \A j \in 1 .. 1 : /\ a[j].campaign = b[j].campaign
                          /\ a[j].discount = b[j].discount
                          /\ a[j].priority = b[j].priority
    BY <1>1, <2>4, <2>5
  <2>7. SameTakes(a, b)
    BY <2>4, <2>6 DEF SameTakes
  <2> QED BY <2>7 DEF a, b
<1> QED BY <1>2, <1>3

\* Where none may tie, the winners take off the same, wherever their rows
\* came from.
LEMMA WinnersAlike ==
  ASSUME shop \in Shops, ~TieBreak, NEW rules \in Seq(ToSet(shop.autos)),
         NEW lines, Entries(lines), NEW x, NEW y
  PROVE  SameTakes(Winners(rules, lines, shop.combine, x), Winners(rules, lines, shop.combine, y))
<1> DEFINE total == CartTotal(lines)
           v == Scored(rules, total, lines, x)
           w == Scored(rules, total, lines, y)
           R == ToSet(shop.autos)
<1>1. total \in Nat
  BY CartTotalType
<1>2. \A r \in R : CartRule(r)
  BY ShopsAssumption
<1> HIDE DEF total
<1>3. SameTakes(v, w)
  <2> HIDE DEF v, w, R
  <2> SUFFICES SameTakes(Scored(rules, total, lines, x), Scored(rules, total, lines, y))
    BY DEF v, w
  <2> QED BY <1>1, <1>2, ScoredAlike DEF R
<1>4. AllWin(v, rules, total, lines) /\ AllWin(w, rules, total, lines)
  <2> HIDE DEF R
  <2> QED BY <1>1, <1>2, ScoredWin DEF R
<1>5. SameTakes(<<>>, <<>>)
  <2>1. DOMAIN <<>> = 1 .. 0 /\ Len(<<>>) = 0 /\ \A i \in 1 .. 0 : FALSE
    OBVIOUS
  <2>2. 0 \in Nat
    OBVIOUS
  <2> QED BY <2>1, <2>2 DEF SameTakes
<1>6. ASSUME ~shop.combine PROVE SameTakes(Strongest(v), Strongest(w))
  <2>1. ApartIn(v) /\ ApartIn(w)
    BY <1>6, ScoredApart
  <2> HIDE DEF v, w
  <2>2. \A i \in DOMAIN v : v[i].priority \in Int /\ v[i].created \in Int
    BY <1>4 DEF AllWin, Winner
  <2>3. \A i \in DOMAIN w : w[i].priority \in Int /\ w[i].created \in Int
    BY <1>4 DEF AllWin, Winner
  <2> QED BY <1>3, <2>1, <2>2, <2>3, StrongestAlike
<1>7. Winners(rules, lines, shop.combine, x) =
        CASE total <= 0 -> <<>> [] total > 0 /\ shop.combine -> v [] OTHER -> Strongest(v)
  BY DEF Winners, total
<1>8. Winners(rules, lines, shop.combine, y) =
        CASE total <= 0 -> <<>> [] total > 0 /\ shop.combine -> w [] OTHER -> Strongest(w)
  BY DEF Winners, total
<1> HIDE DEF v, w
<1>9. CASE total <= 0
  <2>1. Winners(rules, lines, shop.combine, x) = <<>> /\ Winners(rules, lines, shop.combine, y) = <<>>
    BY <1>1, <1>7, <1>8, <1>9
  <2> QED BY <1>5, <2>1
<1>10. CASE total > 0 /\ shop.combine
  <2>1. Winners(rules, lines, shop.combine, x) = v /\ Winners(rules, lines, shop.combine, y) = w
    BY <1>1, <1>7, <1>8, <1>10
  <2> QED BY <1>3, <2>1
<1>11. CASE total > 0 /\ ~shop.combine
  <2>1. Winners(rules, lines, shop.combine, x) = Strongest(v)
        /\ Winners(rules, lines, shop.combine, y) = Strongest(w)
    BY <1>1, <1>7, <1>8, <1>11
  <2> QED BY <1>6, <1>11, <2>1
<1> QED BY <1>1, <1>9, <1>10, <1>11

\* What winners take off of lines.
Taking(lines, w) == Least(SumFunction(Discounts(w)), NonNegative(CartTotal(Amounts(lines))))

\* Winners that take off the same take it off in the same name.
LEMMA TakingAgrees ==
  ASSUME NEW v, NEW w, SameTakes(v, w)
  PROVE  Discounts(v) = Discounts(w) /\ CampaignsOf(v) = CampaignsOf(w)
<1>1. PICK n \in Nat :
        /\ DOMAIN v = 1 .. n /\ DOMAIN w = 1 .. n
        /\ \A i \in 1 .. n : v[i].campaign = w[i].campaign /\ v[i].discount = w[i].discount
  BY DEF SameTakes
<1>2. Discounts(v) = Discounts(w)
  BY <1>1 DEF Discounts
<1>3. CampaignsOf(v) = CampaignsOf(w)
  BY <1>1 DEF CampaignsOf
<1> QED BY <1>2, <1>3

\* The bill once automatic offers were taken off.
LEMMA WithOffersHas ==
  ASSUME NEW b, BillOK(b), NEW rules, NEW w
  PROVE  LET d == WithOffers(b, rules, w)
         IN /\ d.lines = b.lines /\ d.onSale = b.onSale /\ d.bundle = b.bundle
            /\ d.coupon = b.coupon /\ d.applied = b.applied
            /\ d.auto = Taking(b.lines, w)
            /\ d.afterAuto = NonNegative(CartTotal(Amounts(b.lines)) - d.auto)
            /\ d.remaining = d.afterAuto
            /\ d.campaigns = b.campaigns \cup CampaignsOf(w)
            /\ d.rejected = IF Bxgy(b) /\ CodesToTry # <<>>
                            THEN "COUPON_NOT_WITH_BUNDLE" ELSE b.rejected
<1> DEFINE e == EvaluateAutoCartRules(b, w)
           capped == Taking(b.lines, w)
           after == NonNegative(CartTotal(Amounts(b.lines)) - capped)
           total == SumFunction(Discounts(w))
           campaigns == b.campaigns \cup CampaignsOf(w)
           credit == [c \in Campaigns |-> b.credit[c] +
              SumFunction([i \in DOMAIN w |->
                IF w[i].campaign = c THEN Share(w, total, capped, i) ELSE 0])]
           lines == Amounts(b.lines)
           given == [k \in Campaigns |-> e.credit[k] - b.credit[k]]
           told == OffersTold(rules, given, CartTotal(lines), lines)
           ahead == OffersAhead(rules, given, CartTotal(lines), lines)
           rejected == IF Bxgy(b) /\ CodesToTry # <<>>
                       THEN "COUPON_NOT_WITH_BUNDLE" ELSE e.rejected
<1>1. e = [b EXCEPT !.auto = capped, !.afterAuto = after, !.remaining = after,
                    !.campaigns = campaigns, !.credit = credit]
  BY DEF EvaluateAutoCartRules, TakeOff, Taking, Discounts, CampaignsOf
<1>2. WithOffers(b, rules, w) =
        [e EXCEPT !.given = given, !.told = told, !.ahead = ahead, !.rejected = rejected]
  BY DEF WithOffers
<1>3. b \in [lines : {b.lines}, onSale : BOOLEAN, bundle : {b.bundle}, auto : {b.auto},
         afterAuto : Nat, coupon : Nat, remaining : Nat, campaigns : {b.campaigns},
         credit : {b.credit}, given : {b.given}, told : {b.told}, ahead : {b.ahead},
         applied : Seq(Codes), rejected : {b.rejected}]
  BY DEF BillOK
<1>7. rejected = IF Bxgy(b) /\ CodesToTry # <<>> THEN "COUPON_NOT_WITH_BUNDLE" ELSE e.rejected
  OBVIOUS
<1> HIDE DEF e, capped, after, campaigns, credit, lines, given, told, ahead, rejected
<1>4. /\ e.lines = b.lines /\ e.onSale = b.onSale /\ e.bundle = b.bundle
      /\ e.coupon = b.coupon /\ e.applied = b.applied /\ e.auto = capped
      /\ e.afterAuto = after /\ e.remaining = after /\ e.campaigns = campaigns
      /\ e.rejected = b.rejected
      /\ DOMAIN e = DOMAIN b
  BY <1>1, <1>3
<1>5. DOMAIN b = {"lines", "onSale", "bundle", "auto", "afterAuto", "coupon", "remaining",
                  "campaigns", "credit", "given", "told", "ahead", "applied", "rejected"}
  BY <1>3
<1> DEFINE d == [e EXCEPT !.given = given, !.told = told, !.ahead = ahead, !.rejected = rejected]
<1>6. /\ d.lines = e.lines /\ d.onSale = e.onSale /\ d.bundle = e.bundle
      /\ d.coupon = e.coupon /\ d.applied = e.applied /\ d.auto = e.auto
      /\ d.afterAuto = e.afterAuto /\ d.remaining = e.remaining /\ d.campaigns = e.campaigns
      /\ d.rejected = rejected
  BY <1>4, <1>5
<1> HIDE DEF d
<1> QED BY <1>2, <1>4, <1>6, <1>7 DEF d, capped, after, campaigns

-----------------------------------------------------------------------------
(* Two bills, and a code tried on both.                                     *)

\* What two calls for the same items find alike.
Agree(a, b) ==
  /\ a.onSale = b.onSale /\ a.campaigns = b.campaigns
  /\ a.auto = b.auto /\ a.afterAuto = b.afterAuto
  /\ a.coupon = b.coupon /\ a.remaining = b.remaining
  /\ a.applied = b.applied /\ a.rejected = b.rejected

\* The bill after a code was tried.
Tried(x, a, k, b) ==
  \/ RefusalOn(x, a, k) = "none" /\ b = Redeemed(a, k)
  \/ /\ RefusalOn(x, a, k) # "none"
     /\ b = [a EXCEPT !.rejected = IF @ = "none" THEN RefusalOn(x, a, k) ELSE @]

\* A code that was tried leaves the lines and what was taken off before it; a
\* reason, once given, stays, and the code is then not used.
GoesOn(a, k, b) ==
  /\ b.lines = a.lines /\ b.bundle = a.bundle /\ b.auto = a.auto
  /\ b.afterAuto = a.afterAuto /\ b.onSale = a.onSale
  /\ a.rejected # "none" => b.rejected = a.rejected
  /\ \/ b.applied = Append(a.applied, k) /\ b.rejected = a.rejected
     \/ b.applied = a.applied /\ b.rejected # "none"

\* The bill goes on like that.
LEMMA TriedKeeps ==
  ASSUME NEW x, NEW a, BillOK(a), NEW k \in Codes, NEW b, Tried(x, a, k, b)
  PROVE  GoesOn(a, k, b)
<1>1. CASE RefusalOn(x, a, k) = "none" /\ b = Redeemed(a, k)
  <2>1. PICK applied, coupon, remaining, campaigns, credit :
          /\ b = [a EXCEPT !.applied = applied, !.coupon = coupon, !.remaining = remaining,
                           !.campaigns = campaigns, !.credit = credit]
          /\ applied = Append(a.applied, k)
    BY <1>1, Zenon DEF Redeemed
  <2> QED BY <2>1 DEF BillOK, GoesOn
<1>2. CASE RefusalOn(x, a, k) # "none"
  <2>1. PICK reason : /\ b = [a EXCEPT !.rejected = reason] /\ reason # "none"
                      /\ a.rejected # "none" => reason = a.rejected
    BY <1>2, Zenon DEF Tried
  <2> QED BY <2>1 DEF BillOK, GoesOn
<1> QED BY <1>1, <1>2 DEF Tried

\* A coupon takes the same off both bills, if the lines are the same, or only
\* their sum counts for it, or all of it is left.
LEMMA CutsAgree ==
  ASSUME NEW a, NEW b, Agree(a, b), NEW k,
         a.lines \in Seq(Lines), b.lines \in Seq(Lines),
         NEW f, Reorders(f, a.lines, b.lines),
         \/ a.lines = b.lines
         \/ a.remaining = CartTotal(Amounts(a.lines))
         \/ \A r \in ToSet(shop.coupon[k].rules) : ~ForCategory(r)
  PROVE  CouponDiscount(a, k) = CouponDiscount(b, k)
<1> DEFINE s == a.lines
           t == b.lines
           left == a.remaining
           rules == shop.coupon[k].rules
<1>1. b.remaining = left
  BY DEF Agree
<1>2. /\ CouponDiscount(a, k) =
           Least(RulesDiscount(rules, left, ScaleLinesToPayable(Amounts(s), left)), left)
      /\ CouponDiscount(b, k) =
           Least(RulesDiscount(rules, left, ScaleLinesToPayable(Amounts(t), left)), left)
  BY <1>1 DEF CouponDiscount
<1>3. CASE s = t
  BY <1>2, <1>3
<1>4. CASE left = CartTotal(Amounts(s))
  <2> HIDE DEF s, t, left, rules
  <2>1. s \in Seq(Lines) /\ t \in Seq(Lines) /\ Reorders(f, s, t)
    BY DEF s, t
  <2>2. Entries(Amounts(s)) /\ Entries(Amounts(t)) /\ Reorders(f, Amounts(s), Amounts(t))
    BY <2>1, AmountsReordered
  <2>3. /\ CartTotal(Amounts(t)) = CartTotal(Amounts(s))
        /\ \A q, subtotal : RulesDiscount(q, subtotal, Amounts(t))
                              = RulesDiscount(q, subtotal, Amounts(s))
    BY <2>2, DiscountsAgree
  <2>4. CartTotal(Amounts(s)) \in Nat
    BY <2>2, CartTotalType
  <2>5. ScaleLinesToPayable(Amounts(s), left) = Amounts(s)
        /\ ScaleLinesToPayable(Amounts(t), left) = Amounts(t)
    BY <1>4, <2>3, <2>4 DEF ScaleLinesToPayable
  <2>6. RulesDiscount(rules, left, Amounts(t)) = RulesDiscount(rules, left, Amounts(s))
    BY <2>3
  <2> QED BY <1>2, <2>5, <2>6
<1>5. CASE \A r \in ToSet(rules) : ~ForCategory(r)
  <2> HIDE DEF s, t, left
  <2>1. ASSUME NEW i \in DOMAIN rules, NEW m, NEW l
        PROVE  RuleDiscount(rules[i], left, m) = RuleDiscount(rules[i], left, l)
    <3> DEFINE r == rules[i]
    <3>1. r.kind # "category_percent_off"
      BY <1>5, <2>1 DEF ToSet, ForCategory
    <3> HIDE DEF r
    <3>2. RuleDiscount(r, left, m) = RuleDiscount(r, left, l)
      BY <3>1 DEF RuleDiscount
    <3> QED BY <3>2 DEF r
  <2>2. ASSUME NEW m, NEW l
        PROVE  RulesDiscount(rules, left, m) = RulesDiscount(rules, left, l)
    <3> HIDE DEF rules
    <3>1. [i \in DOMAIN rules |-> RuleDiscount(rules[i], left, m)]
            = [i \in DOMAIN rules |-> RuleDiscount(rules[i], left, l)]
      BY <2>1
    <3> QED BY <3>1, Zenon DEF RulesDiscount
  <2> HIDE DEF rules
  <2>3. RulesDiscount(rules, left, ScaleLinesToPayable(Amounts(s), left))
          = RulesDiscount(rules, left, ScaleLinesToPayable(Amounts(t), left))
    BY <2>2, Zenon
  <2> QED BY <1>2, <2>3
<1> QED BY <1>3, <1>4, <1>5

\* The checks of a coupon, from what they look at.
Told(row, afterAuto, stackCategory, auto, left, beside, known, hasOrdered, isNew, cut) ==
  FirstReason(<<
    <<"COUPON_NOT_AFTER_AUTO", auto > 0 /\ ~afterAuto>>,
    <<"COUPON_NOT_FOUND", ~row.found>>,
    <<"COUPON_NOT_APPLICABLE", row.coupon.hasProducts /\ row.coupon.rules = <<>>>>,
    <<"COUPON_NO_CART_BENEFIT", row.coupon.rules = <<>>>>,
    <<"COUPON_NOT_AFTER_AUTO", auto > 0 /\ ~Flag(row.coupon.afterAuto, afterAuto)>>,
    <<"COUPON_NOT_WITH_SKU", beside>>,
    <<"FIRST_ORDER_ONLY_NOT_MET", known /\ row.coupon.firstOrderOnly /\ hasOrdered>>,
    <<"NEW_CUSTOMER_ONLY_NOT_MET", known /\ row.coupon.newCustomerOnly /\ ~isNew>>,
    <<"MIN_SUBTOTAL_NOT_MET", known /\ left < row.coupon.minSubtotal>>,
    <<"COUPON_EXHAUSTED", Given(row.coupon.totalLimit) /\ row.total >= row.coupon.totalLimit>>,
    <<"COUPON_EXHAUSTED", /\ known
                          /\ Given(row.coupon.customerLimit)
                          /\ row.mine >= row.coupon.customerLimit>>,
    <<"COUPON_NOT_WITH_AUTO_CART",
      auto > 0
        /\ (\E i \in DOMAIN row.coupon.rules :
              row.coupon.rules[i].kind = "category_percent_off")
        /\ ~Flag(row.coupon.stackCategory, stackCategory)>>,
    <<ZeroDiscount(row.coupon.rules, left), cut <= 0>> >>)

\* Then it is refused for both, for the same reason, or for neither.
LEMMA RefusalsAgree ==
  ASSUME NEW a, NEW b, Agree(a, b), NEW k, NEW x, NEW y, x \notin guests, y \notin guests,
         sees[x].ordered = sees[y].ordered, sees[x].newcomer = sees[y].newcomer,
         CouponDiscount(a, k) = CouponDiscount(b, k)
  PROVE  RefusalOn(x, a, k) = RefusalOn(y, b, k)
<1> DEFINE of(z, d) ==
             Told(CouponRow(k), shop.couponAfterAuto, shop.stackCategory,
                  d.auto, d.remaining, BesideOtherSale(d, CouponRow(k).coupon), z \notin guests,
                  sees[z].ordered, sees[z].newcomer, CouponDiscount(d, k))
<1>1. RefusalOn(x, a, k) = of(x, a) /\ RefusalOn(y, b, k) = of(y, b)
  BY DEF RefusalOn, Told
<1>2. a.auto = b.auto /\ a.remaining = b.remaining /\ (x \notin guests) = (y \notin guests)
  BY DEF Agree
<1>3. BesideOtherSale(a, CouponRow(k).coupon) = BesideOtherSale(b, CouponRow(k).coupon)
  BY DEF BesideOtherSale, Agree
<1> QED BY <1>1, <1>2, <1>3

\* And both bills go on alike.
LEMMA TriedAlike ==
  ASSUME NEW a, NEW b, Agree(a, b), BillOK(a), BillOK(b), NEW k \in Codes, NEW x, NEW y,
         RefusalOn(x, a, k) = RefusalOn(y, b, k),
         CouponDiscount(a, k) = CouponDiscount(b, k),
         NEW c, Tried(x, a, k, c), NEW d, Tried(y, b, k, d)
  PROVE  Agree(c, d)
<1>1. CASE RefusalOn(x, a, k) = "none"
  <2> DEFINE off == CouponDiscount(a, k)
             campaign == {shop.coupon[k].campaign}
  <2>1. PICK u : c = [a EXCEPT !.applied = Append(a.applied, k), !.coupon = a.coupon + off,
                               !.remaining = NonNegative(a.remaining - off),
                               !.campaigns = a.campaigns \cup campaign, !.credit = u]
    BY <1>1, Zenon DEF Tried, Redeemed
  <2>2. PICK v : d = [b EXCEPT !.applied = Append(b.applied, k), !.coupon = b.coupon + off,
                               !.remaining = NonNegative(b.remaining - off),
                               !.campaigns = b.campaigns \cup campaign, !.credit = v]
    BY <1>1, Zenon DEF Tried, Redeemed
  <2> HIDE DEF off, campaign
  <2> QED BY <2>1, <2>2 DEF Agree, BillOK
<1>2. CASE RefusalOn(x, a, k) # "none"
  <2> DEFINE reason == IF a.rejected = "none" THEN RefusalOn(x, a, k) ELSE a.rejected
  <2>1. c = [a EXCEPT !.rejected = reason]
    BY <1>2, Zenon DEF Tried
  <2>2. d = [b EXCEPT !.rejected = reason]
    BY <1>2, Zenon DEF Tried, Agree
  <2> HIDE DEF reason
  <2> QED BY <2>1, <2>2 DEF Agree, BillOK
<1> QED BY <1>1, <1>2

-----------------------------------------------------------------------------
(* What a call computes from the basket while the shop stays as it is.      *)

\* The lines it quotes, what bundles make of them, and the rules it uses.
OfferedSales == RunningSales(~shop.couponsOnly)
OfferedBundles == RunningBundles(~shop.couponsOnly)
Quoted(x) == LinesOf(Cart(x), OfferedSales, OfferedBundles)
GivenTo(x) == EvaluateBundles(Quoted(x), OfferedBundles, shop.combine)
CampaignsGiving(credit) == {k \in Campaigns : credit[k] > 0}
UsableFor(onSale) ==
  IF onSale THEN Those(shop.autos, {i \in DOMAIN shop.autos : Stacks(shop.autos[i])})
  ELSE shop.autos

\* The bill once bundles gave what they give.
Gifted(x, b) ==
  /\ b.lines = GivenTo(x).lines /\ b.bundle = GivenTo(x).discount
  /\ b.onSale = (SalesOf(Quoted(x)) # {})
  /\ b.campaigns = SalesOf(Quoted(x)) \cup CampaignsGiving(GivenTo(x).credit)
  /\ b.rejected = "none" /\ b.coupon = 0 /\ b.applied = <<>>

\* The automatic offers that compete for a bill.
WinnersFor(b, fromRedis) ==
  Winners(UsableFor(b.onSale), Amounts(b.lines), shop.combine, fromRedis)

\* The bill when the rules were read, and before any code was tried.
Opened(x, b) ==
  \E g : /\ BillOK(g) /\ Gifted(x, g)
         /\ \E fromRedis \in BOOLEAN :
              b = WithOffers(g, UsableFor(g.onSale), WinnersFor(g, fromRedis))

\* What is in the cart of a call, and what becomes of it.
LEMMA QuotedIs ==
  ASSUME shop \in Shops, NEW x
  PROVE  /\ OfferedSales \in {shop.overlays, <<>>} /\ OfferedBundles \in {shop.bundles, <<>>}
         /\ Quoted(x) \in Seq(Lines) /\ \A i \in DOMAIN Quoted(x) : Quoted(x)[i].free = 0
         /\ GivenTo(x) \in Gifts(Quoted(x)) /\ GivenTo(x).lines \in Seq(Lines)
         /\ Grown(GivenTo(x).lines, Quoted(x))
<1>1. OfferedSales \in {shop.overlays, <<>>} /\ OfferedBundles \in {shop.bundles, <<>>}
  BY DEF OfferedSales, OfferedBundles, RunningSales, RunningBundles
<1> DEFINE o == OfferedSales
           r == OfferedBundles
           q == Quoted(x)
           cart == Cart(x)
<1>2. Items(cart) /\ q = LinesOf(cart, o, r)
  BY CartIs DEF Quoted
<1> HIDE DEF o, r, q, cart
<1>3. o \in {shop.overlays, <<>>} /\ r \in {shop.bundles, <<>>}
  BY <1>1 DEF o, r
<1>4. q \in Seq(Lines) /\ \A i \in DOMAIN q : q[i].free = 0
  BY <1>2, <1>3, LinesOfIs
<1>5. \A combine : /\ EvaluateBundles(q, r, combine) \in Gifts(q)
                   /\ Grown(EvaluateBundles(q, r, combine).lines, q)
  BY <1>3, <1>4, EvaluateBundlesIs, BundlesGrow
<1>6. GivenTo(x) \in Gifts(q) /\ Grown(GivenTo(x).lines, q)
  BY <1>5, Zenon DEF GivenTo, q, r
<1>7. GivenTo(x).lines \in Seq(Lines)
  BY <1>6 DEF Gifts
<1> QED BY <1>1, <1>4, <1>6, <1>7 DEF q

\* The fields of an opened bill.
LEMMA OpenedHas ==
  ASSUME shop \in Shops, NEW x, NEW b, Opened(x, b)
  PROVE  \E g, fromRedis :
           LET w == WinnersFor(g, fromRedis)
           IN /\ g.lines = GivenTo(x).lines /\ g.onSale = (SalesOf(Quoted(x)) # {})
              /\ b.lines = GivenTo(x).lines /\ b.bundle = GivenTo(x).discount
              /\ b.onSale = (SalesOf(Quoted(x)) # {})
              /\ b.coupon = 0 /\ b.applied = <<>>
              /\ b.auto = Taking(GivenTo(x).lines, w)
              /\ b.afterAuto = NonNegative(CartTotal(Amounts(GivenTo(x).lines)) - b.auto)
              /\ b.remaining = b.afterAuto
              /\ b.campaigns = SalesOf(Quoted(x)) \cup CampaignsGiving(GivenTo(x).credit)
                                                  \cup CampaignsOf(w)
              /\ b.rejected = IF Bxgy(b) /\ CodesToTry # <<>>
                              THEN "COUPON_NOT_WITH_BUNDLE" ELSE "none"
<1>1. PICK g, fromRedis :
        /\ BillOK(g) /\ Gifted(x, g)
        /\ b = WithOffers(g, UsableFor(g.onSale), WinnersFor(g, fromRedis))
  BY Zenon DEF Opened
<1> DEFINE w == WinnersFor(g, fromRedis)
           rules == UsableFor(g.onSale)
<1>2. b = WithOffers(g, rules, w)
  BY <1>1
<1> HIDE DEF w, rules
<1>3. /\ b.lines = g.lines /\ b.onSale = g.onSale /\ b.bundle = g.bundle
      /\ b.coupon = g.coupon /\ b.applied = g.applied
      /\ b.auto = Taking(g.lines, w)
      /\ b.afterAuto = NonNegative(CartTotal(Amounts(g.lines)) - b.auto)
      /\ b.remaining = b.afterAuto
      /\ b.campaigns = g.campaigns \cup CampaignsOf(w)
      /\ b.rejected = IF Bxgy(g) /\ CodesToTry # <<>>
                      THEN "COUPON_NOT_WITH_BUNDLE" ELSE g.rejected
  BY <1>1, <1>2, WithOffersHas
<1>4. Bxgy(b) <=> Bxgy(g)
  BY <1>3, BxgySame
<1>5. /\ g.lines = GivenTo(x).lines /\ g.bundle = GivenTo(x).discount
      /\ g.onSale = (SalesOf(Quoted(x)) # {})
      /\ g.campaigns = SalesOf(Quoted(x)) \cup CampaignsGiving(GivenTo(x).credit)
      /\ g.rejected = "none" /\ g.coupon = 0 /\ g.applied = <<>>
  BY <1>1 DEF Gifted
<1> WITNESS g, fromRedis
<1>6. b.rejected = IF Bxgy(b) /\ CodesToTry # <<>> THEN "COUPON_NOT_WITH_BUNDLE" ELSE "none"
  BY <1>3, <1>4, <1>5
<1>7. b.campaigns = SalesOf(Quoted(x)) \cup CampaignsGiving(GivenTo(x).credit) \cup CampaignsOf(w)
  BY <1>3, <1>5
<1>8. /\ b.auto = Taking(GivenTo(x).lines, w)
      /\ b.afterAuto = NonNegative(CartTotal(Amounts(GivenTo(x).lines)) - b.auto)
  BY <1>3, <1>5
<1> QED BY <1>3, <1>5, <1>6, <1>7, <1>8 DEF w

\* Bills for lines that are the same but for their order are opened alike.
LEMMA OpenedAlike ==
  ASSUME shop \in Shops, ~TieBreak, NEW x, NEW y,
         NEW a, Opened(x, a), NEW b, Opened(y, b),
         NEW f, Reorders(f, GivenTo(x).lines, GivenTo(y).lines),
         SalesOf(Quoted(x)) = SalesOf(Quoted(y)),
         GivenTo(x).discount = GivenTo(y).discount,
         GivenTo(x).credit = GivenTo(y).credit
  PROVE  Agree(a, b) /\ (Bxgy(a) <=> Bxgy(b))
<1> DEFINE s == GivenTo(x).lines
           t == GivenTo(y).lines
           onSale == SalesOf(Quoted(x)) # {}
           from == SalesOf(Quoted(x)) \cup CampaignsGiving(GivenTo(x).credit)
           rules == UsableFor(onSale)
           wins(lines, z) == Winners(rules, Amounts(lines), shop.combine, z)
<1>1. PICK u : /\ a.lines = s /\ a.bundle = GivenTo(x).discount /\ a.onSale = onSale
               /\ a.coupon = 0 /\ a.applied = <<>>
               /\ a.auto = Taking(s, wins(s, u))
               /\ a.afterAuto = NonNegative(CartTotal(Amounts(s)) - a.auto)
               /\ a.remaining = a.afterAuto
               /\ a.campaigns = from \cup CampaignsOf(wins(s, u))
               /\ a.rejected = IF Bxgy(a) /\ CodesToTry # <<>>
                               THEN "COUPON_NOT_WITH_BUNDLE" ELSE "none"
  <2>1. PICK g, z : LET w == WinnersFor(g, z)
           IN /\ g.lines = s /\ g.onSale = onSale
              /\ a.lines = s /\ a.bundle = GivenTo(x).discount
              /\ a.onSale = onSale
              /\ a.coupon = 0 /\ a.applied = <<>>
              /\ a.auto = Taking(s, w)
              /\ a.afterAuto = NonNegative(CartTotal(Amounts(s)) - a.auto)
              /\ a.remaining = a.afterAuto
              /\ a.campaigns = from \cup CampaignsOf(w)
              /\ a.rejected = IF Bxgy(a) /\ CodesToTry # <<>>
                              THEN "COUPON_NOT_WITH_BUNDLE" ELSE "none"
    BY OpenedHas
  <2>2. WinnersFor(g, z) = wins(s, z)
    BY <2>1 DEF WinnersFor
  <2> HIDE DEF s, onSale, from, wins
  <2> QED BY <2>1, <2>2
<1>2. PICK v : /\ b.lines = t /\ b.bundle = GivenTo(x).discount /\ b.onSale = onSale
               /\ b.coupon = 0 /\ b.applied = <<>>
               /\ b.auto = Taking(t, wins(t, v))
               /\ b.afterAuto = NonNegative(CartTotal(Amounts(t)) - b.auto)
               /\ b.remaining = b.afterAuto
               /\ b.campaigns = from \cup CampaignsOf(wins(t, v))
               /\ b.rejected = IF Bxgy(b) /\ CodesToTry # <<>>
                               THEN "COUPON_NOT_WITH_BUNDLE" ELSE "none"
  <2>1. PICK g, z : LET w == WinnersFor(g, z)
           IN /\ g.lines = GivenTo(y).lines /\ g.onSale = (SalesOf(Quoted(y)) # {})
              /\ b.lines = GivenTo(y).lines /\ b.bundle = GivenTo(y).discount
              /\ b.onSale = (SalesOf(Quoted(y)) # {})
              /\ b.coupon = 0 /\ b.applied = <<>>
              /\ b.auto = Taking(GivenTo(y).lines, w)
              /\ b.afterAuto = NonNegative(CartTotal(Amounts(GivenTo(y).lines)) - b.auto)
              /\ b.remaining = b.afterAuto
              /\ b.campaigns = SalesOf(Quoted(y)) \cup CampaignsGiving(GivenTo(y).credit)
                                                  \cup CampaignsOf(w)
              /\ b.rejected = IF Bxgy(b) /\ CodesToTry # <<>>
                              THEN "COUPON_NOT_WITH_BUNDLE" ELSE "none"
    BY OpenedHas
  <2>3. g.onSale = onSale /\ from = SalesOf(Quoted(y)) \cup CampaignsGiving(GivenTo(y).credit)
    BY <2>1
  <2>2. WinnersFor(g, z) = wins(t, z)
    BY <2>1, <2>3 DEF WinnersFor
  <2> HIDE DEF onSale, from, wins
  <2> QED BY <2>1, <2>2, <2>3
<1> HIDE DEF s, t, onSale, from, wins, rules
<1>3. s \in Seq(Lines) /\ t \in Seq(Lines) /\ Reorders(f, s, t)
  BY QuotedIs DEF s, t
<1>4. Entries(Amounts(s)) /\ Entries(Amounts(t)) /\ Reorders(f, Amounts(s), Amounts(t))
  BY <1>3, AmountsReordered
<1>5. /\ CartTotal(Amounts(t)) = CartTotal(Amounts(s))
      /\ \A q, subtotal : RulesDiscount(q, subtotal, Amounts(t))
                            = RulesDiscount(q, subtotal, Amounts(s))
  BY <1>4, DiscountsAgree
<1>6. rules \in Seq(ToSet(shop.autos))
  <2>1. shop.autos \in {shop.autos, <<>>}
    OBVIOUS
  <2>2. rules = IF onSale
                THEN Those(shop.autos, {i \in DOMAIN shop.autos : Stacks(shop.autos[i])})
                ELSE shop.autos
    BY DEF rules, UsableFor
  <2> QED BY <2>1, <2>2, UsableIs
<1>7. wins(t, v) = wins(s, v)
  <2>1. Winners(rules, Amounts(t), shop.combine, v) = Winners(rules, Amounts(s), shop.combine, v)
    BY <1>5, WinnersSame
  <2> QED BY <2>1 DEF wins
<1>8. SameTakes(wins(s, u), wins(s, v))
  BY <1>4, <1>6, WinnersAlike DEF wins
<1>9. /\ Discounts(wins(s, u)) = Discounts(wins(s, v))
      /\ CampaignsOf(wins(s, u)) = CampaignsOf(wins(s, v))
  BY <1>8, TakingAgrees
<1>10. Taking(t, wins(t, v)) = Taking(s, wins(s, u))
  BY <1>5, <1>7, <1>9 DEF Taking
<1>11. Bxgy(a) <=> Bxgy(b)
  <2>1. (\E i \in DOMAIN s : s[i].free > 0) <=> (\E j \in DOMAIN t : t[j].free > 0)
    BY <1>3 DEF Reorders
  <2> QED BY <1>1, <1>2, <2>1 DEF Bxgy
<1>12. a.auto = b.auto /\ a.afterAuto = b.afterAuto
  BY <1>1, <1>2, <1>5, <1>10
<1>13. a.campaigns = b.campaigns
  BY <1>1, <1>2, <1>7, <1>9
<1> QED BY <1>1, <1>2, <1>11, <1>12, <1>13 DEF Agree

\* A cart takes what was asked for, and its lines quote it.
LEMMA CartQuoted ==
  ASSUME shop \in Shops, BasketRefusal(shop.basket, shop.shelf) = "none", NEW x
  PROVE  \E n \in Nat \ {0} :
           /\ Takes(Cart(x), n) /\ \A i \in 1 .. n : IsItem(Cart(x)[i])
           /\ Quotes(Quoted(x), Cart(x), n, OfferedSales)
<1> DEFINE cart == Cart(x)
<1>1. PICK n \in Nat \ {0} : Takes(cart, n)
  BY CartTakes
<1>2. Items(cart)
  BY CartIs
<1>3. OfferedSales \in {shop.overlays, <<>>} /\ OfferedBundles \in {shop.bundles, <<>>}
  BY QuotedIs
<1> HIDE DEF cart
<1>4. DOMAIN cart = 1 .. n /\ \A i \in 1 .. n : IsItem(cart[i])
  BY <1>1, <1>2 DEF Takes, Items
<1> DEFINE o == OfferedSales
           r == OfferedBundles
<1> HIDE DEF o, r
<1>5. o \in {shop.overlays, <<>>} /\ r \in {shop.bundles, <<>>} /\ n \in Nat
  BY <1>1, <1>3 DEF o, r
<1>6. Quotes(LinesOf(cart, o, r), cart, n, o)
  BY <1>4, <1>5, QuotesOf
<1> QED BY <1>1, <1>4, <1>6 DEF cart, o, r, Quoted

\* The campaigns of sales do not depend on the order of the lines.
LEMMA SalesReordered ==
  ASSUME NEW s, NEW t, NEW f, Reorders(f, s, t)
  PROVE  SalesOf(s) = SalesOf(t)
<1>1. ASSUME NEW k, k \in SalesOf(s) PROVE k \in SalesOf(t)
  <2>1. PICK i \in DOMAIN s : k \in s[i].campaigns
    BY <1>1 DEF SalesOf
  <2>2. f[i] \in DOMAIN t /\ t[f[i]] = s[i]
    BY DEF Reorders
  <2> QED BY <2>1, <2>2 DEF SalesOf
<1>2. ASSUME NEW k, k \in SalesOf(t) PROVE k \in SalesOf(s)
  <2>1. PICK j \in DOMAIN t : k \in t[j].campaigns
    BY <1>2 DEF SalesOf
  <2>2. PICK i \in DOMAIN s : f[i] = j
    BY DEF Reorders
  <2>3. t[j] = s[i]
    BY <2>2 DEF Reorders
  <2> QED BY <2>1, <2>3 DEF SalesOf
<1> QED BY <1>1, <1>2

\* What two calls for the basket have in common.
Matched(x, y, n, f) ==
  /\ Takes(Cart(x), n) /\ Takes(Cart(y), n)
  /\ Quotes(Quoted(x), Cart(x), n, OfferedSales) /\ Quotes(Quoted(y), Cart(y), n, OfferedSales)
  /\ ReordersFirst(f, GivenTo(x).lines, GivenTo(y).lines, n)
  /\ SalesOf(Quoted(x)) = SalesOf(Quoted(y))
  /\ GivenTo(x).discount = GivenTo(y).discount
  /\ GivenTo(x).credit = GivenTo(y).credit

\* They have it where the order is the same, or nothing is given away.
LEMMA GivenAlike ==
  ASSUME shop \in Shops, BasketRefusal(shop.basket, shop.shelf) = "none", NEW x, NEW y,
         \/ Cart(x) = Cart(y)
         \/ \A i \in DOMAIN GivenTo(x).lines : GivenTo(x).lines[i].free = 0
  PROVE  \E n \in Nat \ {0} : \E f : Matched(x, y, n, f)
<1>1. PICK n \in Nat \ {0} :
        /\ Takes(Cart(x), n) /\ \A i \in 1 .. n : IsItem(Cart(x)[i])
        /\ Quotes(Quoted(x), Cart(x), n, OfferedSales)
  BY CartQuoted
<1>2. PICK m \in Nat \ {0} :
        /\ Takes(Cart(y), m) /\ \A i \in 1 .. m : IsItem(Cart(y)[i])
        /\ Quotes(Quoted(y), Cart(y), m, OfferedSales)
  BY CartQuoted
<1>3. n \in Nat /\ m \in Nat
  OBVIOUS
<1>4. n = m /\ \E f : Reorders(f, Cart(x), Cart(y))
  BY <1>1, <1>2, <1>3, CartsReordered
<1>5. /\ OfferedSales \in {shop.overlays, <<>>} /\ OfferedBundles \in {shop.bundles, <<>>}
      /\ Quoted(x) \in Seq(Lines) /\ \A i \in DOMAIN Quoted(x) : Quoted(x)[i].free = 0
      /\ GivenTo(x).lines \in Seq(Lines) /\ Grown(GivenTo(x).lines, Quoted(x))
  BY QuotedIs
<1>6. Quoted(y) \in Seq(Lines)
  BY QuotedIs
<1>7. CASE Cart(x) = Cart(y)
  <2>1. Quoted(x) = Quoted(y) /\ GivenTo(x) = GivenTo(y)
    BY <1>7 DEF Quoted, GivenTo
  <2> DEFINE s == GivenTo(x).lines
             f == [i \in DOMAIN s |-> i]
  <2> HIDE DEF s
  <2>2. ReordersFirst(f, s, s, n)
    BY DEF ReordersFirst, Reorders
  <2> HIDE DEF f
  <2>3. ReordersFirst(f, GivenTo(x).lines, GivenTo(y).lines, n)
    BY <2>1, <2>2 DEF s
  <2> QED BY <1>1, <1>2, <1>4, <2>1, <2>3 DEF Matched
<1>8. CASE \A i \in DOMAIN GivenTo(x).lines : GivenTo(x).lines[i].free = 0
  <2> DEFINE s == Quoted(x)
             t == Quoted(y)
             o == OfferedSales
             r == OfferedBundles
             a == Cart(x)
             b == Cart(y)
             combine == shop.combine
  <2>1. /\ o \in {shop.overlays, <<>>} /\ r \in {shop.bundles, <<>>}
        /\ s = LinesOf(a, o, r) /\ t = LinesOf(b, o, r)
        /\ s \in Seq(Lines) /\ t \in Seq(Lines) /\ \A i \in DOMAIN s : s[i].free = 0
        /\ Takes(a, n) /\ Takes(b, n) /\ \A i \in 1 .. n : IsItem(a[i]) /\ IsItem(b[i])
        /\ GivenTo(x) = EvaluateBundles(s, r, combine)
        /\ GivenTo(y) = EvaluateBundles(t, r, combine)
    BY <1>1, <1>2, <1>4, <1>5, <1>6 DEF Quoted, GivenTo
  <2>2. PICK e : Reorders(e, a, b)
    BY <1>4
  <2>3. \A i \in DOMAIN s : GivenTo(x).lines[i].free = 0
    BY <1>5, <1>8 DEF Grown
  <2> HIDE DEF s, t, o, r, a, b, combine
  <2>4. PICK f : ReordersFirst(f, s, t, n)
    <3>1. \E g : ReordersFirst(g, LinesOf(a, o, r), LinesOf(b, o, r), n)
      BY <2>1, <2>2, LinesReordered
    <3> QED BY <2>1, <3>1
  <2>5. Reorders(f, s, t)
    BY <2>4 DEF ReordersFirst
  <2>6. \A i \in DOMAIN s : EvaluateBundles(s, r, combine).lines[i].free = 0
    BY <2>1, <2>3
  <2>7. GivenTo(x) = Ungiven(s) /\ GivenTo(y) = Ungiven(t)
    <3>1. EvaluateBundles(s, r, combine) = Ungiven(s) /\ EvaluateBundles(t, r, combine) = Ungiven(t)
      BY <2>1, <2>5, <2>6, NothingGiven
    <3> QED BY <2>1, <3>1
  <2>8. /\ GivenTo(x).lines = s /\ GivenTo(y).lines = t
        /\ GivenTo(x).discount = GivenTo(y).discount /\ GivenTo(x).credit = GivenTo(y).credit
    BY <2>7 DEF Ungiven
  <2>9. SalesOf(s) = SalesOf(t)
    BY <2>5, SalesReordered
  <2>10. /\ ReordersFirst(f, GivenTo(x).lines, GivenTo(y).lines, n)
         /\ SalesOf(Quoted(x)) = SalesOf(Quoted(y))
    BY <2>4, <2>8, <2>9 DEF s, t
  <2> QED BY <1>1, <1>2, <1>4, <2>8, <2>10 DEF Matched
<1> QED BY <1>7, <1>8

\* The bills of a call, from code to code.
Trace(x, t, m) ==
  /\ Opened(x, t[0])
  /\ \A i \in 0 .. m : BillOK(t[i])
  /\ \A i \in 1 .. m : Tried(x, t[i - 1], CodesToTry[i], t[i])
Traced(x, b, m) == \E t : Trace(x, t, m) /\ t[m] = b

\* One code more makes the trace longer.
LEMMA TraceGrows ==
  ASSUME NEW x, NEW m \in Nat, NEW a, Traced(x, a, m), NEW b, BillOK(b),
         Tried(x, a, CodesToTry[m + 1], b)
  PROVE  Traced(x, b, m + 1)
<1>1. PICK t : Trace(x, t, m) /\ t[m] = a
  BY DEF Traced
<1> DEFINE u == [i \in 0 .. m + 1 |-> IF i = m + 1 THEN b ELSE t[i]]
<1>2. u[m + 1] = b /\ \A i \in 0 .. m : u[i] = t[i]
  OBVIOUS
<1> HIDE DEF u
<1>3. Opened(x, u[0])
  BY <1>1, <1>2 DEF Trace
<1>4. \A i \in 0 .. m + 1 : BillOK(u[i])
  <2> TAKE i \in 0 .. m + 1
  <2>1. i \in 0 .. m \/ i = m + 1
    OBVIOUS
  <2> QED BY <1>1, <1>2, <2>1 DEF Trace
<1>5. \A i \in 1 .. m + 1 : Tried(x, u[i - 1], CodesToTry[i], u[i])
  <2> TAKE i \in 1 .. m + 1
  <2>1. CASE i = m + 1
    BY <1>1, <1>2, <2>1
  <2>2. CASE i \in 1 .. m
    <3>1. i \in 0 .. m /\ i - 1 \in 0 .. m
      BY <2>2
    <3>2. Tried(x, t[i - 1], CodesToTry[i], t[i])
      BY <1>1, <2>2 DEF Trace
    <3> QED BY <1>2, <3>1, <3>2
  <2> QED BY <2>1, <2>2
<1> QED BY <1>2, <1>3, <1>4, <1>5 DEF Trace, Traced

\* What holds all along a trace.
Follows(x, t, i) ==
  /\ t[i].lines = GivenTo(x).lines /\ t[i].bundle = GivenTo(x).discount
  /\ t[i].auto = t[0].auto /\ t[i].afterAuto = t[0].afterAuto
  /\ Bxgy(t[i]) <=> Bxgy(t[0])
  /\ Bxgy(t[0]) \/ Len(t[i].applied) = i \/ t[i].rejected # "none"
  /\ Len(t[i].applied) <= i
  /\ t[i].rejected # "none" /\ ~Bxgy(t[0]) => Len(t[i].applied) < i

\* By induction, code by code.
LEMMA TraceFollows ==
  ASSUME shop \in Shops, NEW x, NEW t, NEW m \in 0 .. Len(CodesToTry), Trace(x, t, m)
  PROVE  \A i \in 0 .. m : Follows(x, t, i)
<1>1. CodesToTry \in Seq(Codes) /\ Len(CodesToTry) \in Nat
  BY CodesFacts
<1>2. Follows(x, t, 0)
  <2>1. /\ t[0].lines = GivenTo(x).lines /\ t[0].bundle = GivenTo(x).discount
        /\ t[0].applied = <<>>
        /\ t[0].rejected = IF Bxgy(t[0]) /\ CodesToTry # <<>>
                           THEN "COUPON_NOT_WITH_BUNDLE" ELSE "none"
    BY OpenedHas DEF Trace
  <2>2. Len(t[0].applied) = 0
    BY <2>1
  <2> QED BY <2>1, <2>2 DEF Follows
<1>3. ASSUME NEW i \in Nat, i + 1 \in 0 .. m, Follows(x, t, i)
      PROVE  Follows(x, t, i + 1)
  <2> DEFINE a == t[i]
             b == t[i + 1]
             k == CodesToTry[i + 1]
  <2>1. BillOK(a) /\ i + 1 \in 1 .. Len(CodesToTry)
    BY <1>1, <1>3 DEF Trace
  <2>2. k \in Codes
    BY <1>1, <2>1
  <2>3. Tried(x, a, k, b)
    <3>1. i + 1 \in 1 .. m /\ (i + 1) - 1 = i
      BY <1>3
    <3> QED BY <3>1 DEF Trace
  <2> HIDE DEF a, b, k
  <2>9. GoesOn(a, k, b)
    BY <2>1, <2>2, <2>3, TriedKeeps, Zenon
  <2>4. /\ b.lines = a.lines /\ b.bundle = a.bundle /\ b.auto = a.auto
        /\ b.afterAuto = a.afterAuto
        /\ a.rejected # "none" => b.rejected = a.rejected
        /\ \/ b.applied = Append(a.applied, k) /\ b.rejected = a.rejected
           \/ b.applied = a.applied /\ b.rejected # "none"
    BY <2>9 DEF GoesOn
  <2>5. Bxgy(b) <=> Bxgy(a)
    BY <2>4, BxgySame
  <2>6. a.applied \in Seq(Codes) /\ Len(a.applied) \in Nat
        /\ Len(Append(a.applied, k)) = Len(a.applied) + 1
    BY <2>1, <2>2 DEF BillOK
  <2>7. /\ a.lines = GivenTo(x).lines /\ a.bundle = GivenTo(x).discount
        /\ a.auto = t[0].auto /\ a.afterAuto = t[0].afterAuto
        /\ Bxgy(a) <=> Bxgy(t[0])
        /\ Bxgy(t[0]) \/ Len(a.applied) = i \/ a.rejected # "none"
        /\ Len(a.applied) <= i
        /\ a.rejected # "none" /\ ~Bxgy(t[0]) => Len(a.applied) < i
    BY <1>3 DEF Follows, a
  <2>8. /\ Bxgy(t[0]) \/ Len(b.applied) = i + 1 \/ b.rejected # "none"
        /\ Len(b.applied) <= i + 1
        /\ b.rejected # "none" /\ ~Bxgy(t[0]) => Len(b.applied) < i + 1
    BY <2>4, <2>6, <2>7
  <2> QED BY <2>4, <2>5, <2>7, <2>8 DEF Follows, b
<1> DEFINE G == {i \in Nat : i \in 0 .. m => Follows(x, t, i)}
<1>4. 0 \in G
  BY <1>2
<1>5. \A i \in Nat : i \in G => i + 1 \in G
  BY <1>1, <1>3
<1> HIDE DEF G
<1>6. \A i \in Nat : i \in G
  BY <1>4, <1>5, NatSets
<1> QED BY <1>1, <1>6 DEF G

\* A reason, once given, is the one that is reported.
LEMMA ReasonStays ==
  ASSUME shop \in Shops, NEW x, NEW t, NEW m \in 0 .. Len(CodesToTry), Trace(x, t, m),
         NEW j \in 0 .. m, t[j].rejected # "none"
  PROVE  t[m].rejected = t[j].rejected
<1>1. CodesToTry \in Seq(Codes) /\ Len(CodesToTry) \in Nat
  BY CodesFacts
<1> DEFINE G == {i \in Nat : j + i \in 0 .. m => t[j + i].rejected = t[j].rejected}
<1>2. 0 \in G
  OBVIOUS
<1>3. ASSUME NEW i \in Nat, i \in G PROVE i + 1 \in G
  <2> SUFFICES ASSUME j + (i + 1) \in 0 .. m
               PROVE  t[j + (i + 1)].rejected = t[j].rejected
    OBVIOUS
  <2> DEFINE n == j + i
             k == CodesToTry[n + 1]
  <2>1. n \in 0 .. m /\ n + 1 \in 1 .. m /\ n + 1 \in 1 .. Len(CodesToTry)
        /\ j + (i + 1) = n + 1 /\ (n + 1) - 1 = n
    BY <1>1
  <2>2. t[n].rejected = t[j].rejected
    BY <1>3, <2>1
  <2>3. k \in Codes /\ BillOK(t[n])
    BY <1>1, <2>1 DEF Trace
  <2>4. Tried(x, t[n], k, t[n + 1])
    BY <2>1 DEF Trace
  <2> HIDE DEF n, k
  <2>6. GoesOn(t[n], k, t[n + 1])
    BY <2>3, <2>4, TriedKeeps, Zenon
  <2>5. t[n + 1].rejected = t[n].rejected
    BY <2>2, <2>6 DEF GoesOn
  <2> QED BY <2>1, <2>2, <2>5
<1> HIDE DEF G
<1>4. \A i \in Nat : i \in G
  BY <1>2, <1>3, NatSets
<1>5. m - j \in Nat /\ j + (m - j) = m /\ m \in 0 .. m
  BY <1>1
<1>6. m - j \in G
  BY <1>4, <1>5
<1> QED BY <1>5, <1>6 DEF G

\* The beginning of a trace is one.
LEMMA TracePart ==
  ASSUME NEW x, NEW t, NEW m \in Nat, Trace(x, t, m), NEW j \in 0 .. m
  PROVE  Trace(x, t, j)
<1>1. 0 .. j \subseteq 0 .. m /\ 1 .. j \subseteq 1 .. m
  OBVIOUS
<1> QED BY <1>1 DEF Trace

\* The lines do not matter for what a code takes off: they are the same, or
\* the whole cart is left for the one code there is, or only their sum counts.
Indifferent(x, y, auto) ==
  \/ GivenTo(x).lines = GivenTo(y).lines
  \/ auto = 0 /\ Len(CodesToTry) <= 1
  \/ \A k \in ToSet(CodesToTry) : \A r \in ToSet(Coupon(k).rules) : ~ForCategory(r)

\* Then the bills of two calls of a customer agree code by code.
LEMMA TracesAgree ==
  ASSUME shop \in Shops, NEW x, NEW y, x \notin guests, y \notin guests,
         sees[x].ordered = sees[y].ordered, sees[x].newcomer = sees[y].newcomer,
         NEW s, NEW t, NEW m \in 0 .. Len(CodesToTry), Trace(x, s, m), Trace(y, t, m),
         Agree(s[0], t[0]), NEW f, Reorders(f, GivenTo(x).lines, GivenTo(y).lines),
         Indifferent(x, y, s[0].auto)
  PROVE  \A i \in 0 .. m : Agree(s[i], t[i])
<1>1. CodesToTry \in Seq(Codes) /\ Len(CodesToTry) \in Nat
  BY CodesFacts
<1>2. \A i \in 0 .. m : Follows(x, s, i) /\ Follows(y, t, i)
  BY TraceFollows
<1>3. GivenTo(x).lines \in Seq(Lines) /\ GivenTo(y).lines \in Seq(Lines)
  BY QuotedIs
<1>4. ASSUME NEW i \in Nat, i + 1 \in 0 .. m, Agree(s[i], t[i])
      PROVE  Agree(s[i + 1], t[i + 1])
  <2> DEFINE a == s[i]
             b == t[i]
             k == CodesToTry[i + 1]
             c == s[i + 1]
             d == t[i + 1]
  <2>1. i \in 0 .. m /\ i + 1 \in 1 .. m /\ (i + 1) - 1 = i /\ i + 1 \in 1 .. Len(CodesToTry)
    BY <1>1, <1>4
  <2>2. BillOK(a) /\ BillOK(b) /\ Tried(x, a, k, c) /\ Tried(y, b, k, d)
    BY <2>1 DEF Trace
  <2>3. k \in Codes /\ k \in ToSet(CodesToTry)
    BY <1>1, <2>1 DEF ToSet
  <2>4. a.lines = GivenTo(x).lines /\ b.lines = GivenTo(y).lines
    BY <1>2, <2>1 DEF Follows
  <2>5. \/ a.lines = b.lines
        \/ a.remaining = CartTotal(Amounts(a.lines))
        \/ \A r \in ToSet(shop.coupon[k].rules) : ~ForCategory(r)
    <3>1. CASE GivenTo(x).lines = GivenTo(y).lines
      BY <2>4, <3>1
    <3>2. CASE s[0].auto = 0 /\ Len(CodesToTry) <= 1
      <4>1. i = 0 /\ a = s[0]
        <5> HIDE DEF a
        <5>1. i = 0
          BY <1>1, <2>1, <3>2
        <5> QED BY <5>1 DEF a
      <4>2. Opened(x, s[0])
        BY DEF Trace
      <4>3. /\ s[0].afterAuto = NonNegative(CartTotal(Amounts(GivenTo(x).lines)) - s[0].auto)
            /\ s[0].remaining = s[0].afterAuto
        BY <4>2, OpenedHas
      <4>4. CartTotal(Amounts(GivenTo(x).lines)) \in Nat
        BY <1>3, AmountsIs, CartTotalType
      <4>5. s[0].remaining = CartTotal(Amounts(GivenTo(x).lines))
        BY <3>2, <4>3, <4>4 DEF NonNegative
      <4> QED BY <2>4, <4>1, <4>5
    <3>3. CASE \A l \in ToSet(CodesToTry) : \A r \in ToSet(Coupon(l).rules) : ~ForCategory(r)
      BY <2>3, <3>3 DEF Coupon
    <3> QED BY <3>1, <3>2, <3>3 DEF Indifferent
  <2>6. Agree(a, b)
    BY <1>4
  <2> HIDE DEF a, b, c, d, k
  <2>7. CouponDiscount(a, k) = CouponDiscount(b, k)
    <3>1. a.lines \in Seq(Lines) /\ b.lines \in Seq(Lines) /\ Reorders(f, a.lines, b.lines)
      BY <1>3, <2>4
    <3> QED BY <2>5, <2>6, <3>1, CutsAgree
  <2>8. RefusalOn(x, a, k) = RefusalOn(y, b, k)
    BY <2>6, <2>7, RefusalsAgree
  <2>9. Agree(c, d)
    BY <2>2, <2>3, <2>6, <2>7, <2>8, TriedAlike, ZenonT(30)
  <2> QED BY <2>9 DEF c, d
<1> DEFINE G == {i \in Nat : i \in 0 .. m => Agree(s[i], t[i])}
<1>5. 0 \in G
  OBVIOUS
<1>6. \A i \in Nat : i \in G => i + 1 \in G
  BY <1>1, <1>4
<1> HIDE DEF G
<1>7. \A i \in Nat : i \in G
  BY <1>5, <1>6, NatSets
<1> QED BY <1>1, <1>7 DEF G

-----------------------------------------------------------------------------
(* While nothing changes, a call has found what it computes from the basket. *)

\* A checkout has not given up on a coupon.
Ended(x, b) ==
  /\ Traced(x, b, IF Bxgy(b) THEN 0 ELSE Len(CodesToTry))
  /\ x \notin Previews => CodesToTry = <<>> \/ ~Bxgy(b)

\* How a checkout of a basket that is taken came to be refused: for the bundle
\* in the cart, for a coupon, or for the minimum purchase.
Turned(x) ==
  \/ Bxgy(bill[x]) /\ CodesToTry # <<>> /\ Traced(x, bill[x], 0)
  \/ /\ ~Bxgy(bill[x]) /\ bill[x].rejected # "none"
     /\ \E m \in 1 .. Len(CodesToTry) : Traced(x, bill[x], m)
  \/ /\ MissingToMinimum(x) > 0
     /\ \E b : /\ Ended(x, b) /\ BillOK(b) /\ AllApplied(b, Len(CodesToTry))
               /\ bill[x] = [b EXCEPT !.rejected = "MIN_PURCHASE_NOT_MET"]

\* The bill when the lines were quoted.
Shelved(x, b) ==
  /\ b.lines = Quoted(x) /\ b.bundle = 0 /\ b.rejected = "none"
  /\ b.onSale = (SalesOf(Quoted(x)) # {}) /\ b.campaigns = SalesOf(Quoted(x))

\* What a call found, stage by stage.
Settled(x) ==
  /\ sees[x].paused = FALSE /\ sees[x].ordered = FALSE /\ sees[x].newcomer = TRUE
  /\ pc[x] \in {"new", "offers"} => bill[x].rejected = "none" /\ bill[x].bundle = 0
  /\ pc[x] = "bundles" => Shelved(x, bill[x]) /\ sees[x].bundles = ~shop.couponsOnly
  /\ pc[x] = "rules" => Gifted(x, bill[x])
  /\ pc[x] \in {"customer", "coupons"} => /\ Traced(x, bill[x], at[x] - 1)
                                          /\ x \notin Previews => bill[x].rejected = "none"
  /\ pc[x] \in {"done", "answered"} => Ended(x, bill[x])
  /\ pc[x] = "answered" /\ x \notin Previews => MissingToMinimum(x) = 0
  /\ pc[x] = "refused" /\ x \notin Previews => Turned(x)

\* While nothing has changed, every call has found what it computes from a
\* basket that is taken.
Calm ==
  Undisturbed /\ BasketRefusal(shop.basket, shop.shelf) = "none" =>
    /\ paused = FALSE /\ running = TRUE
    /\ redis.paused = FALSE /\ redis.running = TRUE
    /\ ordered = FALSE /\ newcomer = TRUE
    /\ \A x \in Calls : Settled(x)

\* Nothing a bill is made from changes.
Steady == UNCHANGED <<shop, guests, live, usedByAll, usedByMe>>

\* Then a trace stays one.
LEMMA TracedStays ==
  ASSUME Steady, NEW x, sees'[x].ordered = sees[x].ordered, sees'[x].newcomer = sees[x].newcomer
  PROVE  /\ CodesToTry' = CodesToTry
         /\ Quoted(x)' = Quoted(x) /\ GivenTo(x)' = GivenTo(x)
         /\ \A b : Gifted(x, b)' <=> Gifted(x, b)
         /\ \A b, m : Traced(x, b, m)' <=> Traced(x, b, m)
<1>0. /\ shop' = shop /\ guests' = guests /\ live' = live
      /\ usedByAll' = usedByAll /\ usedByMe' = usedByMe
  BY DEF Steady
<1>1. CodesToTry' = CodesToTry
  BY <1>0 DEF CodesToTry
<1>2. Cart(x)' = Cart(x)
  BY <1>0 DEF Cart
<1>3. OfferedSales' = OfferedSales /\ OfferedBundles' = OfferedBundles
  BY <1>0 DEF OfferedSales, OfferedBundles, RunningSales, RunningBundles
<1>4. Quoted(x)' = Quoted(x)
  BY <1>0, <1>2, <1>3 DEF Quoted, LinesOf
<1>5. GivenTo(x)' = GivenTo(x)
  BY <1>0, <1>3, <1>4 DEF GivenTo
<1>6. ASSUME NEW b PROVE Gifted(x, b)' <=> Gifted(x, b)
  BY <1>4, <1>5 DEF Gifted, SalesOf, CampaignsGiving
<1>7. ASSUME NEW onSale PROVE UsableFor(onSale)' = UsableFor(onSale)
  BY <1>0 DEF UsableFor, Stacks
<1>8. ASSUME NEW g, NEW fromRedis PROVE WinnersFor(g, fromRedis)' = WinnersFor(g, fromRedis)
  BY <1>0, <1>7 DEF WinnersFor
<1>9. ASSUME NEW g, NEW rules, NEW w PROVE WithOffers(g, rules, w)' = WithOffers(g, rules, w)
  BY <1>1 DEF WithOffers
<1>10. ASSUME NEW b PROVE Opened(x, b)' <=> Opened(x, b)
  <2>1. ASSUME NEW g, NEW fromRedis
        PROVE  (b = WithOffers(g, UsableFor(g.onSale), WinnersFor(g, fromRedis)))'
                 <=> b = WithOffers(g, UsableFor(g.onSale), WinnersFor(g, fromRedis))
    BY <1>7, <1>8, <1>9
  <2> QED BY <1>6, <2>1 DEF Opened
<1>11. ASSUME NEW a, NEW k PROVE CouponDiscount(a, k)' = CouponDiscount(a, k)
  BY <1>0 DEF CouponDiscount
<1>12. ASSUME NEW a, NEW k PROVE RefusalOn(x, a, k)' = RefusalOn(x, a, k)
  <2>1. CouponRow(k)' = CouponRow(k)
    BY <1>0 DEF CouponRow
  <2> DEFINE row == CouponRow(k)
             old == Told(row, shop.couponAfterAuto, shop.stackCategory,
                         a.auto, a.remaining, BesideOtherSale(a, row.coupon), x \notin guests,
                         sees[x].ordered, sees[x].newcomer, CouponDiscount(a, k))
  <2>2. BesideOtherSale(a, row.coupon)' = BesideOtherSale(a, row.coupon)
    BY <1>0, <2>1 DEF BesideOtherSale
  <2>3. RefusalOn(x, a, k) = old /\ RefusalOn(x, a, k)' = old'
    BY DEF RefusalOn, Told
  <2>4. old' = old
    <3>1. (x \notin guests)' = (x \notin guests)
      BY <1>0
    <3> QED BY <1>0, <1>11, <2>1, <2>2, <3>1
  <2> QED BY <2>3, <2>4
<1>13. ASSUME NEW a, NEW k PROVE Redeemed(a, k)' = Redeemed(a, k)
  BY <1>0, <1>11 DEF Redeemed
<1>14. ASSUME NEW a, NEW k, NEW b PROVE Tried(x, a, k, b)' <=> Tried(x, a, k, b)
  BY <1>12, <1>13 DEF Tried
<1>15. ASSUME NEW b, NEW m PROVE Traced(x, b, m)' <=> Traced(x, b, m)
  <2>1. ASSUME NEW t PROVE Trace(x, t, m)' <=> Trace(x, t, m)
    BY <1>1, <1>10, <1>14 DEF Trace
  <2> QED BY <2>1 DEF Traced
<1> QED BY <1>1, <1>4, <1>5, <1>6, <1>15

\* A step of one call leaves the others, and the world, as they are.
Others(c) ==
  /\ \A d \in Calls \ {c} : /\ bill'[d] = bill[d] /\ at'[d] = at[d]
                            /\ pc'[d] = pc[d] /\ sees'[d] = sees[d]
  /\ UNCHANGED world

\* The steps of a call that do not write to the shop.
LEMMA OthersStay ==
  ASSUME Inv, NEW c \in Calls,
         \/ RefuseBasket(c) \/ ShowNothing(c) \/ ReadSettings(c) \/ ReadOffers(c)
         \/ GiveBundles(c) \/ ReadRules(c) \/ ReadCustomer(c)
         \/ ApplyCoupon(c) \/ RejectCoupon(c) \/ Suggest(c) \/ AskMinimum(c)
  PROVE  Others(c)
<1>1. UNCHANGED world
  BY DEF RefuseBasket, ShowNothing, ReadSettings, ReadOffers, GiveBundles, ReadRules,
         ReadCustomer, ApplyCoupon, RejectCoupon, Suggest, AskMinimum
<1>2. /\ bill = [d \in Calls |-> bill[d]] /\ at = [d \in Calls |-> at[d]]
      /\ pc \in [Calls -> Stages] /\ sees \in [Calls -> Sights]
  BY DEF Inv, TypeOK, Sights
<1>3. bill' = bill \/ \E e : bill' = [bill EXCEPT ![c] = e]
  <2>1. \/ bill' = bill \/ (\E e : bill' = [bill EXCEPT ![c].rejected = e])
        \/ \E e : bill' = [bill EXCEPT ![c] = e]
    <3>1. CASE RefuseBasket(c) \/ ShowNothing(c) \/ ReadSettings(c) \/ ReadCustomer(c)
                 \/ Suggest(c) \/ AskMinimum(c)
      BY <3>1, Zenon DEF RefuseBasket, ShowNothing, ReadSettings, ReadCustomer, Suggest, AskMinimum
    <3>2. CASE ReadOffers(c)
      BY <3>2, Zenon DEF ReadOffers
    <3>3. CASE GiveBundles(c)
      BY <3>3, Zenon DEF GiveBundles
    <3>4. CASE ReadRules(c)
      BY <3>4, Zenon DEF ReadRules
    <3>5. CASE ApplyCoupon(c)
      BY <3>5, Zenon DEF ApplyCoupon
    <3>6. CASE RejectCoupon(c)
      BY <3>6, Zenon DEF RejectCoupon
    <3> QED BY <3>1, <3>2, <3>3, <3>4, <3>5, <3>6
  <2>2. ASSUME NEW e, bill' = [bill EXCEPT ![c].rejected = e]
        PROVE  bill' = [bill EXCEPT ![c] = [bill[c] EXCEPT !.rejected = e]]
    BY <2>2
  <2> QED BY <2>1, <2>2
<1>4. at' = at \/ \E e : at' = [at EXCEPT ![c] = e]
  BY Zenon DEF RefuseBasket, ShowNothing, ReadSettings, ReadOffers, GiveBundles, ReadRules,
         ReadCustomer, ApplyCoupon, RejectCoupon, Suggest, AskMinimum, Advance
<1>5. \E e : pc' = [pc EXCEPT ![c] = e]
  BY Zenon DEF RefuseBasket, ShowNothing, ReadSettings, ReadOffers, GiveBundles, ReadRules,
         ReadCustomer, ApplyCoupon, RejectCoupon, Suggest, AskMinimum, Advance
<1>6. \A d \in Calls \ {c} : sees'[d] = sees[d]
  <2>1. \/ sees' = sees \/ (\E e : sees' = [sees EXCEPT ![c].paused = e])
        \/ (\E e : sees' = [sees EXCEPT ![c].bundles = e])
        \/ (\E e, g : sees' = [sees EXCEPT ![c].ordered = e, ![c].newcomer = g])
    BY Zenon DEF RefuseBasket, ShowNothing, ReadSettings, ReadOffers, GiveBundles, ReadRules,
         ReadCustomer, ApplyCoupon, RejectCoupon, Suggest, AskMinimum
  <2>2. CASE sees' = sees
    BY <2>2
  <2>3. CASE \E e : sees' = [sees EXCEPT ![c].paused = e]
    BY <1>2, <2>3
  <2>4. CASE \E e : sees' = [sees EXCEPT ![c].bundles = e]
    BY <1>2, <2>4
  <2>5. CASE \E e, g : sees' = [sees EXCEPT ![c].ordered = e, ![c].newcomer = g]
    BY <1>2, <2>5
  <2> QED BY <2>1, <2>2, <2>3, <2>4, <2>5
<1>7. \A d \in Calls \ {c} : bill'[d] = bill[d]
  BY <1>2, <1>3
<1>8. \A d \in Calls \ {c} : at'[d] = at[d]
  BY <1>2, <1>4
<1>9. \A d \in Calls \ {c} : pc'[d] = pc[d]
  BY <1>2, <1>5
<1> QED BY <1>1, <1>6, <1>7, <1>8, <1>9 DEF Others

\* A call that is left alone keeps what it found.
LEMMA SettledStays ==
  ASSUME Steady, NEW x, Settled(x), bill'[x] = bill[x], at'[x] = at[x],
         pc'[x] = pc[x], sees'[x] = sees[x]
  PROVE  Settled(x)'
<1>1. /\ CodesToTry' = CodesToTry
      /\ Quoted(x)' = Quoted(x) /\ GivenTo(x)' = GivenTo(x)
      /\ \A b : Gifted(x, b)' <=> Gifted(x, b)
      /\ \A b, m : Traced(x, b, m)' <=> Traced(x, b, m)
  BY TracedStays
<1>2. shop' = shop
  BY DEF Steady
<1>3. ASSUME NEW b PROVE Bxgy(b)' <=> Bxgy(b)
  BY DEF Bxgy
<1>4. ASSUME NEW b PROVE Ended(x, b)' <=> Ended(x, b)
  BY <1>1, <1>3 DEF Ended
<1>5. MissingToMinimum(x)' = MissingToMinimum(x)
  BY <1>2 DEF MissingToMinimum, Subtotal
<1>6. ASSUME NEW b, NEW n PROVE AllApplied(b, n)' <=> AllApplied(b, n)
  BY <1>1 DEF AllApplied
<1>7. Turned(x) => Turned(x)'
  <2>1. ASSUME NEW b PROVE BillOK(b)' <=> BillOK(b)
    BY DEF BillOK
  <2>2. ASSUME Bxgy(bill[x]), CodesToTry # <<>>, Traced(x, bill[x], 0) PROVE Turned(x)'
    BY <1>1, <1>3, <2>2 DEF Turned
  <2>3. ASSUME ~Bxgy(bill[x]), bill[x].rejected # "none",
               NEW m \in 1 .. Len(CodesToTry), Traced(x, bill[x], m)
        PROVE  Turned(x)'
    BY <1>1, <1>3, <2>3 DEF Turned
  <2>4. ASSUME MissingToMinimum(x) > 0,
               NEW b, Ended(x, b), BillOK(b), AllApplied(b, Len(CodesToTry)),
               bill[x] = [b EXCEPT !.rejected = "MIN_PURCHASE_NOT_MET"]
        PROVE  Turned(x)'
    <3>1. /\ Ended(x, b)' /\ BillOK(b)' /\ AllApplied(b, Len(CodesToTry))'
          /\ bill'[x] = [b EXCEPT !.rejected = "MIN_PURCHASE_NOT_MET"]
          /\ MissingToMinimum(x)' > 0
      BY <1>1, <1>4, <1>5, <1>6, <2>1, <2>4
    <3> QED BY <3>1, Zenon DEF Turned
  <2> QED BY <2>2, <2>3, <2>4 DEF Turned
<1>8. Shelved(x, bill[x]) => Shelved(x, bill[x])'
  BY <1>1 DEF Shelved, SalesOf
<1>9. Gifted(x, bill[x]) => Gifted(x, bill[x])'
  BY <1>1
<1>10. Ended(x, bill[x]) => Ended(x, bill[x])'
  BY <1>4
<1>11. Traced(x, bill[x], at[x] - 1) => Traced(x, bill[x], at[x] - 1)'
  BY <1>1
<1> QED BY <1>2, <1>5, <1>7, <1>8, <1>9, <1>10, <1>11 DEF Settled

\* Nothing has changed since the shop was as it was at first.
Quiet ==
  /\ BasketRefusal(shop.basket, shop.shelf) = "none"
  /\ paused = FALSE /\ running = TRUE
  /\ redis.paused = FALSE /\ redis.running = TRUE
  /\ ordered = FALSE /\ newcomer = TRUE

\* A basket that is taken is not refused, and not empty.
LEMMA SettledBegins ==
  ASSUME Inv, Quiet, NEW c \in Calls, Settled(c),
         RefuseBasket(c) \/ ShowNothing(c) \/ ReadSettings(c)
  PROVE  Settled(c)'
<1>1. ~RefuseBasket(c)
  BY DEF RefuseBasket, Quiet
<1>2. ~ShowNothing(c)
  <2>1. shop \in Shops
    BY DEF Inv, TypeOK
  <2>2. PICK n \in Nat \ {0} : Takes(Cart(c), n)
    BY <2>1, CartTakes DEF Quiet
  <2>3. DOMAIN Cart(c) = 1 .. n /\ 1 \in 1 .. n
    BY <2>2 DEF Takes
  <2>4. Cart(c) # <<>>
    BY <2>3
  <2> QED BY <2>4 DEF ShowNothing
<1>3. ReadSettings(c)
  BY <1>1, <1>2
<1>4. PICK p \in {redis.paused, paused} : sees' = [sees EXCEPT ![c].paused = p]
  BY <1>3 DEF ReadSettings
<1>5. p = FALSE /\ sees \in [Calls -> Sights] /\ pc \in [Calls -> Stages]
  BY DEF Quiet, Inv, TypeOK, Sights
<1>6. sees'[c] = [sees[c] EXCEPT !.paused = FALSE]
  BY <1>4, <1>5
<1>7. sees'[c].paused = FALSE /\ sees'[c].ordered = FALSE /\ sees'[c].newcomer = TRUE
  BY <1>5, <1>6 DEF Settled, Sights
<1>8. pc[c] = "new" /\ pc'[c] = "offers" /\ bill' = bill
  BY <1>3, <1>5 DEF ReadSettings
<1> QED BY <1>7, <1>8 DEF Settled

\* The lines are quoted from what is on sale.
LEMMA SettledOffers ==
  ASSUME Inv, Quiet, NEW c \in Calls, Settled(c), ReadOffers(c)
  PROVE  Settled(c)'
<1> DEFINE reads == ~shop.couponsOnly /\ ~sees[c].paused
           made(sales, bundles) == LinesOf(Cart(c), RunningSales(reads /\ sales),
                                           RunningBundles(reads /\ bundles))
           billed(lines) ==
             LET campaigns == UNION {lines[i].campaigns : i \in DOMAIN lines}
             IN bill' = [bill EXCEPT ![c] =
                  [@ EXCEPT !.lines = lines,
                            !.onSale = campaigns # {},
                            !.campaigns = campaigns,
                            !.credit = SaleCredit(lines)]]
<1>20. PICK sales \in {redis.running, running} : \E bundles \in {redis.running, running} :
         /\ sees' = [sees EXCEPT ![c].bundles = reads /\ bundles]
         /\ \E lines \in {made(sales, bundles)} : billed(lines)
  BY ZenonT(30) DEF ReadOffers
<1>21. PICK bundles \in {redis.running, running} :
         /\ sees' = [sees EXCEPT ![c].bundles = reads /\ bundles]
         /\ \E lines \in {made(sales, bundles)} : billed(lines)
  BY <1>20
<1>1. PICK lines \in {made(sales, bundles)} : billed(lines)
  BY <1>21
<1> DEFINE campaigns == SalesOf(lines)
           credit == SaleCredit(lines)
<1>2. bill' = [bill EXCEPT ![c] = [bill[c] EXCEPT !.lines = lines,
                                             !.onSale = SalesOf(lines) # {},
                                             !.campaigns = SalesOf(lines),
                                             !.credit = SaleCredit(lines)]]
  BY <1>1, Zenon DEF SalesOf
<1>3. sales = TRUE /\ bundles = TRUE /\ sees[c].paused = FALSE
  BY DEF Quiet, Settled
<1>4. /\ bill = [d \in Calls |-> bill[d]] /\ BillOK(bill[c])
      /\ sees \in [Calls -> Sights] /\ pc \in [Calls -> Stages] /\ shop \in Shops
  BY DEF Inv, TypeOK, Sights, CallInv
<1>5. shop.couponsOnly \in BOOLEAN
  BY <1>4, PricingAssumption
<1>6. (reads /\ sales) = ~shop.couponsOnly /\ (reads /\ bundles) = ~shop.couponsOnly
  BY <1>3, <1>5
<1>7. lines = Quoted(c)
  <2>1. lines = LinesOf(Cart(c), RunningSales(reads /\ sales), RunningBundles(reads /\ bundles))
    BY <1>1
  <2> HIDE DEF reads
  <2>2. lines = LinesOf(Cart(c), RunningSales(~shop.couponsOnly), RunningBundles(~shop.couponsOnly))
    BY <1>6, <2>1
  <2> QED BY <2>2, Zenon DEF Quoted, OfferedSales, OfferedBundles
<1>8. sees'[c] = [sees[c] EXCEPT !.bundles = ~shop.couponsOnly]
  <2> DEFINE on == reads /\ bundles
  <2>1. sees' = [sees EXCEPT ![c].bundles = on] /\ on = ~shop.couponsOnly
    BY <1>6, <1>21
  <2> HIDE DEF on
  <2> QED BY <1>4, <2>1
<1>9. /\ sees'[c].paused = FALSE /\ sees'[c].ordered = FALSE /\ sees'[c].newcomer = TRUE
      /\ sees'[c].bundles = ~shop.couponsOnly
  BY <1>4, <1>8 DEF Settled, Sights
<1>10. pc[c] = "offers" /\ pc'[c] = "bundles" /\ shop' = shop
  BY <1>4 DEF ReadOffers, world
<1>11. /\ bill'[c].lines = lines /\ bill'[c].bundle = 0 /\ bill'[c].rejected = "none"
       /\ bill'[c].onSale = (campaigns # {}) /\ bill'[c].campaigns = campaigns
  <2> DEFINE b == bill[c]
             d == bill'[c]
  <2>1. d = [b EXCEPT !.lines = lines, !.onSale = campaigns # {},
                      !.campaigns = campaigns, !.credit = credit]
    BY <1>2, <1>4
  <2>2. BillOK(b) /\ b.bundle = 0 /\ b.rejected = "none"
    BY <1>4, <1>10 DEF Settled
  <2> HIDE DEF b, d, campaigns, credit
  <2>3. /\ d.lines = lines /\ d.bundle = 0 /\ d.rejected = "none"
        /\ d.onSale = (campaigns # {}) /\ d.campaigns = campaigns
    BY <2>1, <2>2 DEF BillOK
  <2> QED BY <2>3 DEF d
<1>12. Quoted(c)' = Quoted(c)
  <2>1. Steady /\ sees'[c].ordered = sees[c].ordered /\ sees'[c].newcomer = sees[c].newcomer
    BY <1>9 DEF Steady, ReadOffers, world, customers, Settled
  <2> QED BY <2>1, TracedStays
<1>13. Shelved(c, bill[c])'
  BY <1>7, <1>11, <1>12 DEF Shelved, SalesOf
<1> QED BY <1>9, <1>10, <1>13 DEF Settled

\* Bundles give what they give for the quoted lines.
LEMMA SettledBundles ==
  ASSUME Inv, Quiet, NEW c \in Calls, Settled(c), GiveBundles(c)
  PROVE  Settled(c)'
<1> DEFINE b == bill[c]
           g == GivenTo(c)
           d == WithGifts(b, g)
<1>1. /\ pc[c] = "bundles" /\ shop' = shop /\ sees' = sees
      /\ pc' = [pc EXCEPT ![c] = "rules"] /\ UNCHANGED world
  BY DEF GiveBundles, world
<1>2. Shelved(c, bill[c]) /\ sees[c].bundles = ~shop.couponsOnly
  BY <1>1 DEF Settled
<1>3. bill' = [bill EXCEPT ![c] = d]
  <2>1. bill' = [bill EXCEPT ![c] =
          WithGifts(bill[c], EvaluateBundles(bill[c].lines, RunningBundles(sees[c].bundles),
                                             shop.combine))]
    BY DEF GiveBundles
  <2>2. EvaluateBundles(bill[c].lines, RunningBundles(sees[c].bundles), shop.combine) = g
    BY <1>2 DEF GivenTo, OfferedBundles, Shelved
  <2> QED BY <2>1, <2>2
<1>4. /\ bill = [y \in Calls |-> bill[y]] /\ BillOK(b) /\ b.coupon = 0 /\ b.applied = <<>>
      /\ pc \in [Calls -> Stages]
  BY <1>1 DEF Inv, TypeOK, CallInv, Early
<1>5. bill'[c] = d /\ pc'[c] = "rules"
  BY <1>1, <1>3, <1>4
<1>6. PICK credit : d = [b EXCEPT !.lines = g.lines, !.bundle = g.discount,
                                  !.campaigns = b.campaigns \cup CampaignsGiving(g.credit),
                                  !.credit = credit]
  BY Zenon DEF WithGifts, CampaignsGiving
<1>7. b.rejected = "none" /\ b.onSale = (SalesOf(Quoted(c)) # {})
      /\ b.campaigns = SalesOf(Quoted(c))
  BY <1>2 DEF Shelved
<1> HIDE DEF b, g, d
<1>8. /\ d.lines = g.lines /\ d.bundle = g.discount /\ d.onSale = b.onSale
      /\ d.campaigns = b.campaigns \cup CampaignsGiving(g.credit)
      /\ d.rejected = b.rejected /\ d.coupon = b.coupon /\ d.applied = b.applied
  BY <1>4, <1>6 DEF BillOK
<1>9. Gifted(c, d)
  BY <1>4, <1>7, <1>8 DEF Gifted, g
<1>10. Gifted(c, bill'[c])
  BY <1>5, <1>9
<1>11. Gifted(c, bill[c])'
  <2>1. Steady
    BY <1>1 DEF Steady, world, customers
  <2> QED BY <1>1, <1>10, <2>1, TracedStays
<1> QED BY <1>1, <1>5, <1>11 DEF Settled

\* An opened bill is a trace of no code.
LEMMA TraceBegins ==
  ASSUME NEW x, NEW b, BillOK(b), Opened(x, b)
  PROVE  Traced(x, b, 0)
<1> DEFINE t == [i \in 0 .. 0 |-> b]
<1>1. t[0] = b /\ \A i \in 0 .. 0 : t[i] = b
  OBVIOUS
<1>2. 1 .. 0 = {}
  OBVIOUS
<1> HIDE DEF t
<1>3. Trace(x, t, 0)
  BY <1>1, <1>2 DEF Trace
<1> QED BY <1>1, <1>3 DEF Traced

\* All rules count, and a bundle ends it.
LEMMA SettledRules ==
  ASSUME Inv, Inv', Quiet, NEW c \in Calls, Settled(c), ReadRules(c)
  PROVE  Settled(c)'
<1> DEFINE b == bill[c]
           d == bill'[c]
           rulesOf(fromRedis) ==
             IF sees[c].paused \/ ~(IF fromRedis THEN redis.running ELSE running)
             THEN <<>> ELSE shop.autos
           usableOf(fromRedis) ==
             IF b.onSale THEN Those(rulesOf(fromRedis),
                                    {i \in DOMAIN rulesOf(fromRedis) : Stacks(rulesOf(fromRedis)[i])})
             ELSE rulesOf(fromRedis)
           winnersOf(fromRedis) ==
             Winners(usableOf(fromRedis), Amounts(b.lines), shop.combine, fromRedis)
<1>1. PICK fromRedis \in BOOLEAN :
        bill' = [bill EXCEPT ![c] =
                   WithOffers(bill[c], usableOf(fromRedis), winnersOf(fromRedis))]
  BY Zenon DEF ReadRules
<1>2. /\ pc[c] = "rules" /\ shop' = shop /\ sees' = sees /\ at' = at /\ UNCHANGED world
  BY DEF ReadRules, world
<1>3. /\ bill = [y \in Calls |-> bill[y]] /\ pc \in [Calls -> Stages]
      /\ BillOK(b) /\ at[c] = 1
  BY <1>2 DEF Inv, TypeOK, CallInv, Early
<1>4. /\ sees[c].paused = FALSE /\ sees[c].ordered = FALSE /\ sees[c].newcomer = TRUE
      /\ Gifted(c, b)
  BY <1>2 DEF Settled
<1>5. rulesOf(fromRedis) = shop.autos
  BY <1>4 DEF Quiet
<1>6. usableOf(fromRedis) = UsableFor(b.onSale) /\ winnersOf(fromRedis) = WinnersFor(b, fromRedis)
  <2>1. usableOf(fromRedis) = UsableFor(b.onSale)
    BY <1>5 DEF UsableFor
  <2> HIDE DEF usableOf, b
  <2>2. winnersOf(fromRedis) = WinnersFor(b, fromRedis)
    BY <2>1 DEF WinnersFor
  <2> QED BY <2>1, <2>2
<1>7. d = WithOffers(b, UsableFor(b.onSale), WinnersFor(b, fromRedis))
  <2> HIDE DEF usableOf, winnersOf
  <2> QED BY <1>1, <1>3, <1>6
<1>8. BillOK(d)
  BY DEF Inv, CallInv, BillOK
<1>9. Opened(c, d)
  <2> HIDE DEF b, d
  <2> QED BY <1>3, <1>4, <1>7, Zenon DEF Opened
<1>10. Traced(c, d, 0)
  BY <1>8, <1>9, TraceBegins, Zenon
<1>11. /\ d.lines = b.lines /\ d.bundle = b.bundle
       /\ d.rejected = IF Bxgy(b) /\ CodesToTry # <<>> THEN "COUPON_NOT_WITH_BUNDLE" ELSE b.rejected
       /\ b.rejected = "none"
  <2> HIDE DEF b, d
  <2> QED BY <1>3, <1>4, <1>7, WithOffersHas DEF Gifted
<1>12. Bxgy(d) <=> Bxgy(b)
  BY <1>11, BxgySame
<1>13. /\ CodesToTry' = CodesToTry
       /\ \A e, m : Traced(c, e, m)' <=> Traced(c, e, m)
  <2>1. Steady
    BY <1>2 DEF Steady, world, customers
  <2> QED BY <1>2, <2>1, TracedStays
<1>14. Traced(c, bill[c], 0)'
  BY <1>10, <1>13
<1>15. CodesToTry = <<>> => Len(CodesToTry) = 0
  OBVIOUS
<1>16. Bxgy(bill[c])' <=> Bxgy(b)
  BY <1>12 DEF Bxgy
<1> DEFINE next == CASE CodesToTry = <<>> -> "done"
         [] CodesToTry # <<>> /\ Bxgy(bill[c]) -> IF c \in Previews THEN "done" ELSE "refused"
         [] CodesToTry # <<>> /\ ~Bxgy(bill[c]) /\ sees[c].paused -> "done"
         [] OTHER -> IF c \in guests THEN "coupons" ELSE "customer"
<1>17. pc'[c] = next
  <2>1. pc' = [pc EXCEPT ![c] = next]
    BY DEF ReadRules
  <2> HIDE DEF next
  <2> QED BY <1>3, <2>1
<1>18. /\ next \in {"done", "refused", "coupons", "customer"}
       /\ next = "done" => CodesToTry = <<>> \/ (Bxgy(b) /\ c \in Previews)
       /\ next = "refused" => CodesToTry # <<>> /\ Bxgy(b)
       /\ next \in {"coupons", "customer"} => CodesToTry # <<>> /\ ~Bxgy(b)
  BY <1>4
<1> HIDE DEF next, b, d, usableOf, winnersOf, rulesOf
<1>19. ASSUME pc'[c] = "done" PROVE Ended(c, bill[c])'
  BY <1>13, <1>14, <1>15, <1>16, <1>17, <1>18, <1>19 DEF Ended
<1>20. ASSUME pc'[c] = "refused" PROVE Turned(c)'
  BY <1>13, <1>14, <1>16, <1>17, <1>18, <1>20 DEF Turned
<1>21. ASSUME pc'[c] \in {"coupons", "customer"}
       PROVE  Traced(c, bill[c], at[c] - 1)' /\ bill'[c].rejected = "none"
  <2>1. at'[c] - 1 = 0
    BY <1>2, <1>3
  <2>2. d.rejected = "none"
    BY <1>11, <1>17, <1>18, <1>21
  <2> QED BY <1>14, <2>1, <2>2 DEF d
<1> QED BY <1>2, <1>4, <1>17, <1>18, <1>19, <1>20, <1>21 DEF Settled

\* The customer has no order yet, and is new.
LEMMA SettledCustomer ==
  ASSUME Inv, Quiet, NEW c \in Calls, Settled(c), ReadCustomer(c)
  PROVE  Settled(c)'
<1>1. /\ pc[c] = "customer" /\ pc'[c] = "coupons" /\ shop' = shop /\ bill' = bill /\ at' = at
      /\ UNCHANGED world
  BY DEF ReadCustomer, world, Inv, TypeOK
<1>2. sees'[c] = [sees[c] EXCEPT !.ordered = FALSE, !.newcomer = TRUE]
  BY DEF ReadCustomer, Quiet, Inv, TypeOK
<1>3. sees'[c].paused = FALSE /\ sees'[c].ordered = FALSE /\ sees'[c].newcomer = TRUE
      /\ sees'[c].ordered = sees[c].ordered /\ sees'[c].newcomer = sees[c].newcomer
  BY <1>2 DEF Settled, Inv, TypeOK
<1>4. Steady
  BY <1>1 DEF Steady, world, customers
<1>5. \A e, m : Traced(c, e, m)' <=> Traced(c, e, m)
  BY <1>3, <1>4, TracedStays
<1>6. Traced(c, bill[c], at[c] - 1) /\ (c \notin Previews => bill[c].rejected = "none")
  BY <1>1 DEF Settled
<1>7. Traced(c, bill[c], at[c] - 1)'
  BY <1>1, <1>5, <1>6
<1> QED BY <1>1, <1>3, <1>6, <1>7 DEF Settled

\* A code that was tried.
LEMMA SettledCode ==
  ASSUME Inv, Inv', Quiet, NEW c \in Calls, Settled(c), ApplyCoupon(c) \/ RejectCoupon(c)
  PROVE  Settled(c)'
<1> DEFINE b == bill[c]
           d == bill'[c]
           k == Code(c)
           m == at[c] - 1
<1>1. /\ pc[c] = "coupons" /\ shop' = shop /\ sees' = sees /\ UNCHANGED world
  BY DEF ApplyCoupon, RejectCoupon, world
<1>2. /\ bill = [y \in Calls |-> bill[y]] /\ pc \in [Calls -> Stages] /\ at = [y \in Calls |-> at[y]]
      /\ BillOK(b) /\ at[c] \in 1 .. Len(CodesToTry) /\ ~Bxgy(b)
      /\ CodesToTry \in Seq(Codes) /\ Len(CodesToTry) \in Nat
  <2>1. shop \in Shops /\ CallInv(c)
    BY DEF Inv, TypeOK
  <2>2. CodesToTry \in Seq(Codes) /\ Len(CodesToTry) \in Nat
    BY <2>1, CodesFacts
  <2>3. at[c] \in 1 .. Len(CodesToTry)
    BY <1>1, <2>1, <2>2 DEF CallInv
  <2> QED BY <1>1, <2>1, <2>2, <2>3 DEF Inv, TypeOK, CallInv
<1>3. /\ sees[c].paused = FALSE /\ sees[c].ordered = FALSE /\ sees[c].newcomer = TRUE
      /\ Traced(c, b, m) /\ (c \notin Previews => b.rejected = "none")
  BY <1>1 DEF Settled
<1>4. BillOK(d)
  BY DEF Inv, CallInv, BillOK
<1>5. m \in Nat /\ m + 1 = at[c] /\ k = CodesToTry[m + 1] /\ k \in Codes
  BY <1>2 DEF Code
<1>6. Tried(c, b, k, d)
  <2>1. CASE ApplyCoupon(c)
    <3>1. bill' = [bill EXCEPT ![c] = Redeemed(bill[c], Code(c))]
          /\ RefusalOn(c, bill[c], Code(c)) = "none"
      BY <2>1 DEF ApplyCoupon, Refusal
    <3>2. d = Redeemed(b, k)
      BY <1>2, <3>1
    <3> QED BY <3>1, <3>2 DEF Tried
  <2>2. CASE RejectCoupon(c)
    <3> DEFINE reason == IF bill[c].rejected = "none" THEN RefusalOn(c, bill[c], Code(c))
                         ELSE bill[c].rejected
    <3>1. bill' = [bill EXCEPT ![c].rejected = reason]
          /\ RefusalOn(c, bill[c], Code(c)) # "none"
      BY <2>2, Zenon DEF RejectCoupon, Refusal
    <3>2. d = [b EXCEPT !.rejected = reason]
      <4> HIDE DEF reason
      <4> QED BY <1>2, <3>1
    <3> QED BY <3>1, <3>2, Zenon DEF Tried
  <2> QED BY <2>1, <2>2
<1> HIDE DEF b, d, k, m
<1>7. Traced(c, d, m + 1)
  BY <1>3, <1>4, <1>5, <1>6, TraceGrows
<1>8. /\ CodesToTry' = CodesToTry
      /\ \A e, n : Traced(c, e, n)' <=> Traced(c, e, n)
  <2>1. Steady
    BY <1>1 DEF Steady, world, customers
  <2> QED BY <1>1, <2>1, TracedStays
<1>9. Traced(c, bill'[c], at[c])
  BY <1>5, <1>7 DEF d
<1>10. GoesOn(b, k, d)
  BY <1>2, <1>5, <1>6, TriedKeeps
<1>11. ~Bxgy(d)
  BY <1>2, <1>10, BxgySame DEF GoesOn
<1>12. ~Bxgy(bill[c])'
  BY <1>11 DEF Bxgy, d
<1>13. CASE Advance(c)
  <2>1. /\ at'[c] = at[c] + 1
        /\ pc'[c] = "coupons" => at[c] < Len(CodesToTry)
        /\ pc'[c] = "done" => at[c] = Len(CodesToTry)
        /\ pc'[c] \in {"coupons", "done"}
    BY <1>1, <1>13, AdvanceIs
  <2>2. c \notin Previews => d.rejected = "none"
    <3>1. ASSUME c \notin Previews PROVE RefusalOn(c, b, k) = "none" /\ d = Redeemed(b, k)
      <4>1. ~RejectCoupon(c)
        <5>1. ASSUME RejectCoupon(c) PROVE FALSE
          <6>1. at' = at
            BY <3>1, <5>1 DEF RejectCoupon
          <6> QED BY <1>2, <2>1, <6>1
        <5> QED BY <5>1
      <4>2. ApplyCoupon(c)
        BY <4>1
      <4>3. Refusal(c, Code(c)) = "none" /\ bill' = [bill EXCEPT ![c] = Redeemed(bill[c], Code(c))]
        BY <4>2 DEF ApplyCoupon
      <4> QED BY <1>2, <4>3 DEF b, d, k, Refusal
    <3>2. ASSUME d = Redeemed(b, k) PROVE d.rejected = b.rejected
      <4>1. PICK applied, coupon, remaining, campaigns, credit :
              d = [b EXCEPT !.applied = applied, !.coupon = coupon, !.remaining = remaining,
                            !.campaigns = campaigns, !.credit = credit]
        BY <3>2, Zenon DEF Redeemed
      <4> QED BY <1>2, <4>1 DEF BillOK
    <3> QED BY <1>3, <3>1, <3>2
  <2>3. Traced(c, bill[c], at[c] - 1)'
    <3>1. at'[c] - 1 = at[c]
      BY <1>2, <2>1
    <3> QED BY <1>8, <1>9, <3>1
  <2>4. pc'[c] = "done" => Ended(c, bill[c])'
    <3>1. ASSUME pc'[c] = "done" PROVE Traced(c, bill[c], Len(CodesToTry))'
      <4>1. Traced(c, bill'[c], Len(CodesToTry'))
        BY <1>8, <1>9, <2>1, <3>1
      <4> QED BY <1>8, <4>1
    <3> QED BY <1>12, <3>1 DEF Ended
  <2> QED BY <1>1, <1>3, <2>1, <2>2, <2>3, <2>4 DEF Settled, d
<1>14. CASE ~Advance(c)
  <2>1. RejectCoupon(c) /\ pc' = [pc EXCEPT ![c] = "refused"]
    BY <1>14 DEF ApplyCoupon, RejectCoupon
  <2>2. pc'[c] = "refused"
    BY <1>2, <2>1
  <2>3. d.rejected # "none"
    <3> DEFINE reason == IF bill[c].rejected = "none" THEN RefusalOn(c, bill[c], Code(c))
                         ELSE bill[c].rejected
    <3>1. bill' = [bill EXCEPT ![c].rejected = reason]
          /\ RefusalOn(c, bill[c], Code(c)) # "none"
      BY <2>1, Zenon DEF RejectCoupon, Refusal
    <3>2. reason # "none"
      BY <3>1
    <3>3. d = [b EXCEPT !.rejected = reason]
      <4> HIDE DEF reason
      <4> QED BY <1>2, <3>1 DEF b, d
    <3> HIDE DEF reason
    <3> QED BY <1>2, <3>2, <3>3 DEF BillOK
  <2>4. Turned(c)'
    <3>1. bill'[c].rejected # "none" /\ at[c] \in 1 .. Len(CodesToTry')
      BY <1>2, <1>8, <2>3 DEF d
    <3>2. \E n \in 1 .. Len(CodesToTry') : Traced(c, bill'[c], n)
      BY <1>9, <3>1
    <3>3. (\E n \in 1 .. Len(CodesToTry) : Traced(c, bill[c], n))'
      BY <1>8, <3>2
    <3> QED BY <1>12, <3>1, <3>3 DEF Turned
  <2> QED BY <1>1, <1>3, <2>2, <2>4 DEF Settled
<1> QED BY <1>13, <1>14

\* The suggestions change nothing of a bill, and the minimum purchase is asked
\* for when all codes applied.
LEMMA SettledAnswer ==
  ASSUME Inv, NEW c \in Calls, Settled(c), Suggest(c) \/ AskMinimum(c)
  PROVE  Settled(c)'
<1> DEFINE b == bill[c]
<1>1. /\ pc[c] = "done" /\ shop' = shop /\ sees' = sees /\ UNCHANGED world
      /\ pc \in [Calls -> Stages] /\ bill = [y \in Calls |-> bill[y]]
      /\ BillOK(b) /\ shop \in Shops
  BY DEF Suggest, AskMinimum, world, Inv, TypeOK, CallInv
<1>2. /\ sees[c].paused = FALSE /\ sees[c].ordered = FALSE /\ sees[c].newcomer = TRUE
      /\ Ended(c, b)
  BY <1>1 DEF Settled
<1>3. /\ CodesToTry' = CodesToTry
      /\ \A e, m : Traced(c, e, m)' <=> Traced(c, e, m)
  <2>1. Steady
    BY <1>1 DEF Steady, world, customers
  <2> QED BY <1>1, <2>1, TracedStays
<1>4. ASSUME NEW e PROVE Ended(c, e)' <=> Ended(c, e)
  <2>1. Bxgy(e)' <=> Bxgy(e)
    BY DEF Bxgy
  <2> QED BY <1>3, <2>1 DEF Ended
<1>5. ASSUME bill' = bill PROVE Ended(c, bill[c])'
  BY <1>2, <1>4, <1>5
<1>6. CASE Suggest(c)
  <2>1. pc'[c] = "answered" /\ bill' = bill /\ c \in Previews
    BY <1>1, <1>6 DEF Suggest
  <2> QED BY <1>1, <1>2, <1>5, <2>1 DEF Settled
<1>7. CASE AskMinimum(c)
  <2>1. c \notin Previews /\ CallInv(c)
    BY <1>7 DEF AskMinimum, Inv
  <2>2. AllApplied(b, Len(CodesToTry))
    BY <1>1, <1>2, <2>1 DEF CallInv
  <2>3. b.afterAuto \in Nat /\ b.coupon \in Nat /\ shop.minimum \in Nat
    BY <1>1, PricingAssumption DEF BillOK
  <2>4. Subtotal(c) \in Nat /\ MissingToMinimum(c) \in Nat
    BY <2>3 DEF Subtotal, MissingToMinimum, NonNegative
  <2>5. CASE MissingToMinimum(c) > 0
    <3>1. pc' = [pc EXCEPT ![c] = "refused"]
          /\ bill' = [bill EXCEPT ![c].rejected = "MIN_PURCHASE_NOT_MET"]
      BY <1>7, <2>5 DEF AskMinimum
    <3>2. pc'[c] = "refused" /\ bill'[c] = [b EXCEPT !.rejected = "MIN_PURCHASE_NOT_MET"]
      BY <1>1, <3>1
    <3>3. bill'[c].afterAuto = b.afterAuto /\ bill'[c].coupon = b.coupon
      <4> HIDE DEF b
      <4> QED BY <1>1, <3>2 DEF BillOK
    <3>4. MissingToMinimum(c)' = MissingToMinimum(c)
      BY <1>1, <3>3 DEF MissingToMinimum, Subtotal
    <3>5. Ended(c, b) /\ BillOK(b) /\ AllApplied(b, Len(CodesToTry))
      BY <1>1, <1>2, <2>2
    <3> HIDE DEF b
    <3>6. \A e : /\ Ended(c, e)' <=> Ended(c, e)
                 /\ BillOK(e)' <=> BillOK(e)
                 /\ AllApplied(e, Len(CodesToTry))' <=> AllApplied(e, Len(CodesToTry))
      BY <1>3, <1>4 DEF BillOK, AllApplied
    <3>7. \E e : /\ Ended(c, e)' /\ BillOK(e)' /\ AllApplied(e, Len(CodesToTry))'
                 /\ bill'[c] = [e EXCEPT !.rejected = "MIN_PURCHASE_NOT_MET"]
      BY <3>2, <3>5, <3>6
    <3>8. MissingToMinimum(c)' > 0
      BY <2>5, <3>4
    <3>9. Turned(c)'
      BY <3>7, <3>8, Zenon DEF Turned
    <3> QED BY <1>1, <1>2, <3>2, <3>9 DEF Settled
  <2>6. CASE ~(MissingToMinimum(c) > 0)
    <3>1. pc' = [pc EXCEPT ![c] = "answered"] /\ bill' = bill
      BY <1>7, <2>6 DEF AskMinimum
    <3>2. pc'[c] = "answered"
      BY <1>1, <3>1
    <3>3. MissingToMinimum(c)' = MissingToMinimum(c)
      BY <1>1, <3>1 DEF MissingToMinimum, Subtotal
    <3>4. MissingToMinimum(c)' = 0
      BY <2>4, <2>6, <3>3
    <3> QED BY <1>1, <1>2, <1>5, <3>1, <3>2, <3>4 DEF Settled
  <2> QED BY <2>5, <2>6
<1> QED BY <1>6, <1>7

\* At first every call is new, and nothing was changed.
LEMMA CalmInit == Init => Calm
<1> SUFFICES ASSUME Init PROVE Calm
  OBVIOUS
<1>1. /\ paused = FALSE /\ running = TRUE
      /\ redis.paused = FALSE /\ redis.running = TRUE
      /\ ordered = FALSE /\ newcomer = TRUE
  BY DEF Init
<1>2. ASSUME NEW x \in Calls PROVE Settled(x)
  <2>1. /\ sees[x].paused = FALSE /\ sees[x].ordered = FALSE /\ sees[x].newcomer = TRUE
        /\ pc[x] = "new" /\ bill[x].rejected = "none" /\ bill[x].bundle = 0
    BY DEF Init, NoBill
  <2> QED BY <2>1 DEF Settled
<1> QED BY <1>1, <1>2 DEF Calm

\* A step of a call keeps what the calls found.
LEMMA CalmCall ==
  ASSUME Inv, Inv', Calm, NEW c \in Calls,
         \/ RefuseBasket(c) \/ ShowNothing(c) \/ ReadSettings(c) \/ ReadOffers(c)
         \/ GiveBundles(c) \/ ReadRules(c) \/ ReadCustomer(c)
         \/ ApplyCoupon(c) \/ RejectCoupon(c) \/ Suggest(c) \/ AskMinimum(c)
  PROVE  Calm'
<1>1. Others(c)
  BY OthersStay
<1>2. /\ UNCHANGED <<shop, paused, running, redis, ordered, newcomer, changesLeft>>
      /\ Steady
  BY <1>1 DEF Others, world, customers, Steady
<1> SUFFICES ASSUME Undisturbed', BasketRefusal(shop'.basket, shop'.shelf) = "none"
             PROVE  /\ paused' = FALSE /\ running' = TRUE
                    /\ redis'.paused = FALSE /\ redis'.running = TRUE
                    /\ ordered' = FALSE /\ newcomer' = TRUE
                    /\ \A x \in Calls : Settled(x)'
  BY DEF Calm
<1>3. Undisturbed /\ BasketRefusal(shop.basket, shop.shelf) = "none"
  BY <1>2 DEF Undisturbed
<1>4. Quiet /\ \A x \in Calls : Settled(x)
  BY <1>3 DEF Calm, Quiet
<1>5. ASSUME NEW x \in Calls, x # c PROVE Settled(x)'
  <2>1. bill'[x] = bill[x] /\ at'[x] = at[x] /\ pc'[x] = pc[x] /\ sees'[x] = sees[x]
    BY <1>1, <1>5 DEF Others
  <2> QED BY <1>2, <1>4, <2>1, SettledStays
<1>6. Settled(c)'
  <2>1. Settled(c)
    BY <1>4
  <2> QED BY <1>4, <2>1, SettledBegins, SettledOffers, SettledBundles, SettledRules,
             SettledCustomer, SettledCode, SettledAnswer
<1> QED BY <1>2, <1>4, <1>5, <1>6 DEF Quiet

\* A change ends the calm, and what the cache reads meanwhile is what it had.
LEMMA CalmStep == Inv /\ Inv' /\ Calm /\ [Next]_vars => Calm'
<1> SUFFICES ASSUME Inv, Inv', Calm, [Next]_vars PROVE Calm'
  OBVIOUS
<1>1. ASSUME NEW c \in Calls,
             \/ RefuseBasket(c) \/ ShowNothing(c) \/ ReadSettings(c) \/ ReadOffers(c)
             \/ GiveBundles(c) \/ ReadRules(c) \/ ReadCustomer(c)
             \/ ApplyCoupon(c) \/ RejectCoupon(c) \/ Suggest(c) \/ AskMinimum(c)
      PROVE  Calm'
  BY <1>1, CalmCall
<1>2. ASSUME Change PROVE Calm'
  <2>1. changesLeft' = changesLeft - 1 /\ changesLeft \in 0 .. ChangeBudget /\ ChangeBudget \in Nat
    BY <1>2, PricingAssumption DEF Change, Inv, TypeOK
  <2>2. ~Undisturbed'
    BY <2>1 DEF Undisturbed
  <2> QED BY <2>2 DEF Calm
<1>3. ASSUME UNCHANGED <<shop, paused, running, customers, changesLeft, guests, calls>>,
             \/ UNCHANGED redis
             \/ redis' \in {[redis EXCEPT !.paused = paused], [redis EXCEPT !.running = running],
                            [redis EXCEPT !.live = live]}
      PROVE  Calm'
  <2> SUFFICES ASSUME Undisturbed', BasketRefusal(shop'.basket, shop'.shelf) = "none"
               PROVE  /\ paused' = FALSE /\ running' = TRUE
                      /\ redis'.paused = FALSE /\ redis'.running = TRUE
                      /\ ordered' = FALSE /\ newcomer' = TRUE
                      /\ \A x \in Calls : Settled(x)'
    BY DEF Calm
  <2>1. Undisturbed /\ BasketRefusal(shop.basket, shop.shelf) = "none"
    BY <1>3 DEF Undisturbed
  <2>2. /\ paused = FALSE /\ running = TRUE
        /\ redis.paused = FALSE /\ redis.running = TRUE
        /\ ordered = FALSE /\ newcomer = TRUE
        /\ \A x \in Calls : Settled(x)
    BY <2>1 DEF Calm
  <2>3. redis'.paused = FALSE /\ redis'.running = TRUE
    BY <1>3, <2>2 DEF Inv, TypeOK
  <2>4. Steady
    BY <1>3 DEF Steady, customers
  <2>5. ASSUME NEW x \in Calls PROVE Settled(x)'
    <3>1. bill'[x] = bill[x] /\ at'[x] = at[x] /\ pc'[x] = pc[x] /\ sees'[x] = sees[x]
      BY <1>3 DEF calls
    <3> QED BY <2>2, <2>4, <3>1, SettledStays
  <2> QED BY <1>3, <2>2, <2>3, <2>5 DEF customers
<1>4. CASE Next
  <2>1. ASSUME NEW k \in Codes, EndCoupon(k) \/ OtherRedeems(k) \/ CustomerOrders(k) PROVE Change
    BY <2>1 DEF EndCoupon, OtherRedeems, CustomerOrders
  <2>2. ASSUME PausePromotions \/ EndCampaigns \/ CustomerAges PROVE Change
    BY <2>2 DEF PausePromotions, EndCampaigns, CustomerAges
  <2>3. ASSUME RefreshCache PROVE Calm'
    BY <1>3, <2>3 DEF RefreshCache
  <2> QED BY <1>1, <1>2, <1>4, <2>1, <2>2, <2>3 DEF Next
<1>5. CASE UNCHANGED vars
  BY <1>3, <1>5 DEF vars, world
<1> QED BY <1>4, <1>5

-----------------------------------------------------------------------------
(* Rows of an order, and of an answer.                                      *)

\* The rows of an order and those that were shown, as ChargedAsShown has them.
RowsMatch(rows, shown) ==
  /\ \A product \in Asked :
       \E row \in ToSet(rows) : /\ row.product = product
                                    /\ row.quantity >= QuantityOf(shop.basket, product)
  /\ \A row \in ToSet(rows) :
       /\ \E other \in ToSet(shown) :
            /\ other.product = row.product
            /\ other.total = row.total
            /\ Rewarded(row.product) \/ other.quantity + other.offer = row.quantity
       /\ row.product \in Asked =>
            row.unit = UnitShown(row.product, shop.shelf[row.product], shop.overlays,
                                 shop.overlap, ~shop.couponsOnly /\ ~paused)

\* The fields of a row of an order.
LEMMA OrderRowHas ==
  ASSUME NEW line, NEW ticks
  PROVE  LET row == OrderRow(line, ticks)
         IN /\ row.product = line.product /\ row.unit = line.unit /\ row.total = Payable(line)
            /\ row.quantity = (IF line.paid > 0 THEN line.paid ELSE ticks) + line.free
BY DEF OrderRow, OrderQuantities

\* A basket that is taken is priced at the quantities it asks for.
LEMMA WholeQuantities ==
  ASSUME shop \in Shops, BasketRefusal(shop.basket, shop.shelf) = "none",
         NEW cart, NEW n \in Nat, Takes(cart, n), NEW i \in 1 .. n
  PROVE  /\ cart[i].ticks = QuantityOf(shop.basket, cart[i].product)
         /\ Quantity(cart[i]) = cart[i].ticks /\ cart[i].ticks \in Nat
<1> DEFINE product == cart[i].product
           q == QuantityOf(shop.basket, product)
<1>1. product \in Asked /\ cart[i] = ItemFor(product)
  BY DEF Takes
<1>2. q \in Nat
  BY QuantityOfType
<1>3. shop.shelf[product].weighed \/ q % Ticks = 0
  BY <1>1, CartTakes
<1> HIDE DEF product
<1>4. cart[i].ticks = q /\ cart[i].weighed = shop.shelf[product].weighed
  BY <1>1 DEF ItemFor
<1> HIDE DEF q
<1>5. q % Ticks = 0 => (q \div Ticks) * Ticks = q
  BY <1>2, TicksType
<1> QED BY <1>2, <1>3, <1>4, <1>5 DEF Quantity, q, product

\* The lines of a call, from what its cart takes and what bundles gave.
LEMMA GivenRows ==
  ASSUME shop \in Shops, BasketRefusal(shop.basket, shop.shelf) = "none",
         NEW x, NEW n \in Nat, Takes(Cart(x), n), Quotes(Quoted(x), Cart(x), n, OfferedSales)
  PROVE  LET t == GivenTo(x).lines
             cart == Cart(x)
         IN /\ t \in Seq(Lines) /\ 1 .. n \subseteq DOMAIN t /\ DOMAIN cart = 1 .. n
            /\ \A i \in DOMAIN t : t[i].paid \in Nat /\ t[i].free \in Nat
            /\ \A i \in DOMAIN t : i \notin 1 .. n => Rewarded(t[i].product)
            /\ \A i \in DOMAIN t : t[i].product \in Asked =>
                 t[i].unit = UnitAt(t[i].product, OfferedSales)
            /\ \A i \in 1 .. n :
                 /\ t[i].product = cart[i].product
                 /\ Quantity(cart[i]) = cart[i].ticks /\ cart[i].ticks \in Nat
                 /\ cart[i].ticks = QuantityOf(shop.basket, t[i].product)
                 /\ t[i].paid + t[i].free >= cart[i].ticks
                 /\ Rewarded(t[i].product) \/ t[i].paid = cart[i].ticks
<1> DEFINE t == GivenTo(x).lines
           u == Quoted(x)
           cart == Cart(x)
           sales == OfferedSales
<1>1. t \in Seq(Lines) /\ Grown(t, u)
  BY QuotedIs
<1>2. /\ u \in Seq(Lines) /\ n <= Len(u) /\ \A i \in DOMAIN u : u[i].free = 0
      /\ \A i \in 1 .. n : u[i].product = cart[i].product /\ u[i].paid = Quantity(cart[i])
      /\ \A i \in DOMAIN u :
           (\E j \in DOMAIN cart : cart[j].product = u[i].product) =>
             u[i].unit = UnitAt(u[i].product, sales)
      /\ \A i \in DOMAIN u : i \notin 1 .. n => Rewarded(u[i].product)
  BY DEF Quotes
<1>3. /\ DOMAIN cart = 1 .. n
      /\ \A product \in Asked : \E i \in 1 .. n : cart[i].product = product
  BY DEF Takes
<1>4. \A i \in 1 .. n : /\ cart[i].ticks = QuantityOf(shop.basket, cart[i].product)
                        /\ Quantity(cart[i]) = cart[i].ticks /\ cart[i].ticks \in Nat
  BY WholeQuantities
<1> HIDE DEF t, u, cart, sales
<1>5. /\ DOMAIN t = DOMAIN u
      /\ \A i \in DOMAIN u :
           /\ t[i].product = u[i].product /\ t[i].unit = u[i].unit
           /\ t[i].paid + t[i].free >= u[i].paid + u[i].free
           /\ Rewarded(u[i].product) \/ t[i].paid = u[i].paid
  BY <1>1 DEF Grown
<1>6. 1 .. n \subseteq DOMAIN u
  BY <1>2
<1>7. \A i \in DOMAIN t : t[i].paid \in Nat /\ t[i].free \in Nat
  BY <1>1 DEF Lines
<1>8. \A i \in DOMAIN t : i \notin 1 .. n => Rewarded(t[i].product)
  BY <1>2, <1>5
<1>9. ASSUME NEW i \in DOMAIN t, t[i].product \in Asked
      PROVE  t[i].unit = UnitAt(t[i].product, sales)
  <2>1. i \in DOMAIN u /\ t[i].product = u[i].product /\ t[i].unit = u[i].unit
    BY <1>5
  <2>2. \E j \in DOMAIN cart : cart[j].product = u[i].product
    BY <1>3, <1>9, <2>1
  <2>3. u[i].unit = UnitAt(u[i].product, sales)
    BY <1>2, <2>1, <2>2
  <2> QED BY <2>1, <2>3
<1>10. ASSUME NEW i \in 1 .. n
       PROVE  /\ t[i].product = cart[i].product
              /\ cart[i].ticks = QuantityOf(shop.basket, t[i].product)
              /\ t[i].paid + t[i].free >= cart[i].ticks
              /\ Rewarded(t[i].product) \/ t[i].paid = cart[i].ticks
  <2>1. /\ i \in DOMAIN u /\ u[i].product = cart[i].product
        /\ u[i].paid = cart[i].ticks /\ u[i].free = 0 /\ cart[i].ticks \in Nat
    BY <1>2, <1>4, <1>6
  <2> QED BY <1>4, <1>5, <2>1
<1>11. 1 .. n \subseteq DOMAIN t
  BY <1>5, <1>6
<1>12. \A i \in 1 .. n :
         /\ t[i].product = cart[i].product
         /\ Quantity(cart[i]) = cart[i].ticks /\ cart[i].ticks \in Nat
         /\ cart[i].ticks = QuantityOf(shop.basket, t[i].product)
         /\ t[i].paid + t[i].free >= cart[i].ticks
         /\ Rewarded(t[i].product) \/ t[i].paid = cart[i].ticks
  BY <1>4, <1>10
<1> QED BY <1>1, <1>3, <1>7, <1>8, <1>9, <1>11, <1>12, Zenon DEF t, cart, sales

\* The page of a product shows the price its lines are quoted at.
LEMMA PageShows ==
  ASSUME shop \in Shops, paused = FALSE, NEW product
  PROVE  UnitShown(product, shop.shelf[product], shop.overlays, shop.overlap,
                   ~shop.couponsOnly /\ ~paused)
           = UnitAt(product, OfferedSales)
<1>1. shop.couponsOnly \in BOOLEAN
  BY PricingAssumption
<1>2. SaleOf(product, <<>>, shop.overlap) = {}
  <2>1. {i \in DOMAIN <<>> : (<<>>)[i].product = product} = {}
    OBVIOUS
  <2> QED BY <2>1 DEF SaleOf
<1>3. CASE shop.couponsOnly = TRUE
  BY <1>2, <1>3 DEF UnitShown, UnitAt, OfferedSales, RunningSales
<1>4. CASE shop.couponsOnly = FALSE
  <2>1. OfferedSales = shop.overlays
    BY <1>4 DEF OfferedSales, RunningSales
  <2>2. (~shop.couponsOnly /\ ~paused) = TRUE
    BY <1>4
  <2> DEFINE row == shop.shelf[product]
             unit(sale) == IF sale = {} THEN Baseline(row) ELSE (CHOOSE z \in sale : TRUE).price
             read(on) == IF on THEN SaleOf(product, shop.overlays, shop.overlap) ELSE {}
  <2>3. \A on : UnitShown(product, row, shop.overlays, shop.overlap, on) = unit(read(on))
    BY Zenon DEF UnitShown
  <2>4. UnitAt(product, shop.overlays) = unit(SaleOf(product, shop.overlays, shop.overlap))
    BY Zenon DEF UnitAt
  <2>5. read(TRUE) = SaleOf(product, shop.overlays, shop.overlap)
    OBVIOUS
  <2> HIDE DEF unit, read, row
  <2>6. UnitShown(product, row, shop.overlays, shop.overlap, TRUE) = UnitAt(product, shop.overlays)
    BY <2>3, <2>4, <2>5
  <2> QED BY <2>1, <2>2, <2>6 DEF row
<1> QED BY <1>1, <1>3, <1>4

\* What is ordered is what was shown.
LEMMA MatchedRows ==
  ASSUME shop \in Shops, BasketRefusal(shop.basket, shop.shelf) = "none", paused = FALSE,
         NEW x, NEW y, NEW n \in Nat, NEW f, Matched(x, y, n, f)
  PROVE  RowsMatch(OrderRows(GivenTo(y).lines, Cart(y)), ShownRows(GivenTo(x).lines, Cart(x)))
<1> DEFINE s == GivenTo(x).lines
           t == GivenTo(y).lines
           a == Cart(x)
           b == Cart(y)
           rows == OrderRows(t, b)
           others == ShownRows(s, a)
<1>1. /\ s \in Seq(Lines) /\ 1 .. n \subseteq DOMAIN s /\ DOMAIN a = 1 .. n
      /\ \A i \in DOMAIN s : s[i].paid \in Nat /\ s[i].free \in Nat
      /\ \A i \in 1 .. n : /\ Quantity(a[i]) = a[i].ticks /\ a[i].ticks \in Nat
                           /\ a[i].ticks = QuantityOf(shop.basket, s[i].product)
  <2>1. Takes(Cart(x), n) /\ Quotes(Quoted(x), Cart(x), n, OfferedSales)
    BY DEF Matched
  <2> QED BY <2>1, GivenRows
<1>2. /\ t \in Seq(Lines) /\ 1 .. n \subseteq DOMAIN t /\ DOMAIN b = 1 .. n
      /\ \A i \in DOMAIN t : t[i].paid \in Nat /\ t[i].free \in Nat
      /\ \A i \in DOMAIN t : i \notin 1 .. n => Rewarded(t[i].product)
      /\ \A i \in DOMAIN t : t[i].product \in Asked =>
           t[i].unit = UnitAt(t[i].product, OfferedSales)
      /\ \A i \in 1 .. n :
           /\ t[i].product = b[i].product
           /\ b[i].ticks \in Nat /\ b[i].ticks = QuantityOf(shop.basket, t[i].product)
           /\ t[i].paid + t[i].free >= b[i].ticks
           /\ Rewarded(t[i].product) \/ t[i].paid = b[i].ticks
  <2>1. Takes(Cart(y), n) /\ Quotes(Quoted(y), Cart(y), n, OfferedSales)
    BY DEF Matched
  <2> QED BY <2>1, GivenRows
<1>3. \A product \in Asked : \E i \in 1 .. n : b[i].product = product
  BY DEF Matched, Takes
<1>4. ReordersFirst(f, s, t, n)
  BY DEF Matched
<1> HIDE DEF s, t, a, b
<1>5. /\ DOMAIN rows = DOMAIN t
      /\ \A i \in 1 .. n : rows[i] = OrderRow(t[i], b[i].ticks)
      /\ \A i \in DOMAIN t : \E ticks : rows[i] = OrderRow(t[i], ticks)
  BY <1>2 DEF OrderRows, InjectedRow
<1>6. /\ DOMAIN others = DOMAIN s
      /\ \A i \in 1 .. n : others[i] = ShownRow(s[i], Quantity(a[i]))
      /\ \A i \in DOMAIN s : \E q : others[i] = ShownRow(s[i], q)
  BY <1>1 DEF ShownRows
<1> HIDE DEF rows, others
<1>7. \A j \in DOMAIN t : /\ rows[j].product = t[j].product /\ rows[j].unit = t[j].unit
                          /\ rows[j].total = Payable(t[j])
  <2> TAKE j \in DOMAIN t
  <2>1. PICK ticks : rows[j] = OrderRow(t[j], ticks)
    BY <1>5
  <2> QED BY <2>1, OrderRowHas
<1>8. \A j \in 1 .. n :
        rows[j].quantity = (IF t[j].paid > 0 THEN t[j].paid ELSE b[j].ticks) + t[j].free
  BY <1>5, OrderRowHas
<1>9. \A i \in DOMAIN s : others[i].product = s[i].product /\ others[i].total = Payable(s[i])
                          /\ others[i].offer = s[i].free
  <2> TAKE i \in DOMAIN s
  <2>1. PICK q : others[i] = ShownRow(s[i], q)
    BY <1>6
  <2> QED BY <2>1 DEF ShownRow
<1>10. \A i \in 1 .. n : others[i].quantity = a[i].ticks
  <2> TAKE i \in 1 .. n
  <2>1. others[i] = ShownRow(s[i], Quantity(a[i])) /\ Quantity(a[i]) = a[i].ticks
    BY <1>1, <1>6
  <2> QED BY <2>1 DEF ShownRow
<1>11. ASSUME NEW product \in Asked
       PROVE  \E row \in ToSet(rows) : /\ row.product = product
                                       /\ row.quantity >= QuantityOf(shop.basket, product)
  <2>1. PICK i \in 1 .. n : b[i].product = product
    BY <1>3
  <2>2. /\ i \in DOMAIN t /\ t[i].product = product
        /\ b[i].ticks \in Nat /\ b[i].ticks = QuantityOf(shop.basket, product)
        /\ t[i].paid + t[i].free >= b[i].ticks /\ t[i].paid \in Nat /\ t[i].free \in Nat
    BY <1>2, <2>1
  <2>3. rows[i].quantity >= b[i].ticks
    BY <1>8, <2>2
  <2>4. rows[i] \in ToSet(rows) /\ rows[i].product = product
    BY <1>5, <1>7, <2>2 DEF ToSet
  <2> QED BY <2>2, <2>3, <2>4
<1>12. ASSUME NEW row \in ToSet(rows)
       PROVE  /\ \E other \in ToSet(others) :
                   /\ other.product = row.product
                   /\ other.total = row.total
                   /\ Rewarded(row.product) \/ other.quantity + other.offer = row.quantity
              /\ row.product \in Asked =>
                   row.unit = UnitShown(row.product, shop.shelf[row.product], shop.overlays,
                                        shop.overlap, ~shop.couponsOnly /\ ~paused)
  <2>1. PICK j \in DOMAIN t : rows[j] = row
    BY <1>5 DEF ToSet
  <2>2. /\ row.product = t[j].product /\ row.unit = t[j].unit /\ row.total = Payable(t[j])
    BY <1>7, <2>1
  <2>3. PICK i \in DOMAIN s : f[i] = j /\ t[j] = s[i] /\ (i \in 1 .. n <=> j \in 1 .. n)
    <3>1. PICK i \in DOMAIN s : f[i] = j
      BY <1>4 DEF ReordersFirst, Reorders
    <3>2. t[f[i]] = s[i] /\ (i \in 1 .. n <=> f[i] \in 1 .. n)
      BY <1>4 DEF ReordersFirst, Reorders
    <3> QED BY <3>1, <3>2
  <2>4. others[i] \in ToSet(others)
    BY <1>6 DEF ToSet
  <2>5. others[i].product = row.product /\ others[i].total = row.total
    BY <1>9, <2>2, <2>3
  <2>6. ASSUME ~Rewarded(row.product)
        PROVE  others[i].quantity + others[i].offer = row.quantity
    <3>1. j \in 1 .. n /\ i \in 1 .. n
      BY <1>2, <2>2, <2>3, <2>6
    <3>2. t[j].paid = b[j].ticks /\ b[j].ticks = a[i].ticks
          /\ t[j].free = s[i].free
      BY <1>1, <1>2, <2>2, <2>3, <2>6, <3>1
    <3>3. row.quantity = a[i].ticks + s[i].free
      BY <1>2, <1>8, <2>1, <3>1, <3>2
    <3>4. others[i].quantity = a[i].ticks /\ others[i].offer = s[i].free
      BY <1>9, <1>10, <3>1
    <3> QED BY <3>3, <3>4
  <2>7. row.product \in Asked =>
          row.unit = UnitShown(row.product, shop.shelf[row.product], shop.overlays,
                               shop.overlap, ~shop.couponsOnly /\ ~paused)
    <3>1. row.product \in Asked => row.unit = UnitAt(row.product, OfferedSales)
      BY <1>2, <2>2
    <3> QED BY <3>1, PageShows
  <2> QED BY <2>4, <2>5, <2>6, <2>7
<1>13. RowsMatch(rows, others)
  BY <1>11, <1>12 DEF RowsMatch
<1> QED BY <1>13 DEF rows, others, s, t, a, b

-----------------------------------------------------------------------------
(* A preview and a checkout, code by code.                                  *)

\* What the answer to a preview says of its coupons.
LEMMA BlockSays ==
  ASSUME NEW asked, NEW applied, NEW rejected
  PROVE  LET block == CouponBlock(asked, applied, rejected)
         IN /\ block.codes = applied
            /\ block.reason # "none" => /\ applied = <<>> /\ asked # <<>>
                                        /\ rejected # "none" => block.reason = rejected
<1> DEFINE reason == CASE applied # <<>> \/ asked = <<>> -> "none"
                       [] applied = <<>> /\ asked # <<>> /\ rejected # "none" -> rejected
                       [] OTHER -> "COUPON_NOT_APPLICABLE"
<1>1. CouponBlock(asked, applied, rejected) = [codes |-> applied, reason |-> reason]
  BY DEF CouponBlock
<1>2. reason # "none" => /\ applied = <<>> /\ asked # <<>>
                         /\ rejected # "none" => reason = rejected
  OBVIOUS
<1> HIDE DEF reason
<1> QED BY <1>1, <1>2

\* The trace of a preview and the beginning of one of a checkout.
Twins(p, s, c, t, j) ==
  /\ Trace(p, s, IF Bxgy(bill[p]) THEN 0 ELSE Len(CodesToTry))
  /\ s[IF Bxgy(bill[p]) THEN 0 ELSE Len(CodesToTry)] = bill[p]
  /\ Trace(c, t, j)

\* They agree as far as both go.
LEMMA TwinsAgree ==
  ASSUME shop \in Shops, ~TieBreak, BasketRefusal(shop.basket, shop.shelf) = "none",
         NEW p, NEW c, p \notin guests, c \notin guests,
         sees[p].ordered = sees[c].ordered, sees[p].newcomer = sees[c].newcomer,
         SameOrder(p, c), NEW s, NEW t, NEW j \in 0 .. Len(CodesToTry), Twins(p, s, c, t, j)
  PROVE  /\ \E n \in Nat \ {0} : \E f : Matched(p, c, n, f)
         /\ Bxgy(bill[p]) <=> Bxgy(t[0])
         /\ \A i \in 0 .. j : ~Bxgy(bill[p]) \/ i = 0 => Agree(s[i], t[i])
<1> DEFINE len == Len(CodesToTry)
           m == IF Bxgy(bill[p]) THEN 0 ELSE len
<1>1. len \in Nat
  BY CodesFacts
<1>2. Trace(p, s, m) /\ s[m] = bill[p] /\ Trace(c, t, j) /\ m \in 0 .. len /\ m \in 0 .. m
  BY <1>1 DEF Twins
<1> HIDE DEF m
<1>3. Follows(p, s, m)
  BY <1>1, <1>2, TraceFollows
<1>4. /\ bill[p].lines = GivenTo(p).lines /\ bill[p].auto = s[0].auto
      /\ Bxgy(bill[p]) <=> Bxgy(s[0])
  BY <1>2, <1>3 DEF Follows
<1>5. \/ Cart(p) = Cart(c)
      \/ \A i \in DOMAIN GivenTo(p).lines : GivenTo(p).lines[i].free = 0
  <2>1. ASSUME ~Bxgy(bill[p]), NEW i \in DOMAIN GivenTo(p).lines
        PROVE  GivenTo(p).lines[i].free = 0
    <3>1. ~(GivenTo(p).lines[i].free > 0)
      BY <1>4, <2>1 DEF Bxgy
    <3>2. GivenTo(p).lines \in Seq(Lines)
      BY QuotedIs
    <3>3. GivenTo(p).lines[i].free \in Nat
      BY <2>1, <3>2 DEF Lines
    <3> QED BY <3>1, <3>3
  <2> QED BY <2>1 DEF SameOrder
<1>6. PICK n \in Nat \ {0} : \E f : Matched(p, c, n, f)
  BY <1>5, GivenAlike
<1>7. PICK f : Matched(p, c, n, f)
  BY <1>6
<1>8. /\ Reorders(f, GivenTo(p).lines, GivenTo(c).lines)
      /\ SalesOf(Quoted(p)) = SalesOf(Quoted(c))
      /\ GivenTo(p).discount = GivenTo(c).discount
      /\ GivenTo(p).credit = GivenTo(c).credit
  BY <1>7 DEF Matched, ReordersFirst
<1>9. Opened(p, s[0]) /\ Opened(c, t[0])
  BY <1>2 DEF Trace
<1>10. Agree(s[0], t[0]) /\ (Bxgy(s[0]) <=> Bxgy(t[0]))
  BY <1>8, <1>9, OpenedAlike
<1>11. Indifferent(p, c, s[0].auto)
  <2>1. Cart(p) = Cart(c) => GivenTo(p).lines = GivenTo(c).lines
    BY DEF GivenTo, Quoted
  <2> QED BY <1>4, <2>1 DEF Indifferent, SameOrder
<1>12. ASSUME NEW i \in 0 .. j, ~Bxgy(bill[p]) PROVE Agree(s[i], t[i])
  <2>1. m = len
    BY <1>12 DEF m
  <2>2. j \in 0 .. m /\ j \in Nat /\ m \in Nat
    BY <1>1, <2>1
  <2>3. Trace(p, s, j)
    BY <1>2, <2>2, TracePart
  <2>4. \A l \in 0 .. j : Agree(s[l], t[l])
    BY <1>2, <1>8, <1>10, <1>11, <2>3, TracesAgree
  <2> QED BY <2>4
<1> QED BY <1>4, <1>6, <1>10, <1>12

\* How a preview was answered, and an order taken or refused.
Honest(p, c) ==
  /\ pc[c] = "answered" <=> Answer(p).coupon.codes = CodesToTry /\ Answer(p).missing = 0
  /\ Answer(p).coupon.reason # "none" => bill[c].rejected = Answer(p).coupon.reason
  /\ pc[c] = "answered" =>
       /\ Order(c).subtotal = Answer(p).subtotal
       /\ Order(c).coupons = Answer(p).coupon.codes
       /\ RowsMatch(Order(c).rows, Answer(p).rows)

\* An answered preview says so.
LEMMA AnswerSays ==
  ASSUME NEW p
  PROVE  /\ Answer(p).rows = ShownRows(bill[p].lines, Cart(p))
         /\ Answer(p).subtotal = Subtotal(p) /\ Answer(p).missing = MissingToMinimum(p)
         /\ Answer(p).coupon.codes = bill[p].applied
         /\ Answer(p).coupon.reason # "none" =>
              /\ bill[p].applied = <<>> /\ CodesToTry # <<>>
              /\ bill[p].rejected # "none" => Answer(p).coupon.reason = bill[p].rejected
<1> DEFINE block == CouponBlock(CodesToTry, bill[p].applied, bill[p].rejected)
           rows == ShownRows(bill[p].lines, Cart(p))
           subtotal == Subtotal(p)
           missing == MissingToMinimum(p)
<1>1. Answer(p) = [rows |-> rows, subtotal |-> subtotal, missing |-> missing, coupon |-> block]
  BY DEF Answer
<1>2. /\ block.codes = bill[p].applied
      /\ block.reason # "none" => /\ bill[p].applied = <<>> /\ CodesToTry # <<>>
                                  /\ bill[p].rejected # "none" => block.reason = bill[p].rejected
  BY BlockSays
<1> HIDE DEF block, rows, subtotal, missing
<1>3. /\ Answer(p).rows = rows /\ Answer(p).subtotal = subtotal
      /\ Answer(p).missing = missing /\ Answer(p).coupon = block
  BY <1>1
<1> QED BY <1>2, <1>3 DEF rows, subtotal, missing

\* What is missing to the minimum comes from the subtotal.
LEMMA MissingAgrees ==
  ASSUME NEW x, NEW y, bill[x].afterAuto = bill[y].afterAuto, bill[x].coupon = bill[y].coupon
  PROVE  Subtotal(x) = Subtotal(y) /\ MissingToMinimum(x) = MissingToMinimum(y)
  BY DEF Subtotal, MissingToMinimum

\* A bill with all codes applied has them in their order.
LEMMA AllCodes ==
  ASSUME shop \in Shops, NEW b, BillOK(b), AllApplied(b, Len(CodesToTry))
  PROVE  b.applied = CodesToTry
<1>1. CodesToTry \in Seq(Codes)
  BY CodesFacts
<1>2. b.applied \in Seq(Codes)
  BY DEF BillOK
<1> QED BY <1>1, <1>2 DEF AllApplied

\* All that is to be shown of a preview and a checkout.
Meet(p, c) ==
  /\ shop \in Shops /\ ~TieBreak /\ BasketRefusal(shop.basket, shop.shelf) = "none"
  /\ paused = FALSE /\ p \notin guests /\ c \notin guests /\ c \notin Previews
  /\ sees[p].ordered = sees[c].ordered /\ sees[p].newcomer = sees[c].newcomer
  /\ SameOrder(p, c)
  /\ BillOK(bill[p]) /\ BillOK(bill[c])
  /\ Traced(p, bill[p], IF Bxgy(bill[p]) THEN 0 ELSE Len(CodesToTry))

\* The bill a checkout ended with, before the minimum was asked for, is that
\* of the preview.
LEMMA EndsAgree ==
  ASSUME NEW p, NEW c, Meet(p, c), NEW b, Ended(c, b)
  PROVE  /\ Agree(bill[p], b) /\ b.lines = GivenTo(c).lines
         /\ bill[p].lines = GivenTo(p).lines
         /\ \E n \in Nat \ {0} : \E f : Matched(p, c, n, f)
<1> DEFINE len == Len(CodesToTry)
           m == IF Bxgy(bill[p]) THEN 0 ELSE len
           j == IF Bxgy(b) THEN 0 ELSE len
<1>1. len \in Nat /\ shop \in Shops
  BY CodesFacts DEF Meet
<1>2. PICK s : Trace(p, s, m) /\ s[m] = bill[p]
  BY DEF Meet, Traced
<1>3. PICK t : Trace(c, t, j) /\ t[j] = b
  BY DEF Ended, Traced
<1>4. m \in 0 .. len /\ j \in 0 .. len /\ m \in 0 .. m /\ j \in 0 .. j
  BY <1>1
<1>5. Twins(p, s, c, t, j)
  BY <1>2, <1>3 DEF Twins
<1> HIDE DEF m, j
<1>6. /\ \E n \in Nat \ {0} : \E f : Matched(p, c, n, f)
      /\ Bxgy(bill[p]) <=> Bxgy(t[0])
      /\ \A i \in 0 .. j : ~Bxgy(bill[p]) \/ i = 0 => Agree(s[i], t[i])
  BY <1>4, <1>5, TwinsAgree DEF Meet
<1>7. Follows(c, t, j) /\ Follows(p, s, m)
  BY <1>1, <1>2, <1>3, <1>4, TraceFollows
<1>8. Bxgy(b) <=> Bxgy(bill[p])
  BY <1>3, <1>6, <1>7 DEF Follows
<1>9. m = j /\ (~Bxgy(bill[p]) \/ j = 0)
  BY <1>8 DEF m, j
<1>10. Agree(s[j], t[j])
  BY <1>4, <1>6, <1>9
<1> QED BY <1>2, <1>3, <1>6, <1>7, <1>9, <1>10 DEF Follows

\* An order is taken for what was shown.
LEMMA HonestTaken ==
  ASSUME NEW p, NEW c, Meet(p, c), pc[c] = "answered", Ended(c, bill[c]),
         MissingToMinimum(c) = 0, AllApplied(bill[c], Len(CodesToTry))
  PROVE  Honest(p, c)
<1>1. /\ Agree(bill[p], bill[c]) /\ bill[c].lines = GivenTo(c).lines
      /\ bill[p].lines = GivenTo(p).lines
      /\ \E n \in Nat \ {0} : \E f : Matched(p, c, n, f)
  BY EndsAgree
<1>2. bill[c].applied = CodesToTry
  BY AllCodes DEF Meet
<1>3. Subtotal(p) = Subtotal(c) /\ MissingToMinimum(p) = MissingToMinimum(c)
  BY <1>1, MissingAgrees DEF Agree
<1>4. bill[p].applied = CodesToTry
  BY <1>1, <1>2 DEF Agree
<1>5. PICK n \in Nat \ {0} : \E f : Matched(p, c, n, f)
  BY <1>1
<1>6. PICK f : Matched(p, c, n, f)
  BY <1>5
<1>7. RowsMatch(OrderRows(bill[c].lines, Cart(c)), ShownRows(bill[p].lines, Cart(p)))
  BY <1>1, <1>6, MatchedRows DEF Meet
<1>8. /\ Order(c).rows = OrderRows(bill[c].lines, Cart(c))
      /\ Order(c).subtotal = Subtotal(c) /\ Order(c).coupons = bill[c].applied
  <2> DEFINE rows == OrderRows(bill[c].lines, Cart(c))
             subtotal == Subtotal(c)
             coupons == bill[c].applied
  <2>1. Order(c) = [rows |-> rows, subtotal |-> subtotal, coupons |-> coupons]
    BY DEF Order
  <2> HIDE DEF rows, subtotal, coupons
  <2>2. Order(c).rows = rows /\ Order(c).subtotal = subtotal /\ Order(c).coupons = coupons
    BY <2>1
  <2> QED BY <2>2 DEF rows, subtotal, coupons
<1>9. /\ Answer(p).rows = ShownRows(bill[p].lines, Cart(p))
      /\ Answer(p).subtotal = Subtotal(p) /\ Answer(p).missing = 0
      /\ Answer(p).coupon.codes = CodesToTry
      /\ Answer(p).coupon.reason = "none"
  BY <1>3, <1>4, AnswerSays
<1> QED BY <1>2, <1>3, <1>7, <1>8, <1>9 DEF Honest

\* And refused for what was said: a bundle, a coupon, or the minimum.
LEMMA HonestTurned ==
  ASSUME NEW p, NEW c, Meet(p, c), pc[c] = "refused", Turned(c)
  PROVE  Honest(p, c)
<1>1. Len(CodesToTry) \in Nat /\ shop \in Shops /\ CodesToTry \in Seq(Codes)
  BY CodesFacts DEF Meet
<1> DEFINE m == IF Bxgy(bill[p]) THEN 0 ELSE Len(CodesToTry)
<1>2. PICK s : Trace(p, s, m) /\ s[m] = bill[p]
  BY DEF Meet, Traced
<1>3. m \in 0 .. Len(CodesToTry) /\ m \in 0 .. m /\ 0 \in 0 .. Len(CodesToTry)
  BY <1>1
<1>4. Follows(p, s, m)
  BY <1>1, <1>2, <1>3, TraceFollows
<1>5. CASE Bxgy(bill[c]) /\ CodesToTry # <<>> /\ Traced(c, bill[c], 0)
  <2>1. PICK t : Trace(c, t, 0) /\ t[0] = bill[c]
    BY <1>5 DEF Traced
  <2>2. Twins(p, s, c, t, 0)
    BY <1>2, <2>1 DEF Twins
  <2>3. /\ Bxgy(bill[p]) <=> Bxgy(t[0])
        /\ \A i \in 0 .. 0 : ~Bxgy(bill[p]) \/ i = 0 => Agree(s[i], t[i])
    BY <1>3, <2>2, TwinsAgree DEF Meet
  <2>4. Bxgy(bill[p]) /\ m = 0 /\ Agree(s[0], t[0])
    BY <1>5, <2>1, <2>3
  <2>5. Agree(bill[p], bill[c]) /\ Opened(p, bill[p])
    BY <1>2, <2>1, <2>4 DEF Trace
  <2>6. bill[p].applied = <<>> /\ bill[p].rejected = "COUPON_NOT_WITH_BUNDLE"
    BY <1>1, <1>5, <2>4, <2>5, OpenedHas
  <2>7. bill[c].rejected = bill[p].rejected
    BY <2>5 DEF Agree
  <2>8. Answer(p).coupon.codes # CodesToTry
        /\ (Answer(p).coupon.reason # "none" => Answer(p).coupon.reason = bill[p].rejected)
    BY <1>5, <2>6, AnswerSays
  <2> QED BY <2>7, <2>8 DEF Honest
<1>6. ASSUME ~Bxgy(bill[c]), bill[c].rejected # "none",
             NEW j \in 1 .. Len(CodesToTry), Traced(c, bill[c], j)
      PROVE  Honest(p, c)
  <2>1. PICK t : Trace(c, t, j) /\ t[j] = bill[c]
    BY <1>6 DEF Traced
  <2>2. Twins(p, s, c, t, j)
    BY <1>2, <2>1 DEF Twins
  <2>3. j \in 0 .. Len(CodesToTry) /\ j \in 0 .. j
    BY <1>1
  <2>4. /\ Bxgy(bill[p]) <=> Bxgy(t[0])
        /\ \A i \in 0 .. j : ~Bxgy(bill[p]) \/ i = 0 => Agree(s[i], t[i])
    BY <2>2, <2>3, TwinsAgree DEF Meet
  <2>5. Follows(c, t, j)
    BY <1>1, <2>1, <2>3, TraceFollows
  <2>6. ~Bxgy(bill[p]) /\ m = Len(CodesToTry)
    BY <1>6, <2>1, <2>4, <2>5 DEF Follows
  <2>7. Agree(s[j], bill[c]) /\ ~Bxgy(s[0])
    BY <1>2, <1>4, <2>1, <2>3, <2>4, <2>6 DEF Follows
  <2>8. s[j].rejected = bill[c].rejected
    BY <2>7 DEF Agree
  <2>9. j \in 0 .. m
    BY <2>3, <2>6
  <2> HIDE DEF m
  <2>10. bill[p].rejected = bill[c].rejected
    BY <1>1, <1>2, <1>3, <1>6, <2>8, <2>9, ReasonStays
  <2>11. Len(bill[p].applied) < Len(CodesToTry)
    BY <1>2, <1>4, <1>6, <2>6, <2>7, <2>10 DEF Follows
  <2>12. Len(bill[p].applied) \in Nat
    BY DEF Meet, BillOK
  <2>13. bill[p].applied # CodesToTry
    BY <1>1, <2>11, <2>12
  <2>14. Answer(p).coupon.codes # CodesToTry
         /\ (Answer(p).coupon.reason # "none" => Answer(p).coupon.reason = bill[p].rejected)
    BY <1>6, <2>10, <2>13, AnswerSays
  <2> QED BY <2>10, <2>14 DEF Honest
<1>7. ASSUME MissingToMinimum(c) > 0,
             NEW b, Ended(c, b), BillOK(b), AllApplied(b, Len(CodesToTry)),
             bill[c] = [b EXCEPT !.rejected = "MIN_PURCHASE_NOT_MET"]
      PROVE  Honest(p, c)
  <2>1. Agree(bill[p], b)
    BY <1>7, EndsAgree
  <2>2. b.applied = CodesToTry
    BY <1>1, <1>7, AllCodes
  <2>3. bill[c].afterAuto = b.afterAuto /\ bill[c].coupon = b.coupon
    BY <1>7 DEF BillOK
  <2>4. bill[p].applied = CodesToTry
        /\ bill[p].afterAuto = bill[c].afterAuto /\ bill[p].coupon = bill[c].coupon
    BY <2>1, <2>2, <2>3 DEF Agree
  <2>5. MissingToMinimum(p) > 0
    BY <1>7, <2>4, MissingAgrees
  <2>6. Answer(p).missing # 0 /\ Answer(p).coupon.reason = "none"
    BY <2>4, <2>5, AnswerSays
  <2> QED BY <2>6 DEF Honest
<1> QED BY <1>5, <1>6, <1>7 DEF Turned

\* While nothing changes, a checkout charges what the preview showed or is
\* refused for the reason it gave, at the unit prices of the product pages,
\* with the units that were shown (priceStorefrontLines for both).
THEOREM ChargedAsShownAlways == Spec => []ChargedAsShown
<1>1. ASSUME Inv, Calm PROVE ChargedAsShown
  <2>1. ASSUME Undisturbed, ~TieBreak, BasketRefusal(shop.basket, shop.shelf) = "none",
               NEW p \in Previews \ guests, NEW c \in Calls \ Previews,
               pc[p] = "answered", pc[c] \in {"answered", "refused"}, SameOrder(p, c)
        PROVE  Honest(p, c)
    <3>1. /\ paused = FALSE /\ \A x \in Calls : Settled(x)
      BY <1>1, <2>1 DEF Calm
    <3>2. p \in Calls /\ c \in Calls /\ p \notin guests /\ c \notin guests /\ c \notin Previews
      BY <1>1, <2>1, PricingAssumption DEF Inv, TypeOK
    <3>3. /\ shop \in Shops /\ BillOK(bill[p]) /\ BillOK(bill[c])
          /\ pc[c] = "answered" /\ ~sees[c].paused => AllApplied(bill[c], Len(CodesToTry))
      BY <1>1, <3>2 DEF Inv, TypeOK, CallInv
    <3>4. /\ sees[p].ordered = FALSE /\ sees[p].newcomer = TRUE /\ Ended(p, bill[p])
      BY <2>1, <3>1, <3>2 DEF Settled
    <3>5. /\ sees[c].paused = FALSE /\ sees[c].ordered = FALSE /\ sees[c].newcomer = TRUE
          /\ pc[c] = "answered" => Ended(c, bill[c]) /\ MissingToMinimum(c) = 0
          /\ pc[c] = "refused" => Turned(c)
      BY <3>1, <3>2 DEF Settled
    <3>6. Meet(p, c)
      BY <2>1, <3>1, <3>2, <3>3, <3>4, <3>5 DEF Meet, Ended
    <3> QED BY <2>1, <3>3, <3>5, <3>6, HonestTaken, HonestTurned
  <2> QED BY <2>1 DEF ChargedAsShown, Honest, RowsMatch, Rewarded, Asked
<1>2. Spec => []Calm
  BY CalmInit, CalmStep, Invariance, PTL DEF Spec
<1> QED BY <1>1, <1>2, Invariance, PTL
=============================================================================
