-------------------------- MODULE ShopLookupsProofs --------------------------
(* Proofs about ShopLookups: whose shop a transaction runs under, and how the *)
(* cached hub can be older than its invalidation.                             *)
EXTENDS ShopLookups, SequenceTheorems, FiniteSetTheorems, TLAPS

-----------------------------------------------------------------------------
(* Queues.                                                                    *)

In(s)       == {s[i] : i \in 1 .. Len(s)}
Distinct(s) == \A i, j \in 1 .. Len(s) : s[i] = s[j] => i = j

LEMMA Appended ==
  ASSUME NEW S, NEW s \in Seq(S), NEW e \in S
  PROVE  /\ Append(s, e) \in Seq(S)
         /\ In(Append(s, e)) = In(s) \cup {e}
         /\ Distinct(s) /\ e \notin In(s) => Distinct(Append(s, e))
<1>1. /\ Append(s, e) \in Seq(S)
      /\ Len(Append(s, e)) = Len(s) + 1
      /\ \A i \in 1 .. Len(s) : Append(s, e)[i] = s[i]
      /\ Append(s, e)[Len(s) + 1] = e
  BY AppendProperties
<1> DEFINE t == Append(s, e)
<1> HIDE DEF t
<1>2. Len(s) \in Nat
  OBVIOUS
<1>3. In(t) = In(s) \cup {e}
  <2>1. \A i \in 1 .. Len(t) : i \in 1 .. Len(s) \/ i = Len(s) + 1
    BY <1>1, <1>2 DEF t
  <2>2. \A i \in 1 .. Len(s) : i \in 1 .. Len(t)
    BY <1>1, <1>2 DEF t
  <2>3. Len(s) + 1 \in 1 .. Len(t)
    BY <1>1, <1>2 DEF t
  <2> QED
    BY <1>1, <2>1, <2>2, <2>3 DEF In, t
<1>4. Distinct(s) /\ e \notin In(s) => Distinct(t)
  BY <1>1, <1>2 DEF In, Distinct, t
<1> QED
  BY <1>1, <1>3, <1>4 DEF t

LEMMA HeadGone ==
  ASSUME NEW S, NEW s \in Seq(S), s # <<>>
  PROVE  /\ Tail(s) \in Seq(S) /\ Head(s) \in S
         /\ In(s) = In(Tail(s)) \cup {Head(s)}
         /\ Distinct(s) => Head(s) \notin In(Tail(s)) /\ Distinct(Tail(s))
<1>1. /\ Tail(s) \in Seq(S) /\ Head(s) \in S
      /\ Len(Tail(s)) = Len(s) - 1
      /\ \A i \in 1 .. Len(Tail(s)) : Tail(s)[i] = s[i + 1]
  BY HeadTailProperties
<1>2. Len(s) \in Nat \ {0} /\ Head(s) = s[1]
  BY EmptySeq
<1> DEFINE t == Tail(s)
<1> HIDE DEF t
<1>3. In(s) = In(t) \cup {s[1]}
  <2>1. \A i \in 1 .. Len(s) : i = 1 \/ (i - 1 \in 1 .. Len(t) /\ t[i - 1] = s[i])
    BY <1>1, <1>2 DEF t
  <2>2. \A i \in 1 .. Len(t) : i + 1 \in 1 .. Len(s)
    BY <1>1, <1>2 DEF t
  <2>3. In(s) \subseteq In(t) \cup {s[1]}
    BY <2>1 DEF In
  <2>4. In(t) \cup {s[1]} \subseteq In(s)
    BY <1>1, <1>2, <2>2 DEF In, t
  <2> QED
    BY <2>3, <2>4
<1>4. Distinct(s) => s[1] \notin In(t) /\ Distinct(t)
  <2>1. \A i \in 1 .. Len(t) : i + 1 \in 1 .. Len(s) /\ i + 1 # 1 /\ t[i] = s[i + 1]
    BY <1>1, <1>2 DEF t
  <2>2. \A i, j \in 1 .. Len(t) : i + 1 = j + 1 => i = j
    OBVIOUS
  <2>3. 1 \in 1 .. Len(s)
    BY <1>2
  <2> QED
    BY <2>1, <2>2, <2>3 DEF In, Distinct
<1> QED
  BY <1>1, <1>2, <1>3, <1>4 DEF t

LEMMA Prefix ==
  ASSUME NEW S, NEW s \in Seq(S), NEW n \in 0 .. Len(s)
  PROVE  /\ SubSeq(s, 1, n) \in Seq(S) /\ Len(SubSeq(s, 1, n)) = n
         /\ \A i \in 1 .. n : SubSeq(s, 1, n)[i] = s[i]
<1> DEFINE t == SubSeq(s, 1, n)
<1>1. n \in Int /\ 0 <= n /\ \A i \in 1 .. n : s[i] \in S
  OBVIOUS
<1>2. /\ t \in Seq(S)
      /\ Len(t) = IF 1 <= n THEN n - 1 + 1 ELSE 0
      /\ \A i \in 1 .. n - 1 + 1 : t[i] = s[1 + i - 1]
  BY <1>1, SubSeqProperties
<1> HIDE DEF t
<1>3. Len(t) = n /\ \A i \in 1 .. n : t[i] = s[i]
  BY <1>1, <1>2
<1> QED
  BY <1>2, <1>3 DEF t

LEMMA LastGone ==
  ASSUME NEW S, NEW s \in Seq(S), s # <<>>
  PROVE  /\ Front(s) \in Seq(S) /\ Last(s) \in S
         /\ In(s) = In(Front(s)) \cup {Last(s)}
         /\ Distinct(s) => Last(s) \notin In(Front(s)) /\ Distinct(Front(s))
<1>1. Len(s) \in Nat \ {0} /\ Len(s) - 1 \in 0 .. Len(s)
  BY EmptySeq
<1> DEFINE t == Front(s)
<1>2. t \in Seq(S) /\ Len(t) = Len(s) - 1 /\ \A i \in 1 .. Len(s) - 1 : t[i] = s[i]
  BY <1>1, Prefix, Zenon DEF Front
<1> HIDE DEF t
<1>3. \A i \in 1 .. Len(s) : i \in 1 .. Len(t) \/ i = Len(s)
  BY <1>1, <1>2
<1>4. \A i \in 1 .. Len(t) : i \in 1 .. Len(s) /\ i # Len(s)
  BY <1>1, <1>2
<1>5. Len(s) \in 1 .. Len(s)
  BY <1>1
<1>6. In(s) = In(t) \cup {s[Len(s)]}
  BY <1>2, <1>3, <1>4, <1>5 DEF In
<1>7. Distinct(s) => s[Len(s)] \notin In(t) /\ Distinct(t)
  BY <1>2, <1>4, <1>5 DEF In, Distinct
<1>8. s[Len(s)] \in S
  BY <1>5
<1> QED
  BY <1>2, <1>6, <1>7, <1>8 DEF t, Last

LEMMA OneGone ==
  ASSUME NEW S, NEW s \in Seq(S), NEW i \in 1 .. Len(s)
  PROVE  /\ RemoveAt(s, i) \in Seq(S)
         /\ In(RemoveAt(s, i)) \subseteq In(s)
         /\ Distinct(s) => s[i] \notin In(RemoveAt(s, i)) /\ Distinct(RemoveAt(s, i))
<1> DEFINE a == SubSeq(s, 1, i - 1)
           b == SubSeq(s, i + 1, Len(s))
           t == a \o b
<1>1. Len(s) \in Nat /\ i \in Nat /\ 1 <= i /\ i <= Len(s)
  OBVIOUS
<1>2. /\ a \in Seq(S) /\ Len(a) = i - 1
      /\ \A j \in 1 .. i - 1 : a[j] = s[j]
  <2>1. \A j \in 1 .. i - 1 : s[j] \in S
    BY <1>1
  <2>2. /\ a \in Seq(S)
        /\ Len(a) = IF 1 <= i - 1 THEN (i - 1) - 1 + 1 ELSE 0
        /\ \A j \in 1 .. (i - 1) - 1 + 1 : a[j] = s[1 + j - 1]
    BY <1>1, <2>1, SubSeqProperties
  <2> QED
    BY <1>1, <2>2
<1>3. /\ b \in Seq(S) /\ Len(b) = Len(s) - i
      /\ \A j \in 1 .. Len(s) - i : b[j] = s[i + j]
  <2>1. \A j \in i + 1 .. Len(s) : s[j] \in S
    BY <1>1
  <2>2. /\ b \in Seq(S)
        /\ Len(b) = IF i + 1 <= Len(s) THEN Len(s) - (i + 1) + 1 ELSE 0
        /\ \A j \in 1 .. Len(s) - (i + 1) + 1 : b[j] = s[(i + 1) + j - 1]
    BY <1>1, <2>1, SubSeqProperties
  <2> QED
    BY <1>1, <2>2
<1> HIDE DEF a, b
<1>4. /\ t \in Seq(S) /\ Len(t) = Len(s) - 1
      /\ \A j \in 1 .. Len(t) : t[j] = IF j < i THEN s[j] ELSE s[j + 1]
  <2>1. /\ t \in Seq(S) /\ Len(t) = Len(a) + Len(b)
        /\ \A j \in 1 .. Len(a) + Len(b) :
              t[j] = IF j <= Len(a) THEN a[j] ELSE b[j - Len(a)]
    BY <1>2, <1>3, ConcatProperties
  <2>2. ASSUME NEW j \in 1 .. Len(t)
        PROVE  t[j] = IF j < i THEN s[j] ELSE s[j + 1]
    <3>1. CASE j < i
      BY <1>1, <1>2, <1>3, <2>1, <3>1
    <3>2. CASE ~ (j < i)
      <4>1. j - (i - 1) \in 1 .. Len(s) - i /\ i + (j - (i - 1)) = j + 1
        BY <1>1, <1>2, <1>3, <2>1, <3>2
      <4>2. t[j] = b[j - (i - 1)]
        BY <1>1, <1>2, <1>3, <2>1, <3>2
      <4> QED
        BY <1>3, <3>2, <4>1, <4>2
    <3> QED
      BY <3>1, <3>2
  <2> QED
    BY <1>1, <1>2, <1>3, <2>1, <2>2
<1>5. t = RemoveAt(s, i)
  BY DEF RemoveAt, a, b
<1> HIDE DEF t
<1>6. \A j \in 1 .. Len(t) : \E k \in 1 .. Len(s) :
        k # i /\ t[j] = s[k] /\ (k = j \/ k = j + 1) /\ (k < i <=> k = j)
  <2> SUFFICES ASSUME NEW j \in 1 .. Len(t)
               PROVE  \E k \in 1 .. Len(s) :
                        k # i /\ t[j] = s[k] /\ (k = j \/ k = j + 1) /\ (k < i <=> k = j)
    OBVIOUS
  <2>1. CASE j < i
    <3>1. j \in 1 .. Len(s) /\ j # i /\ t[j] = s[j]
      BY <1>1, <1>4, <2>1
    <3> QED
      BY <2>1, <3>1
  <2>2. CASE ~ (j < i)
    <3>1. j + 1 \in 1 .. Len(s) /\ j + 1 # i /\ t[j] = s[j + 1] /\ ~ (j + 1 < i)
      BY <1>1, <1>4, <2>2
    <3>2. j + 1 # j
      OBVIOUS
    <3> QED
      BY <3>1, <3>2
  <2> QED
    BY <2>1, <2>2
<1>7. In(t) \subseteq In(s)
  BY <1>6 DEF In
<1>8. Distinct(s) => s[i] \notin In(t)
  BY <1>6 DEF In, Distinct
<1>9. Distinct(s) => Distinct(t)
  <2>1. SUFFICES ASSUME Distinct(s), NEW j \in 1 .. Len(t), NEW k \in 1 .. Len(t),
                        t[j] = t[k]
                 PROVE  j = k
    BY DEF Distinct
  <2>2. PICK x \in 1 .. Len(s) :
          t[j] = s[x] /\ (x = j \/ x = j + 1) /\ (x < i <=> x = j)
    BY <1>6
  <2>3. PICK y \in 1 .. Len(s) :
          t[k] = s[y] /\ (y = k \/ y = k + 1) /\ (y < i <=> y = k)
    BY <1>6
  <2>4. x = y
    BY <2>1, <2>2, <2>3 DEF Distinct
  <2> QED
    BY <1>1, <2>2, <2>3, <2>4
<1> QED
  BY <1>4, <1>5, <1>7, <1>8, <1>9

-----------------------------------------------------------------------------
(* The cached row.                                                            *)

(* The row in Redis was stored since the last deletion, and what is read since *)
(* then is as new as the row was.                                              *)
FillInv ==
  /\ dropped <= row
  /\ \A h \in Handlers : runs[h].pc = "storing" =>
       runs[h].at <= deletions /\ (runs[h].at = deletions => dropped <= runs[h].seen)
  /\ \A e \in entry :
       e.set = deletions /\ e.read <= e.set /\ (e.read = e.set => dropped <= e.version)

-----------------------------------------------------------------------------
(* Who has which connection.                                                  *)

AtHub == {"asking", "locking", "polling", "wanting", "querying", "storing"}

(* A lookup by domain keeps the reference to a connection it has given back.   *)
Has(h, run) ==
  run.extra \cup (IF h \in Resolvers /\ run.pc # "begun" THEN {} ELSE run.has)

(* Where a handler of each kind can be, and with how many connections.        *)
Place(h, run) ==
  /\ \A c, d \in run.has : c = d
  /\ run.has \cap run.extra = {}
  /\ run.extra # {} => run.pc = "querying"
  /\ h \in Checkouts =>
       /\ run.has = {} <=> run.pc \in {"idle", "arrived"} \cup Ends
       /\ run.pc # "late"
  /\ h \in Lookups => run.has = {} /\ run.pc \in AtHub \cup Ends \cup {"idle"}
  /\ h \in Resolvers =>
       /\ run.pc \in {"idle", "arrived", "begun", "awaiting", "late"} \cup Ends
       /\ run.pc \in {"idle", "arrived"} => run.has = {}

(* A connection is free or of one handler, and who waits has asked for one.   *)
PoolInv ==
  /\ \A h \in Handlers : Place(h, runs[h])
  /\ \A g, h \in Handlers : g # h => Has(g, runs[g]) \cap Has(h, runs[h]) = {}
  /\ \A h \in Handlers : Has(h, runs[h]) \cap In(free) = {}
  /\ Distinct(free) /\ Distinct(waiting)
  /\ \A h \in In(waiting) : runs[h].pc \in {"arrived", "wanting"}

-----------------------------------------------------------------------------
(* The statements on a connection.                                            *)

(* Statement i on c, and whose it is.                                         *)
By(c, i)   == conns[c].sent[i][1]
What(c, i) == conns[c].sent[i][2]
Sent(c)    == 1 .. Len(conns[c].sent)

(* A transaction is open from its checkout's BEGIN to its end.                *)
OpenByHolder ==
  \A c \in Connections :
    /\ ~conns[c].open => conns[c].tenant = {}
    /\ conns[c].open => \E h \in Checkouts : c \in runs[h].has

(* Who awaits has sent one statement, and a checkout only on its own.         *)
InFlight ==
  /\ \A c \in Connections : \A i \in Sent(c) :
       /\ runs[By(c, i)].pc = "awaiting"
       /\ By(c, i) \in Checkouts =>
            /\ c \in runs[By(c, i)].has
            /\ What(c, i) \in {"begin", "set", "work", "end"}
            /\ What(c, i) = "begin" <=> ~conns[c].open
            /\ What(c, i) = "begin" => runs[By(c, i)].round = 1
       /\ By(c, i) \notin Checkouts =>
            By(c, i) \in Resolvers /\ What(c, i) \in {"set", "images"}
  /\ \A c, d \in Connections : \A i \in Sent(c), j \in Sent(d) :
       By(c, i) = By(d, j) => c = d /\ i = j

(* A lookup's set_config is run before the next BEGIN on its connection.      *)
SetBeforeBegin ==
  \A c \in Connections : \A i \in Sent(c) :
    By(c, i) \in Resolvers /\ What(c, i) = "set" =>
      /\ ~conns[c].open
      /\ \A j \in Sent(c) : By(c, j) \in Checkouts => i < j

(* A checkout under way is in its transaction, in its round, under its shop.  *)
Within(h, run) ==
  /\ run.pc \in {"idle", "arrived", "begun"} => run.round = 1
  /\ \A c \in run.has :
       /\ conns[c].tenant \subseteq {h}
       /\ run.pc \in {"begun", "releasing"} => ~conns[c].open
       /\ run.pc \in AtHub \cup {"setting", "working", "ending"} => conns[c].open
       /\ run.pc \in AtHub /\ run.round = 2 => conns[c].tenant = {h}
       /\ run.pc = "working" => conns[c].tenant = {h}

TenantInv ==
  /\ OpenByHolder
  /\ InFlight
  /\ SetBeforeBegin
  /\ \A h \in Checkouts : Within(h, runs[h])

-----------------------------------------------------------------------------
(* The shapes.                                                                *)

RunType == [pc : Pcs, has : SUBSET Connections, extra : SUBSET Connections,
            round : {1, 2}, seen : Nat, at : Nat, locks : BOOLEAN, good : BOOLEAN]

LEMMA Drawn ==
  SetToSeq(Connections) \in Seq(Connections) /\ Distinct(SetToSeq(Connections))
<1> DEFINE n == Cardinality(Connections)
           F == {f \in [1 .. n -> Connections] : IsInjective(f)}
<1>1. n \in Nat /\ ExistsBijection(1 .. n, Connections)
  BY ShopLookupsAssumption, FS_CardinalityType
<1>2. PICK g : g \in Bijection(1 .. n, Connections)
  BY <1>1 DEF ExistsBijection
<1>3. g \in F
  BY <1>2 DEF Bijection, Injection
<1>4. SetToSeq(Connections) \in F
  BY <1>3 DEF SetToSeq
<1> DEFINE t == SetToSeq(Connections)
<1> HIDE DEF t, n
<1>5. t \in [1 .. n -> Connections] /\ IsInjective(t)
  BY <1>4 DEF t
<1>6. t \in Seq(Connections) /\ Len(t) = n
  BY <1>1, <1>5, SMTT(30)
<1> QED
  BY <1>5, <1>6 DEF Distinct, IsInjective, t

LEMMA RunTypes ==
  ASSUME NEW run \in RunType
  PROVE  /\ \A c \in Connections : WithConnection(run, c) \in RunType
         /\ \A h \in Handlers : Failing(h, run) \in RunType /\ AfterHub(h, run) \in RunType
  BY DEF RunType, WithConnection, Failing, AfterHub, Pcs, Ends

LEMMA ReleaseTypes ==
  ASSUME TypeOK, NEW h \in Handlers, NEW run \in RunType, NEW c \in Connections,
         Release(h, run, c)
  PROVE  /\ runs' \in [Handlers -> RunType]
         /\ free' \in Seq(Connections) /\ waiting' \in Seq(Handlers)
<1>1. runs \in [Handlers -> RunType] /\ free \in Seq(Connections) /\ waiting \in Seq(Handlers)
  BY DEF TypeOK, RunType
<1>2. CASE waiting = <<>>
  BY <1>1, <1>2, Appended DEF Release
<1>3. CASE waiting # <<>>
  <2>1. Head(waiting) \in Handlers /\ Tail(waiting) \in Seq(Handlers)
    BY <1>1, <1>3, HeadGone
  <2>2. WithConnection(runs[Head(waiting)], c) \in RunType
    BY <1>1, <2>1, RunTypes
  <2>3. WithConnection(run, c) \in RunType
    BY RunTypes
  <2> DEFINE g == Head(waiting)
  <2>4. runs' = [runs EXCEPT ![h] = run, ![g] = WithConnection(@, c)]
    BY <1>3 DEF Release
  <2>5. waiting' = Tail(waiting) /\ free' = free
    BY <1>3 DEF Release
  <2> HIDE DEF g
  <2>6. runs' \in [Handlers -> RunType]
    BY <1>1, <2>1, <2>2, <2>3, <2>4 DEF g
  <2> QED
    BY <1>1, <2>1, <2>5, <2>6
<1> QED
  BY <1>2, <1>3

ConnType == [open : BOOLEAN, tenant : SUBSET Handlers, sent : Seq(Handlers \X Statements)]

RunTypeOK == runs \in [Handlers -> RunType]
ConnTypeOK == conns \in [Connections -> ConnType]
PoolTypeOK == free \in Seq(Connections) /\ waiting \in Seq(Handlers)
RestTypeOK ==
  /\ row \in Nat /\ pending \in Nat /\ dropped \in Nat /\ deletions \in Nat
  /\ lapsesLeft \in Nat /\ faultsLeft \in Nat
  /\ entry \subseteq [version : Nat, read : Nat, set : Nat] /\ lock \in BOOLEAN

LEMMA TypeParts == TypeOK <=> RunTypeOK /\ ConnTypeOK /\ PoolTypeOK /\ RestTypeOK
  BY DEF TypeOK, RunTypeOK, ConnTypeOK, PoolTypeOK, RestTypeOK, RunType, ConnType

LEMMA PartsType == RunTypeOK' /\ ConnTypeOK' /\ PoolTypeOK' /\ RestTypeOK' => TypeOK'
  BY DEF TypeOK, RunTypeOK, ConnTypeOK, PoolTypeOK, RestTypeOK, RunType, ConnType

LEMMA TypeInit == Init => TypeOK
<1> SUFFICES ASSUME Init PROVE TypeOK
  OBVIOUS
<1>1. RunTypeOK
  BY DEF Init, RunTypeOK, RunType, NoRun, Pcs
<1>2. ConnTypeOK
  BY DEF Init, ConnTypeOK, ConnType, NewConnection
<1>3. PoolTypeOK
  BY Drawn DEF Init, PoolTypeOK
<1>4. RestTypeOK
  <2>1. MaxLapses \in Nat /\ FaultBudget \in Nat
    BY ShopLookupsAssumption
  <2> QED
    BY <2>1 DEF Init, RestTypeOK
<1> QED
  BY <1>1, <1>2, <1>3, <1>4, TypeParts

(* A statement appended to a connection, or run by it.                        *)
LEMMA SendTypes ==
  ASSUME ConnTypeOK, NEW c \in Connections, NEW h \in Handlers, NEW what \in Statements,
         Send(c, h, what)
  PROVE  ConnTypeOK'
<1>1. conns[c] \in ConnType /\ <<h, what>> \in Handlers \X Statements
  BY DEF ConnTypeOK
<1>2. Append(conns[c].sent, <<h, what>>) \in Seq(Handlers \X Statements)
  BY <1>1, Appended DEF ConnType
<1> QED
  BY <1>1, <1>2 DEF Send, ConnTypeOK, ConnType

LEMMA HeadTypes ==
  ASSUME ConnTypeOK, NEW c \in Connections, conns[c].sent # <<>>
  PROVE  /\ Head(conns[c].sent) \in Handlers \X Statements
         /\ Tail(conns[c].sent) \in Seq(Handlers \X Statements)
<1>1. conns[c].sent \in Seq(Handlers \X Statements)
  BY DEF ConnTypeOK, ConnType
<1> QED
  BY <1>1, HeadGone

LEMMA UnlockedType ==
  ASSUME RunTypeOK, RestTypeOK, NEW h \in Handlers
  PROVE  Unlocked(runs[h]) \in BOOLEAN
<1>1. lock \in BOOLEAN
  BY DEF RestTypeOK
<1>2. CASE runs[h].locks
  BY <1>2 DEF Unlocked
<1>3. CASE ~runs[h].locks
  BY <1>1, <1>3 DEF Unlocked
<1> QED
  BY <1>2, <1>3

LEMMA TypeStep == TypeOK /\ [Next]_vars => TypeOK'
<1> SUFFICES ASSUME TypeOK, [Next]_vars PROVE TypeOK'
  OBVIOUS
<1>0. RunTypeOK /\ ConnTypeOK /\ PoolTypeOK /\ RestTypeOK
  BY TypeParts
<1>1. ASSUME NEW h \in Handlers, Arrive(h) PROVE TypeOK'
  <2>1. RunTypeOK'
    BY <1>0, <1>1 DEF Arrive, Goes, RunTypeOK, RunType, Pcs
  <2> QED
    BY <1>0, <1>1, <2>1, PartsType DEF Arrive, Calm, cache, pool, shop, ConnTypeOK,
       PoolTypeOK, RestTypeOK
<1>2. ASSUME NEW h \in Handlers, Connect(h) PROVE TypeOK'
  <2>1. RunTypeOK' /\ PoolTypeOK'
    <3>1. CASE free = <<>>
      BY <1>0, <1>2, <3>1, Appended DEF Connect, RunTypeOK, PoolTypeOK
    <3>2. CASE free # <<>>
      <4>1. Front(free) \in Seq(Connections) /\ Last(free) \in Connections
        BY <1>0, <3>2, LastGone DEF PoolTypeOK
      <4>2. WithConnection(runs[h], Last(free)) \in RunType
        BY <1>0, <4>1, RunTypes DEF RunTypeOK
      <4> QED
        BY <1>0, <1>2, <3>2, <4>1, <4>2 DEF Connect, RunTypeOK, PoolTypeOK
    <3> QED
      BY <3>1, <3>2
  <2> QED
    BY <1>0, <1>2, <2>1, PartsType DEF Connect, Calm, cache, shop, ConnTypeOK, RestTypeOK
<1>3. ASSUME NEW h \in Handlers, ConnectTimesOut(h) PROVE TypeOK'
  <2>1. RunTypeOK'
    <3>1. Failing(h, runs[h]) \in RunType
      BY <1>0, RunTypes DEF RunTypeOK
    <3> QED
      BY <1>0, <1>3, <3>1 DEF ConnectTimesOut, RunTypeOK
  <2>2. PoolTypeOK'
    BY <1>0, <1>3, OneGone DEF ConnectTimesOut, PoolTypeOK
  <2>3. RestTypeOK'
    BY <1>0, <1>3, UnlockedType DEF ConnectTimesOut, RestTypeOK, Calm, shop
  <2> QED
    BY <1>0, <1>3, <2>1, <2>2, <2>3, PartsType DEF ConnectTimesOut, ConnTypeOK
<1>4. ASSUME NEW h \in Handlers, Ask(h) \/ Lock(h) \/ Poll(h) PROVE TypeOK'
  <2>1. AfterHub(h, runs[h]) \in RunType
    BY <1>0, RunTypes DEF RunTypeOK
  <2>2. RunTypeOK'
    BY <1>0, <1>4, <2>1 DEF Ask, Lock, Poll, Goes, RunTypeOK, RunType, Pcs
  <2>3. RestTypeOK'
    BY <1>0, <1>4 DEF Ask, Lock, Poll, RestTypeOK, cache, shop, Calm
  <2> QED
    BY <1>0, <1>4, <2>2, <2>3, PartsType DEF Ask, Lock, Poll, pool, ConnTypeOK, PoolTypeOK
<1>5. ASSUME NEW h \in Handlers, Query(h) PROVE TypeOK'
  <2> DEFINE run == [runs[h] EXCEPT !.pc = "storing", !.extra = {}, !.seen = row,
                                    !.at = deletions]
  <2>1. PICK c \in runs[h].extra : Release(h, run, c)
    BY <1>5 DEF Query
  <2>2. c \in Connections /\ run \in RunType
    <3>1. runs[h] \in RunType /\ row \in Nat /\ deletions \in Nat
      BY <1>0 DEF RunTypeOK, RestTypeOK
    <3> QED
      BY <3>1 DEF RunType, Pcs
  <2> HIDE DEF run
  <2>3. RunTypeOK' /\ PoolTypeOK'
    BY <2>1, <2>2, ReleaseTypes DEF RunTypeOK, PoolTypeOK
  <2> QED
    BY <1>0, <1>5, <2>3, PartsType DEF Query, ConnTypeOK, RestTypeOK, cache, shop, Calm
<1>6. ASSUME NEW h \in Handlers, QueryFails(h) PROVE TypeOK'
  <2> DEFINE run == [Failing(h, runs[h]) EXCEPT !.extra = {}]
  <2>1. PICK c \in runs[h].extra : Release(h, run, c)
    BY <1>6 DEF QueryFails, ReleasedOnFailure
  <2>2. c \in Connections /\ run \in RunType
    <3>1. Failing(h, runs[h]) \in RunType
      BY <1>0, RunTypes DEF RunTypeOK
    <3> QED
      BY <1>0, <3>1 DEF RunTypeOK, RunType
  <2> HIDE DEF run
  <2>3. RunTypeOK' /\ PoolTypeOK'
    BY <2>1, <2>2, ReleaseTypes DEF RunTypeOK, PoolTypeOK
  <2>4. RestTypeOK'
    BY <1>0, <1>6, UnlockedType DEF QueryFails, Strikes, RestTypeOK, shop
  <2> QED
    BY <1>0, <1>6, <2>3, <2>4, PartsType DEF QueryFails, ConnTypeOK
<1>7. ASSUME NEW h \in Handlers, Store(h) PROVE TypeOK'
  <2>1. AfterHub(h, runs[h]) \in RunType
    BY <1>0, RunTypes DEF RunTypeOK
  <2>2. RunTypeOK'
    BY <1>0, <1>7, <2>1 DEF Store, RunTypeOK
  <2>3. RestTypeOK'
    <3>1. Stored(h) \in [version : Nat, read : Nat, set : Nat]
      BY <1>0 DEF Stored, RestTypeOK, RunTypeOK, RunType
    <3> QED
      BY <1>0, <1>7, <3>1, UnlockedType DEF Store, RestTypeOK, shop, Calm
  <2> QED
    BY <1>0, <1>7, <2>2, <2>3, PartsType DEF Store, pool, ConnTypeOK, PoolTypeOK
<1>8. ASSUME NEW h \in Handlers, RedisFails(h) PROVE TypeOK'
  <2>1. AfterHub(h, runs[h]) \in RunType
    BY <1>0, RunTypes DEF RunTypeOK
  <2>2. RunTypeOK'
    BY <1>0, <1>8, <2>1 DEF RedisFails, Goes, RunTypeOK, RunType, Pcs
  <2>3. RestTypeOK'
    <3>1. Stored(h) \in [version : Nat, read : Nat, set : Nat]
      BY <1>0 DEF Stored, RestTypeOK, RunTypeOK, RunType
    <3> QED
      BY <1>0, <1>8, <3>1, UnlockedType DEF RedisFails, Strikes, RestTypeOK, cache, shop
  <2> QED
    BY <1>0, <1>8, <2>2, <2>3, PartsType DEF RedisFails, pool, ConnTypeOK, PoolTypeOK
<1>9. ASSUME NEW h \in Handlers, SendNext(h) PROVE TypeOK'
  <2>1. PICK c \in runs[h].has : Send(c, h, Statement[runs[h].pc])
    BY <1>9 DEF SendNext
  <2>2. c \in Connections /\ Statement[runs[h].pc] \in Statements
    <3>1. \A pc \in DOMAIN Statement : Statement[pc] \in Statements
      BY DEF Statement, Statements
    <3> QED
      BY <1>0, <1>9, <3>1 DEF SendNext, RunTypeOK, RunType
  <2>3. ConnTypeOK'
    BY <1>0, <2>1, <2>2, SendTypes
  <2>4. RunTypeOK'
    BY <1>0, <1>9 DEF SendNext, Goes, RunTypeOK, RunType, Pcs
  <2> QED
    BY <1>0, <1>9, <2>3, <2>4, PartsType DEF SendNext, PoolTypeOK, RestTypeOK, cache, shop, Calm
<1>10. ASSUME NEW h \in Handlers, Resolve(h) PROVE TypeOK'
  <2> DEFINE run == [runs[h] EXCEPT !.pc = "awaiting"]
  <2>1. PICK c \in runs[h].has : Release(h, run, c) /\ Send(c, h, "set")
    BY <1>10 DEF Resolve
  <2>2. c \in Connections /\ run \in RunType
    BY <1>0 DEF RunTypeOK, RunType, Pcs
  <2> HIDE DEF run
  <2>3. RunTypeOK' /\ PoolTypeOK'
    BY <2>1, <2>2, ReleaseTypes DEF RunTypeOK, PoolTypeOK
  <2>4. ConnTypeOK'
    <3>1. "set" \in Statements
      BY DEF Statements
    <3> QED
      BY <1>0, <2>1, <2>2, <3>1, SendTypes
  <2> QED
    BY <1>0, <1>10, <2>3, <2>4, PartsType DEF Resolve, RestTypeOK, cache, shop, Calm
<1>11. ASSUME NEW h \in Handlers, SendLate(h) PROVE TypeOK'
  <2>1. PICK c \in runs[h].has : Send(c, h, "images")
    BY <1>11 DEF SendLate
  <2>2. c \in Connections
    BY <1>0 DEF RunTypeOK, RunType
  <2>3. ConnTypeOK'
    <3>1. "images" \in Statements
      BY DEF Statements
    <3> QED
      BY <1>0, <2>1, <2>2, <3>1, SendTypes
  <2>4. RunTypeOK'
    BY <1>0, <1>11 DEF SendLate, Goes, RunTypeOK, RunType, Pcs
  <2> QED
    BY <1>0, <1>11, <2>3, <2>4, PartsType DEF SendLate, PoolTypeOK, RestTypeOK, cache, shop, Calm
<1>12. ASSUME NEW h \in Handlers, Finish(h) PROVE TypeOK'
  <2> DEFINE run == [runs[h] EXCEPT !.pc = IF runs[h].good THEN "answered" ELSE "failed",
                                    !.has = {}]
  <2>1. PICK c \in runs[h].has : Release(h, run, c)
    BY <1>12 DEF Finish
  <2>2. c \in Connections /\ run \in RunType
    <3>1. runs[h] \in RunType
      BY <1>0 DEF RunTypeOK
    <3>2. (IF runs[h].good THEN "answered" ELSE "failed") \in Pcs
      BY DEF Pcs, Ends
    <3> QED
      BY <3>1, <3>2 DEF RunType
  <2> HIDE DEF run
  <2>3. RunTypeOK' /\ PoolTypeOK'
    BY <2>1, <2>2, ReleaseTypes DEF RunTypeOK, PoolTypeOK
  <2> QED
    BY <1>0, <1>12, <2>3, PartsType DEF Finish, ConnTypeOK, RestTypeOK, cache, shop, Calm
<1>13. ASSUME NEW c \in Connections, Execute(c) PROVE TypeOK'
  <2> DEFINE h == Head(conns[c].sent)[1]
             what == Head(conns[c].sent)[2]
  <2>1. /\ conns' = [conns EXCEPT ![c] = After(@, h, what)]
        /\ runs' = [runs EXCEPT ![h].pc = Answer(h, what)]
    BY <1>13 DEF Execute, Goes
  <2>2. h \in Handlers /\ Tail(conns[c].sent) \in Seq(Handlers \X Statements)
    BY <1>0, <1>13, HeadTypes DEF Execute
  <2> HIDE DEF h, what
  <2>3. After(conns[c], h, what) \in ConnType
    BY <1>0, <2>2 DEF After, Lasts, ConnTypeOK, ConnType
  <2>4. Answer(h, what) \in Pcs
    BY DEF Answer, Pcs, Ends
  <2>5. ConnTypeOK' /\ RunTypeOK'
    <3>1. ConnTypeOK'
      BY <1>0, <2>1, <2>3 DEF ConnTypeOK
    <3>2. runs[h] \in RunType
      BY <1>0, <2>2 DEF RunTypeOK
    <3>3. [runs[h] EXCEPT !.pc = Answer(h, what)] \in RunType
      BY <2>4, <3>2 DEF RunType
    <3>4. runs' = [runs EXCEPT ![h] = [runs[h] EXCEPT !.pc = Answer(h, what)]]
      BY <2>1
    <3>5. RunTypeOK'
      BY <1>0, <3>3, <3>4 DEF RunTypeOK
    <3> QED
      BY <3>1, <3>5
  <2> QED
    BY <1>0, <1>13, <2>5, PartsType DEF Execute, PoolTypeOK, RestTypeOK, cache, shop, Calm
<1>14. CASE Write \/ Invalidate \/ InvalidateFails \/ Lapse
  <2>1. RestTypeOK'
    <3>1. CASE Write
      BY <1>0, <3>1 DEF Write, RestTypeOK, cache, Calm
    <3>2. CASE Invalidate
      BY <1>0, <3>2 DEF Invalidate, DeletedKey, RestTypeOK, Calm
    <3>3. CASE InvalidateFails
      BY <1>0, <3>3 DEF InvalidateFails, Strikes, RestTypeOK, cache
    <3>4. CASE Lapse
      <4>1. lock' \in BOOLEAN
        BY <1>0, <3>4 DEF Lapse, RestTypeOK
      <4>2. lapsesLeft' \in Nat /\ entry' \subseteq [version : Nat, read : Nat, set : Nat]
        BY <1>0, <3>4 DEF Lapse, RestTypeOK
      <4> QED
        BY <1>0, <3>4, <4>1, <4>2 DEF Lapse, RestTypeOK, shop
    <3> QED
      BY <1>14, <3>1, <3>2, <3>3, <3>4
  <2> QED
    BY <1>0, <1>14, <2>1, PartsType DEF Write, Invalidate, InvalidateFails, Lapse, pool,
       RunTypeOK, ConnTypeOK, PoolTypeOK
<1>15. CASE UNCHANGED vars
  BY <1>0, <1>15, PartsType DEF vars, pool, cache, shop, RunTypeOK, ConnTypeOK, PoolTypeOK,
     RestTypeOK
<1> QED
  BY <1>1, <1>2, <1>3, <1>4, <1>5, <1>6, <1>7, <1>8, <1>9, <1>10, <1>11, <1>12, <1>13,
     <1>14, <1>15 DEF Next, Step

(* Every state has the shape TypeOK says.                                     *)
THEOREM TypeCorrect == Spec => []TypeOK
  BY TypeInit, TypeStep, PTL DEF Spec

-----------------------------------------------------------------------------
(* Proof: the cached row.                                                    *)

LEMMA ReleaseRuns ==
  ASSUME TypeOK, NEW h \in Handlers, NEW run \in RunType, NEW c \in Connections,
         Release(h, run, c)
  PROVE  /\ runs'[h] = run \/ runs'[h] = WithConnection(run, c)
         /\ \A g \in Handlers \ {h} :
              runs'[g] = runs[g] \/ runs'[g] = WithConnection(runs[g], c)
<1>1. runs \in [Handlers -> RunType] /\ waiting \in Seq(Handlers)
  BY DEF TypeOK, RunType
<1>2. CASE waiting = <<>>
  BY <1>1, <1>2 DEF Release
<1>3. CASE waiting # <<>>
  <2> DEFINE k == Head(waiting)
  <2>1. k \in Handlers
    BY <1>1, <1>3, HeadGone
  <2>2. runs' = [runs EXCEPT ![h] = run, ![k] = WithConnection(@, c)]
    BY <1>3 DEF Release
  <2> HIDE DEF k
  <2> QED
    BY <1>1, <2>1, <2>2
<1> QED
  BY <1>2, <1>3

(* What the row's part needs of a handler's record.                           *)
FillOK(run) ==
  run.pc = "storing" => run.at <= deletions /\ (run.at = deletions => dropped <= run.seen)
EntryOK(e) == e.set = deletions /\ e.read <= e.set /\ (e.read = e.set => dropped <= e.version)

LEMMA FillParts ==
  FillInv <=> /\ dropped <= row
              /\ \A h \in Handlers : FillOK(runs[h])
              /\ \A e \in entry : EntryOK(e)
  BY DEF FillInv, FillOK, EntryOK

(* A handler that comes to another place than "storing" keeps the invariant.  *)
LEMMA FillKept ==
  ASSUME FillInv, UNCHANGED <<row, dropped, deletions>>,
         \A e \in entry' : e \in entry \/ EntryOK(e),
         \A h \in Handlers :
           runs'[h] = runs[h] \/ runs'[h].pc # "storing" \/ FillOK(runs'[h])
  PROVE  FillInv'
  BY DEF FillInv, FillOK, EntryOK

LEMMA ReleaseFills ==
  ASSUME TypeOK, FillInv, NEW h \in Handlers, NEW run \in RunType, NEW c \in Connections,
         Release(h, run, c), UNCHANGED <<row, dropped, deletions, entry>>, FillOK(run)
  PROVE  FillInv'
<1>1. \A r \in RunType : WithConnection(r, c).pc # "storing"
  BY DEF WithConnection, RunType
<1>2. runs \in [Handlers -> RunType]
  BY DEF TypeOK, RunType
<1>3. \A g \in Handlers : runs'[g] = runs[g] \/ runs'[g].pc # "storing" \/ FillOK(runs'[g])
  BY <1>1, <1>2, ReleaseRuns
<1> QED
  BY <1>3, FillKept

LEMMA FillStep == TypeOK /\ FillInv /\ [Next]_vars => FillInv'
<1> SUFFICES ASSUME TypeOK, FillInv, [Next]_vars PROVE FillInv'
  OBVIOUS
<1>0. RunTypeOK /\ RestTypeOK /\ runs \in [Handlers -> RunType]
  BY TypeParts DEF RunTypeOK
<1>a. \A h \in Handlers : FillOK(runs[h])
  BY FillParts
<1>b. \A h \in Handlers : AfterHub(h, runs[h]).pc # "storing" /\ Failing(h, runs[h]).pc # "storing"
  BY <1>0 DEF AfterHub, Failing, RunType
<1>c. \A h \in Handlers, c \in Connections : WithConnection(runs[h], c).pc # "storing"
  BY <1>0 DEF WithConnection, RunType
<1>1. ASSUME NEW h \in Handlers, Arrive(h) PROVE FillInv'
  BY <1>0, <1>1, FillKept DEF Arrive, Goes, cache, shop, RunType
<1>2. ASSUME NEW h \in Handlers, Connect(h) PROVE FillInv'
  <2>1. \A g \in Handlers : runs'[g] = runs[g] \/ runs'[g].pc # "storing"
    <3>1. CASE free = <<>>
      BY <1>2, <3>1 DEF Connect
    <3>2. CASE free # <<>>
      <4>1. Last(free) \in Connections
        BY <3>2, LastGone DEF TypeOK
      <4> QED
        BY <1>0, <1>2, <1>c, <3>2, <4>1 DEF Connect
    <3> QED
      BY <3>1, <3>2
  <2> QED
    BY <1>2, <2>1, FillKept DEF Connect, cache, shop
<1>3. ASSUME NEW h \in Handlers, ConnectTimesOut(h) PROVE FillInv'
  BY <1>0, <1>3, <1>b, FillKept DEF ConnectTimesOut, shop
<1>4. ASSUME NEW h \in Handlers, Ask(h) \/ Lock(h) \/ Poll(h) PROVE FillInv'
  <2>1. \A g \in Handlers : runs'[g] = runs[g] \/ runs'[g].pc # "storing"
    BY <1>0, <1>4, <1>b DEF Ask, Lock, Poll, Goes, RunType
  <2> QED
    BY <1>4, <2>1, FillKept DEF Ask, Lock, Poll, cache, shop
<1>5. ASSUME NEW h \in Handlers, Query(h) PROVE FillInv'
  <2> DEFINE run == [runs[h] EXCEPT !.pc = "storing", !.extra = {}, !.seen = row,
                                    !.at = deletions]
  <2>1. PICK c \in runs[h].extra : Release(h, run, c)
    BY <1>5 DEF Query
  <2>2. runs[h] \in RunType /\ row \in Nat /\ deletions \in Nat
    BY <1>0 DEF RestTypeOK
  <2>3. c \in Connections /\ run \in RunType /\ run.seen = row /\ run.at = deletions
    BY <2>2 DEF RunType, Pcs
  <2> HIDE DEF run
  <2>4. FillOK(run)
    BY <2>2, <2>3 DEF FillOK, FillInv
  <2> QED
    BY <1>5, <2>1, <2>3, <2>4, ReleaseFills DEF Query, cache, shop
<1>6. ASSUME NEW h \in Handlers, QueryFails(h) PROVE FillInv'
  <2> DEFINE run == [Failing(h, runs[h]) EXCEPT !.extra = {}]
  <2>1. PICK c \in runs[h].extra : Release(h, run, c)
    BY <1>6 DEF QueryFails, ReleasedOnFailure
  <2>2. c \in Connections /\ run \in RunType /\ run.pc # "storing"
    <3>1. Failing(h, runs[h]) \in RunType
      BY <1>0, RunTypes
    <3> QED
      BY <1>0, <1>b, <3>1 DEF RunType
  <2> HIDE DEF run
  <2> QED
    BY <1>6, <2>1, <2>2, ReleaseFills DEF QueryFails, FillOK, shop
<1>7. ASSUME NEW h \in Handlers, Store(h) \/ RedisFails(h) PROVE FillInv'
  <2>1. UNCHANGED <<row, dropped, deletions>>
    BY <1>7 DEF Store, RedisFails, shop
  <2>2. \A g \in Handlers : runs'[g] = runs[g] \/ runs'[g].pc # "storing"
    BY <1>0, <1>7, <1>b DEF Store, RedisFails, Goes, RunType
  <2>3. \A e \in entry' : e \in entry \/ (runs[h].pc = "storing" /\ e = Stored(h))
    BY <1>7 DEF Store, RedisFails, cache
  <2>4. runs[h].pc = "storing" => EntryOK(Stored(h))
    BY <1>a DEF EntryOK, FillOK, Stored
  <2> QED
    BY <2>1, <2>2, <2>3, <2>4, FillKept
<1>8. ASSUME NEW h \in Handlers, SendNext(h) \/ SendLate(h) PROVE FillInv'
  <2>1. \A g \in Handlers : runs'[g] = runs[g] \/ runs'[g].pc # "storing"
    BY <1>0, <1>8 DEF SendNext, SendLate, Goes, RunType
  <2> QED
    BY <1>8, <2>1, FillKept DEF SendNext, SendLate, cache, shop
<1>9. ASSUME NEW h \in Handlers, Resolve(h) PROVE FillInv'
  <2> DEFINE run == [runs[h] EXCEPT !.pc = "awaiting"]
  <2>1. PICK c \in runs[h].has : Release(h, run, c)
    BY <1>9 DEF Resolve
  <2>2. c \in Connections /\ run \in RunType /\ run.pc # "storing"
    BY <1>0 DEF RunType, Pcs
  <2> HIDE DEF run
  <2> QED
    BY <1>9, <2>1, <2>2, ReleaseFills DEF Resolve, FillOK, cache, shop
<1>10. ASSUME NEW h \in Handlers, Finish(h) PROVE FillInv'
  <2> DEFINE pc == IF runs[h].good THEN "answered" ELSE "failed"
             run == [runs[h] EXCEPT !.pc = pc, !.has = {}]
  <2>1. PICK c \in runs[h].has : Release(h, run, c)
    BY <1>10 DEF Finish
  <2>2. pc \in Pcs /\ pc # "storing"
    BY DEF Pcs, Ends
  <2> HIDE DEF pc
  <2>3. c \in Connections /\ run \in RunType /\ run.pc # "storing"
    BY <1>0, <2>2 DEF RunType
  <2> HIDE DEF run
  <2> QED
    BY <1>10, <2>1, <2>3, ReleaseFills DEF Finish, FillOK, cache, shop
<1>11. ASSUME NEW c \in Connections, Execute(c) PROVE FillInv'
  <2>1. PICK h, what : runs' = [runs EXCEPT ![h].pc = Answer(h, what)]
    BY <1>11 DEF Execute, Goes
  <2>2. Answer(h, what) # "storing"
    BY DEF Answer
  <2>3. \A g \in Handlers : runs'[g] = runs[g] \/ runs'[g].pc # "storing"
    BY <1>0, <2>1, <2>2 DEF RunType
  <2> QED
    BY <1>11, <2>3, FillKept DEF Execute, cache, shop
<1>12. CASE Write
  BY <1>0, <1>12 DEF Write, FillInv, RestTypeOK, cache
<1>13. CASE Invalidate
  <2>1. \A h \in Handlers : runs[h].at \in Nat /\ runs[h].seen \in Nat
    BY <1>0 DEF RunType
  <2> QED
    BY <1>0, <1>13, <2>1 DEF Invalidate, DeletedKey, FillInv, RestTypeOK
<1>14. CASE InvalidateFails
  BY <1>14 DEF InvalidateFails, FillInv, cache
<1>15. CASE Lapse
  BY <1>15 DEF Lapse, FillInv, shop
<1>16. CASE UNCHANGED vars
  BY <1>16 DEF vars, cache, shop, FillInv
<1> QED
  BY <1>1, <1>2, <1>3, <1>4, <1>5, <1>6, <1>7, <1>8, <1>9, <1>10, <1>11, <1>12, <1>13,
     <1>14, <1>15, <1>16 DEF Next, Step

(* A cached hub older than the last invalidation was read before it and       *)
(* written after it (invalidateShop deletes, a fill under way writes back).   *)
THEOREM StaleOnlyByLateFill == Spec => []StaleByLateFill
<1>1. Init => FillInv
  BY DEF Init, FillInv, NoRun
<1>2. TypeOK /\ FillInv => StaleByLateFill
  <2>1. SUFFICES ASSUME TypeOK, FillInv, NEW e \in entry, e.version < dropped
                 PROVE  e.read < e.set
    BY DEF StaleByLateFill
  <2>2. e.read \in Nat /\ e.set \in Nat /\ e.version \in Nat /\ dropped \in Nat
    BY TypeParts, <2>1 DEF RestTypeOK
  <2> QED
    BY <2>1, <2>2 DEF FillInv
<1> QED
  BY <1>1, <1>2, FillStep, TypeCorrect, PTL DEF Spec

-----------------------------------------------------------------------------
(* Proof: who has which connection.                                          *)

LEMMA Kinds ==
  ASSUME NEW h \in Handlers
  PROVE  /\ h \in Checkouts => h \notin Lookups /\ h \notin Resolvers
         /\ h \in Lookups => h \notin Resolvers
         /\ h \notin Checkouts /\ h \notin Lookups => h \in Resolvers
  BY ShopLookupsAssumption DEF Handlers

(* A handler gives up what it had or keeps it, and the queue only loses.      *)
LEMMA PoolKept ==
  ASSUME TypeOK, PoolInv, NEW h \in Handlers, NEW run,
         runs' = [runs EXCEPT ![h] = run], free' = free,
         Place(h, run), Has(h, run) \subseteq Has(h, runs[h]),
         In(waiting') \subseteq In(waiting), Distinct(waiting'),
         h \in In(waiting') => run.pc \in {"arrived", "wanting"}
  PROVE  PoolInv'
<1>1. runs'[h] = run /\ \A g \in Handlers \ {h} : runs'[g] = runs[g]
  BY DEF TypeOK
<1>2. \A g \in Handlers : Has(g, runs'[g]) \subseteq Has(g, runs[g]) /\ Place(g, runs'[g])
  BY <1>1 DEF PoolInv
<1>3. In(free') = In(free) /\ Distinct(free')
  BY DEF PoolInv
<1>4. \A g \in In(waiting') : runs'[g].pc \in {"arrived", "wanting"}
  <2>1. \A g \in In(waiting) : g \in Handlers
    BY SMTT(20) DEF TypeOK, In
  <2> QED
    BY <1>1, <2>1 DEF PoolInv
<1> QED
  BY <1>2, <1>3, <1>4 DEF PoolInv

LEMMA Given ==
  ASSUME NEW g \in Handlers, NEW run \in RunType, NEW c \in Connections,
         Place(g, run), run.pc \in {"arrived", "wanting"}, c \notin Has(g, run)
  PROVE  /\ Place(g, WithConnection(run, c))
         /\ Has(g, WithConnection(run, c)) \subseteq Has(g, run) \cup {c}
         /\ WithConnection(run, c).pc \in {"querying", "begun"}
<1>1. CASE run.pc = "wanting"
  <2> DEFINE w == [run EXCEPT !.pc = "querying", !.extra = {c}]
  <2>1. WithConnection(run, c) = w
    BY <1>1 DEF WithConnection
  <2>2. w.pc = "querying" /\ w.has = run.has /\ w.extra = {c}
    BY DEF RunType
  <2>3. g \notin Resolvers
    BY <1>1 DEF Place, Ends
  <2> HIDE DEF w
  <2>4. Place(g, w)
    BY <1>1, <2>2, <2>3 DEF Place, Has, AtHub, Ends
  <2> QED
    BY <2>1, <2>2, <2>3, <2>4 DEF Has
<1>2. CASE run.pc = "arrived"
  <2> DEFINE w == [run EXCEPT !.pc = "begun", !.has = {c}]
  <2>1. WithConnection(run, c) = w
    BY <1>2 DEF WithConnection
  <2>2. w.pc = "begun" /\ w.has = {c} /\ w.extra = run.extra /\ run.extra = {}
    BY <1>2 DEF RunType, Place
  <2>3. g \notin Lookups
    BY <1>2 DEF Place, Ends, AtHub
  <2> HIDE DEF w
  <2>4. Place(g, w)
    BY <2>2, <2>3 DEF Place, Ends
  <2> QED
    BY <2>1, <2>2, <2>4 DEF Has
<1> QED
  BY <1>1, <1>2

LEMMA ReleasePool ==
  ASSUME TypeOK, PoolInv, NEW h \in Handlers, NEW run \in RunType, NEW c \in Connections,
         Release(h, run, c), c \in Has(h, runs[h]), Place(h, run),
         Has(h, run) \subseteq Has(h, runs[h]) \ {c},
         run.pc \notin {"arrived", "wanting"}, runs[h].pc \notin {"arrived", "wanting"}
  PROVE  PoolInv'
<1>0. runs \in [Handlers -> RunType] /\ waiting \in Seq(Handlers) /\ free \in Seq(Connections)
  BY DEF TypeOK, RunType
<1>1. CASE waiting = <<>>
  <2>1. runs' = [runs EXCEPT ![h] = run] /\ waiting' = waiting /\ free' = Append(free, c)
    BY <1>1 DEF Release
  <2>2. runs'[h] = run /\ \A g \in Handlers \ {h} : runs'[g] = runs[g]
    BY <1>0, <2>1
  <2>3. In(free') = In(free) \cup {c} /\ Distinct(free')
    <3>1. c \notin In(free) /\ Distinct(free)
      BY DEF PoolInv
    <3> QED
      BY <1>0, <2>1, <3>1, Appended
  <2>4. \A g \in Handlers : Place(g, runs'[g]) /\ Has(g, runs'[g]) \subseteq Has(g, runs[g]) \ {c}
    BY <2>2 DEF PoolInv
  <2>5. In(waiting') = {} /\ Distinct(waiting')
    BY <1>1, <2>1 DEF In, Distinct
  <2> QED
    BY <2>3, <2>4, <2>5 DEF PoolInv
<1>2. CASE waiting # <<>>
  <2> DEFINE k == Head(waiting)
             w == WithConnection(runs[k], c)
  <2>1. /\ k \in Handlers /\ In(waiting) = In(Tail(waiting)) \cup {k}
        /\ k \notin In(Tail(waiting)) /\ Distinct(Tail(waiting))
    BY <1>0, <1>2, HeadGone DEF PoolInv
  <2>2. /\ runs' = [runs EXCEPT ![h] = run, ![k] = WithConnection(@, c)]
        /\ waiting' = Tail(waiting) /\ free' = free
    BY <1>2 DEF Release
  <2>3. runs[k].pc \in {"arrived", "wanting"} /\ k # h
    BY <2>1 DEF PoolInv
  <2>4. /\ Place(k, w) /\ Has(k, w) \subseteq Has(k, runs[k]) \cup {c}
        /\ w.pc \in {"querying", "begun"}
    <3>1. c \notin Has(k, runs[k]) /\ Place(k, runs[k]) /\ runs[k] \in RunType
      BY <1>0, <2>1, <2>3 DEF PoolInv
    <3> HIDE DEF k
    <3> QED
      BY <2>1, <2>3, <3>1, Given
  <2> HIDE DEF k
  <2>5. /\ runs'[h] = run /\ runs'[k] = w
        /\ \A g \in Handlers \ {h, k} : runs'[g] = runs[g]
    BY <1>0, <2>1, <2>2, <2>3
  <2> HIDE DEF w
  <2>6. \A g \in Handlers : Place(g, runs'[g])
    BY <2>4, <2>5 DEF PoolInv
  <2>7. /\ \A g \in Handlers \ {k} : Has(g, runs'[g]) \subseteq Has(g, runs[g]) \ {c}
        /\ Has(k, runs'[k]) \subseteq Has(k, runs[k]) \cup {c}
    BY <2>4, <2>5 DEF PoolInv
  <2>8. \A f, g \in Handlers : f # g => Has(f, runs'[f]) \cap Has(g, runs'[g]) = {}
    BY <2>1, <2>7 DEF PoolInv
  <2>9. ASSUME NEW g \in Handlers PROVE Has(g, runs'[g]) \cap In(free') = {}
    <3>1. Has(g, runs'[g]) \subseteq Has(g, runs[g]) \cup {c}
      BY <2>7
    <3>2. Has(g, runs[g]) \cap In(free) = {} /\ c \notin In(free)
      BY DEF PoolInv
    <3>3. In(free') = In(free)
      BY <2>2
    <3> QED
      BY <3>1, <3>2, <3>3
  <2>10. \A g \in In(waiting') : runs'[g].pc \in {"arrived", "wanting"}
    <3>1. \A g \in In(waiting') : g \in In(waiting) /\ g # k /\ g \in Handlers
      <4>1. \A g \in In(waiting) : g \in Handlers
        BY <1>0 DEF In
      <4> QED
        BY <2>1, <2>2, <4>1
    <3> QED
      BY <2>5, <3>1 DEF PoolInv
  <2>11. Distinct(free') /\ Distinct(waiting')
    BY <2>1, <2>2 DEF PoolInv
  <2> QED
    BY <2>6, <2>8, <2>9, <2>10, <2>11 DEF PoolInv
<1> QED
  BY <1>1, <1>2

-----------------------------------------------------------------------------
(* Proof: the statements on a connection.                                    *)

(* What a change of the handlers alone must not do.                           *)
Steady ==
  /\ \A g \in Handlers : runs[g].pc = "awaiting" => runs'[g] = runs[g]
  /\ \A g \in Checkouts : \A c \in runs[g].has \ runs'[g].has : ~conns[c].open
  /\ \A g \in Checkouts : Within(g, runs'[g])

LEMMA SentBy ==
  ASSUME TypeOK, NEW c \in Connections, NEW i \in Sent(c)
  PROVE  By(c, i) \in Handlers
<1>1. conns[c].sent \in Seq(Handlers \X Statements)
  BY DEF TypeOK
<1>2. conns[c].sent[i] \in Handlers \X Statements
  BY <1>1 DEF Sent
<1> QED
  BY <1>2 DEF By

LEMMA TenantKept ==
  ASSUME TypeOK, TenantInv, Steady, UNCHANGED conns
  PROVE  TenantInv'
<1>1. OpenByHolder'
  BY DEF TenantInv, OpenByHolder, Steady
<1>2. InFlight'
  <2>1. \A c \in Connections : Sent(c)' = Sent(c)
    BY DEF Sent
  <2>2. \A c \in Connections : \A i \in Sent(c) :
          By(c, i)' = By(c, i) /\ What(c, i)' = What(c, i)
    BY DEF By, What
  <2>3. \A c \in Connections : \A i \in Sent(c) : runs'[By(c, i)] = runs[By(c, i)]
    BY SentBy DEF Steady, TenantInv, InFlight
  <2> QED
    BY <2>1, <2>2, <2>3 DEF TenantInv, InFlight
<1>3. SetBeforeBegin'
  BY DEF TenantInv, SetBeforeBegin, Sent, By, What
<1>4. \A h \in Checkouts : Within(h, runs[h])'
  BY DEF Steady, Within
<1> QED
  BY <1>1, <1>2, <1>3, <1>4 DEF TenantInv

(* A connection no checkout has is in no transaction.                         *)
LEMMA Closed ==
  ASSUME TenantInv, NEW c \in Connections, \A h \in Checkouts : c \notin runs[h].has
  PROVE  /\ ~conns[c].open /\ conns[c].tenant = {}
         /\ \A i \in Sent(c) : By(c, i) \notin Checkouts
  BY DEF TenantInv, OpenByHolder, InFlight

LEMMA NoneHas ==
  ASSUME TypeOK, PoolInv, NEW c \in Connections, NEW h \in Handlers,
         \/ c \in In(free)
         \/ c \in Has(h, runs[h]) /\ (h \in Checkouts => c \notin runs[h].has)
  PROVE  \A g \in Checkouts : c \notin runs[g].has
<1>1. ASSUME NEW g \in Checkouts PROVE g \in Handlers /\ runs[g].has \subseteq Has(g, runs[g])
  BY Kinds DEF Handlers, Has
<1> QED
  BY <1>1 DEF PoolInv

LEMMA WithinGiven ==
  ASSUME NEW g \in Checkouts, NEW run \in RunType, NEW c \in Connections,
         Place(g, run), Within(g, run), run.pc \in {"arrived", "wanting"},
         ~conns[c].open, conns[c].tenant = {}
  PROVE  Within(g, WithConnection(run, c))
<1>1. CASE run.pc = "wanting"
  BY <1>1 DEF WithConnection, RunType, Within, AtHub
<1>2. CASE run.pc = "arrived"
  BY <1>2 DEF WithConnection, RunType, Within, AtHub
<1> QED
  BY <1>1, <1>2

LEMMA ReleaseSteady ==
  ASSUME TypeOK, PoolInv, TenantInv, NEW h \in Handlers, NEW run \in RunType,
         NEW c \in Connections, Release(h, run, c),
         ~conns[c].open, conns[c].tenant = {}, runs[h].pc \notin {"awaiting", "arrived", "wanting"},
         h \in Checkouts => Within(h, run) /\ \A d \in runs[h].has \ run.has : ~conns[d].open
  PROVE  Steady
<1>0. runs \in [Handlers -> RunType] /\ waiting \in Seq(Handlers)
  BY DEF TypeOK, RunType
<1>a. Checkouts \subseteq Handlers
  BY DEF Handlers
<1>1. CASE waiting = <<>>
  <2>1. runs'[h] = run /\ \A g \in Handlers \ {h} : runs'[g] = runs[g]
    BY <1>0, <1>1 DEF Release
  <2> QED
    BY <1>a, <2>1 DEF Steady, TenantInv
<1>2. CASE waiting # <<>>
  <2> DEFINE k == Head(waiting)
             w == WithConnection(runs[k], c)
  <2>1. k \in Handlers /\ k \in In(waiting)
    BY <1>0, <1>2, HeadGone
  <2>2. runs' = [runs EXCEPT ![h] = run, ![k] = WithConnection(@, c)]
    BY <1>2 DEF Release
  <2> HIDE DEF k
  <2>3. runs[k].pc \in {"arrived", "wanting"} /\ k # h /\ Place(k, runs[k])
    BY <2>1 DEF PoolInv
  <2>4. /\ runs'[h] = run /\ runs'[k] = w
        /\ \A g \in Handlers \ {h, k} : runs'[g] = runs[g]
    BY <1>0, <2>1, <2>2, <2>3
  <2>5. k \in Checkouts => Within(k, w)
    BY <1>0, <2>1, <2>3, WithinGiven DEF TenantInv
  <2>6. k \in Checkouts => runs[k].has \subseteq w.has
    <3>1. k \in Checkouts /\ runs[k].pc = "arrived" => runs[k].has = {}
      BY <2>3 DEF Place
    <3>2. runs[k].pc = "wanting" => w.has = runs[k].has
      BY <1>0, <2>1 DEF WithConnection, RunType
    <3> QED
      BY <2>3, <3>1, <3>2
  <2> HIDE DEF w
  <2> QED
    BY <1>a, <2>3, <2>4, <2>5, <2>6 DEF Steady, TenantInv
<1> QED
  BY <1>1, <1>2

LEMMA SendEffect ==
  ASSUME TypeOK, NEW c \in Connections, NEW h \in Handlers, NEW what \in Statements,
         Send(c, h, what)
  PROVE  /\ \A d \in Connections :
              conns'[d].open = conns[d].open /\ conns'[d].tenant = conns[d].tenant
         /\ \A d \in Connections \ {c} : conns'[d] = conns[d]
         /\ Len(conns[c].sent) \in Nat /\ Len(conns'[c].sent) = Len(conns[c].sent) + 1
         /\ \A i \in Sent(c) : conns'[c].sent[i] = conns[c].sent[i]
         /\ conns'[c].sent[Len(conns[c].sent) + 1] = <<h, what>>
<1> DEFINE q == Append(conns[c].sent, <<h, what>>)
<1>1. conns[c].sent \in Seq(Handlers \X Statements) /\ <<h, what>> \in Handlers \X Statements
  BY DEF TypeOK
<1>2. /\ Len(q) = Len(conns[c].sent) + 1
      /\ \A i \in 1 .. Len(conns[c].sent) : q[i] = conns[c].sent[i]
      /\ q[Len(conns[c].sent) + 1] = <<h, what>>
  BY <1>1, AppendProperties
<1>3. conns' = [conns EXCEPT ![c].sent = q]
  BY DEF Send
<1> HIDE DEF q
<1>4. /\ conns'[c].sent = q
      /\ \A d \in Connections :
           conns'[d].open = conns[d].open /\ conns'[d].tenant = conns[d].tenant
      /\ \A d \in Connections \ {c} : conns'[d] = conns[d]
  BY <1>3 DEF TypeOK
<1> QED
  BY <1>1, <1>2, <1>4 DEF Sent

LEMMA TenantSend ==
  ASSUME TypeOK, TypeOK', TenantInv, NEW c \in Connections, NEW h \in Handlers,
         NEW what \in Statements, Send(c, h, what),
         runs[h].pc # "awaiting", runs'[h].pc = "awaiting", Steady,
         h \in Checkouts =>
           /\ c \in runs'[h].has /\ what \in {"begin", "set", "work", "end"}
           /\ what = "begin" <=> ~conns[c].open
           /\ what = "begin" => runs'[h].round = 1,
         h \notin Checkouts => h \in Resolvers /\ what \in {"set", "images"},
         h \in Resolvers /\ what = "set" =>
           ~conns[c].open /\ \A i \in Sent(c) : By(c, i) \notin Checkouts
  PROVE  TenantInv'
<1>0. PICK n : n = Len(conns[c].sent) + 1
  OBVIOUS
<1>1. /\ \A d \in Connections :
           conns'[d].open = conns[d].open /\ conns'[d].tenant = conns[d].tenant
      /\ \A d \in Connections \ {c} : conns'[d] = conns[d]
      /\ Len(conns[c].sent) \in Nat /\ Len(conns'[c].sent) = n
      /\ \A i \in Sent(c) : conns'[c].sent[i] = conns[c].sent[i]
      /\ conns'[c].sent[n] = <<h, what>>
  BY <1>0, SendEffect
<1>2. \A d \in Connections \ {c} : Sent(d)' = Sent(d)
  BY <1>1 DEF Sent
<1>3. \A d \in Connections : \A i \in Sent(d) : By(d, i)' = By(d, i) /\ What(d, i)' = What(d, i)
  BY <1>1 DEF By, What
<1>4. By(c, n)' = h /\ What(c, n)' = what /\ n \notin Sent(c)
  BY <1>0, <1>1 DEF By, What, Sent
<1>5. \A i \in Sent(c)' : i \in Sent(c) \/ i = n
  BY <1>0, <1>1 DEF Sent
<1>6. \A i \in Sent(c) : i < n
  BY <1>0, <1>1 DEF Sent
<1>7. OpenByHolder'
  BY <1>1 DEF TenantInv, OpenByHolder, Steady
<1>8. \A d \in Connections : \A i \in Sent(d) :
        By(d, i) # h /\ runs'[By(d, i)] = runs[By(d, i)]
  BY SentBy DEF Steady, TenantInv, InFlight
<1>9. InFlight'
  <2>1. ASSUME NEW d \in Connections, NEW i \in Sent(d)'
        PROVE  \/ i \in Sent(d)
               \/ d = c /\ i = n
    BY <1>2, <1>5
  <2>2. ASSUME NEW d \in Connections, NEW i \in Sent(d)'
        PROVE  /\ runs'[By(d, i)'].pc = "awaiting"
               /\ By(d, i)' \in Checkouts =>
                    /\ d \in runs'[By(d, i)'].has
                    /\ What(d, i)' \in {"begin", "set", "work", "end"}
                    /\ What(d, i)' = "begin" <=> ~conns'[d].open
                    /\ What(d, i)' = "begin" => runs'[By(d, i)'].round = 1
               /\ By(d, i)' \notin Checkouts =>
                    By(d, i)' \in Resolvers /\ What(d, i)' \in {"set", "images"}
    <3>1. CASE i \in Sent(d)
      BY <1>1, <1>3, <1>8, <3>1 DEF TenantInv, InFlight
    <3>2. CASE d = c /\ i = n
      BY <1>1, <1>4, <3>2
    <3> QED
      BY <2>1, <3>1, <3>2
  <2>3. ASSUME NEW d \in Connections, NEW e \in Connections,
               NEW i \in Sent(d)', NEW j \in Sent(e)', By(d, i)' = By(e, j)'
        PROVE  d = e /\ i = j
    <3>1. CASE i \in Sent(d) /\ j \in Sent(e)
      BY <1>3, <2>3, <3>1 DEF TenantInv, InFlight
    <3>2. CASE i \in Sent(d) /\ e = c /\ j = n
      BY <1>3, <1>4, <1>8, <2>3, <3>2
    <3>3. CASE j \in Sent(e) /\ d = c /\ i = n
      BY <1>3, <1>4, <1>8, <2>3, <3>3
    <3> QED
      BY <2>1, <3>1, <3>2, <3>3
  <2> QED
    BY <2>2, <2>3 DEF InFlight
<1>10. SetBeforeBegin'
  <2>1. SUFFICES ASSUME NEW d \in Connections, NEW i \in Sent(d)',
                        By(d, i)' \in Resolvers, What(d, i)' = "set"
                 PROVE  /\ ~conns'[d].open
                        /\ \A j \in Sent(d)' : By(d, j)' \in Checkouts => i < j
    BY DEF SetBeforeBegin
  <2>2. CASE d # c
    <3>1. i \in Sent(d) /\ Sent(d)' = Sent(d)
      BY <1>2, <2>2
    <3> QED
      BY <1>1, <1>3, <2>1, <3>1 DEF TenantInv, SetBeforeBegin
  <2>3. CASE d = c /\ i \in Sent(c)
    <3>1. ~conns[c].open /\ \A j \in Sent(c) : By(c, j) \in Checkouts => i < j
      BY <1>3, <2>1, <2>3 DEF TenantInv, SetBeforeBegin
    <3> QED
      BY <1>1, <1>3, <1>5, <1>6, <2>3, <3>1
  <2>4. CASE d = c /\ i = n
    <3>1. ~conns[c].open /\ \A j \in Sent(c) : By(c, j) \notin Checkouts
      BY <1>4, <2>1, <2>4
    <3>2. h \notin Checkouts
      BY <1>4, <2>1, <2>4, Kinds
    <3> QED
      BY <1>1, <1>3, <1>4, <1>5, <2>4, <3>1, <3>2
  <2> QED
    BY <1>5, <2>2, <2>3, <2>4
<1>11. \A g \in Checkouts : Within(g, runs[g])'
  <2>1. SUFFICES ASSUME NEW g \in Checkouts PROVE Within(g, runs[g])'
    OBVIOUS
  <2>2. Within(g, runs'[g]) /\ g \in Handlers
    BY DEF Steady, Handlers
  <2>3. runs'[g].has \subseteq Connections
    BY <2>2 DEF TypeOK
  <2>4. \A d \in runs'[g].has : conns'[d].open = conns[d].open /\ conns'[d].tenant = conns[d].tenant
    BY <1>1, <2>3
  <2> QED
    BY <2>2, <2>4 DEF Within
<1> QED
  BY <1>7, <1>9, <1>10, <1>11 DEF TenantInv

(* What running a statement leaves of its connection.                         *)
LEMMA ExecuteEffect ==
  ASSUME TypeOK, NEW c \in Connections, Execute(c)
  PROVE  /\ By(c, 1) \in Handlers /\ 1 \in Sent(c)
         /\ runs' = [runs EXCEPT ![By(c, 1)].pc = Answer(By(c, 1), What(c, 1))]
         /\ \A d \in Connections \ {c} : conns'[d] = conns[d]
         /\ Len(conns[c].sent) \in Nat /\ Len(conns'[c].sent) = Len(conns[c].sent) - 1
         /\ \A i \in 1 .. Len(conns'[c].sent) : conns'[c].sent[i] = conns[c].sent[i + 1]
         /\ What(c, 1) = "begin" => conns'[c].open /\ conns'[c].tenant = conns[c].tenant
         /\ What(c, 1) = "set" =>
              /\ conns'[c].open = conns[c].open
              /\ conns'[c].tenant = IF conns[c].open THEN {By(c, 1)} ELSE conns[c].tenant
         /\ What(c, 1) = "end" => ~conns'[c].open /\ conns'[c].tenant = {}
         /\ What(c, 1) \in {"work", "images"} =>
              conns'[c].open = conns[c].open /\ conns'[c].tenant = conns[c].tenant
<1>0. PICK h, what : h = By(c, 1) /\ what = What(c, 1)
  OBVIOUS
<1> DEFINE q == conns[c].sent
           t == Tail(q)
<1>1. conns[c] \in ConnType /\ q \in Seq(Handlers \X Statements) /\ q # <<>>
  BY DEF TypeOK, ConnType, Execute
<1>2. /\ Head(q) = q[1] /\ Len(q) \in Nat \ {0}
      /\ Head(q) \in Handlers \X Statements
      /\ Len(t) = Len(q) - 1
      /\ \A i \in 1 .. Len(t) : t[i] = q[i + 1]
  BY <1>1, HeadTailProperties, EmptySeq
<1>3. Head(q)[1] = h /\ Head(q)[2] = what /\ h \in Handlers
  BY <1>0, <1>2 DEF By, What
<1>4. /\ conns' = [conns EXCEPT ![c] = After(@, h, what)]
      /\ runs' = [runs EXCEPT ![h].pc = Answer(h, what)]
  BY <1>3 DEF Execute, Goes
<1> DEFINE new == After(conns[c], h, what)
<1>5. /\ what = "begin" => new = [conns[c] EXCEPT !.sent = t, !.open = TRUE]
      /\ what = "set" /\ conns[c].open => new = [conns[c] EXCEPT !.sent = t, !.tenant = {h}]
      /\ what = "set" /\ ~conns[c].open => new = [conns[c] EXCEPT !.sent = t]
      /\ what = "end" => new = [conns[c] EXCEPT !.sent = t, !.open = FALSE, !.tenant = {}]
      /\ what \in {"work", "images"} => new = [conns[c] EXCEPT !.sent = t]
  <2> HIDE DEF t
  <2>1. t = Tail(conns[c].sent)
    BY DEF t
  <2> QED
    BY <1>1, <2>1 DEF After, Lasts, ConnType
<1>6. what \in Statements
  BY <1>2, <1>3
<1>7. conns'[c] = new /\ \A d \in Connections \ {c} : conns'[d] = conns[d]
  BY <1>4 DEF TypeOK
<1> HIDE DEF new, t
<1>8. new.sent = t
  BY <1>1, <1>5, <1>6 DEF ConnType, Statements
<1>9. /\ what = "begin" => new.open /\ new.tenant = conns[c].tenant
      /\ what = "set" =>
           /\ new.open = conns[c].open
           /\ new.tenant = IF conns[c].open THEN {h} ELSE conns[c].tenant
      /\ what = "end" => ~new.open /\ new.tenant = {}
      /\ what \in {"work", "images"} =>
           new.open = conns[c].open /\ new.tenant = conns[c].tenant
  BY <1>1, <1>5 DEF ConnType
<1>10. 1 \in Sent(c)
  BY <1>2 DEF Sent
<1> QED
  BY <1>0, <1>2, <1>3, <1>4, <1>7, <1>8, <1>9, <1>10 DEF t

(* Whose statement it was awaited it, and has sent no other.                  *)
LEMMA Awaited ==
  ASSUME TypeOK, TenantInv, NEW c \in Connections, 1 \in Sent(c), NEW h, NEW what,
         h = By(c, 1), what = What(c, 1)
  PROVE  /\ runs[h].pc = "awaiting"
         /\ h \in Checkouts =>
              /\ c \in runs[h].has /\ what \in {"begin", "set", "work", "end"}
              /\ what = "begin" <=> ~conns[c].open
              /\ what = "begin" => runs[h].round = 1
         /\ h \notin Checkouts => h \in Resolvers /\ what \in {"set", "images"}
         /\ h \notin Checkouts /\ what = "set" => ~conns[c].open
         /\ \A d \in Connections : \A i \in Sent(d) : By(d, i) = h => d = c /\ i = 1
  BY DEF TenantInv, InFlight, SetBeforeBegin

LEMMA PoolExecute ==
  ASSUME TypeOK, PoolInv, TenantInv, NEW c \in Connections, Execute(c)
  PROVE  PoolInv'
<1>1. PICK h, what : h = By(c, 1) /\ what = What(c, 1)
  OBVIOUS
<1>2. h \in Handlers /\ 1 \in Sent(c) /\ runs' = [runs EXCEPT ![h].pc = Answer(h, what)]
  BY <1>1, ExecuteEffect
<1>3. /\ runs[h].pc = "awaiting"
      /\ h \in Checkouts => what \in {"begin", "set", "work", "end"}
      /\ h \notin Checkouts => h \in Resolvers /\ what \in {"set", "images"}
  BY <1>1, <1>2, Awaited
<1> DEFINE run == [runs[h] EXCEPT !.pc = Answer(h, what)]
<1>4. runs' = [runs EXCEPT ![h] = run]
  BY <1>2
<1>5. run.pc = Answer(h, what) /\ run.has = runs[h].has /\ run.extra = runs[h].extra
  BY <1>2 DEF TypeOK
<1>6. /\ h \in Checkouts => Answer(h, what) \in {"asking", "ending", "releasing"}
      /\ h \notin Checkouts => Answer(h, what) \in {"late", "answered"}
  BY <1>3 DEF Answer
<1>7. Place(h, runs[h])
  BY <1>2 DEF PoolInv
<1> HIDE DEF run
<1>8. h \in Handlers /\ (h \in Checkouts => h \notin Lookups /\ h \notin Resolvers)
      /\ (h \in Resolvers => h \notin Lookups /\ h \notin Checkouts)
  BY <1>2, Kinds
<1>9. Place(h, run)
  BY <1>3, <1>5, <1>6, <1>7, <1>8 DEF Place, Ends
<1>10. Has(h, run) \subseteq Has(h, runs[h])
  BY <1>3, <1>5, <1>6, <1>8 DEF Has
<1>11. h \notin In(waiting) /\ Distinct(waiting) /\ waiting' = waiting /\ free' = free
  BY <1>3 DEF PoolInv, Execute
<1> QED
  BY <1>2, <1>4, <1>9, <1>10, <1>11, PoolKept

LEMMA TenantExecute ==
  ASSUME TypeOK, PoolInv, TenantInv, NEW c \in Connections, Execute(c)
  PROVE  TenantInv'
<1>0. PICK h, what : h = By(c, 1) /\ what = What(c, 1)
  OBVIOUS
<1>1. /\ h \in Handlers /\ 1 \in Sent(c)
      /\ runs' = [runs EXCEPT ![h].pc = Answer(h, what)]
      /\ \A d \in Connections \ {c} : conns'[d] = conns[d]
      /\ Len(conns[c].sent) \in Nat /\ Len(conns'[c].sent) = Len(conns[c].sent) - 1
      /\ \A i \in 1 .. Len(conns'[c].sent) : conns'[c].sent[i] = conns[c].sent[i + 1]
  BY <1>0, ExecuteEffect
<1>2. /\ what = "begin" => conns'[c].open /\ conns'[c].tenant = conns[c].tenant
      /\ what = "set" =>
           /\ conns'[c].open = conns[c].open
           /\ conns'[c].tenant = IF conns[c].open THEN {h} ELSE conns[c].tenant
      /\ what = "end" => ~conns'[c].open /\ conns'[c].tenant = {}
      /\ what \in {"work", "images"} =>
           conns'[c].open = conns[c].open /\ conns'[c].tenant = conns[c].tenant
  BY <1>0, ExecuteEffect
<1>3. /\ runs[h].pc = "awaiting"
      /\ h \in Checkouts =>
           /\ c \in runs[h].has /\ what \in {"begin", "set", "work", "end"}
           /\ what = "begin" <=> ~conns[c].open
           /\ what = "begin" => runs[h].round = 1
      /\ h \notin Checkouts => h \in Resolvers /\ what \in {"set", "images"}
      /\ h \notin Checkouts /\ what = "set" => ~conns[c].open
      /\ \A d \in Connections : \A i \in Sent(d) : By(d, i) = h => d = c /\ i = 1
  BY <1>0, <1>1, Awaited
<1>4. /\ runs'[h].pc = Answer(h, what) /\ runs'[h].has = runs[h].has
      /\ runs'[h].round = runs[h].round
      /\ \A g \in Handlers \ {h} : runs'[g] = runs[g]
  BY <1>1 DEF TypeOK
<1>5. h \notin Checkouts =>
        conns'[c].open = conns[c].open /\ conns'[c].tenant = conns[c].tenant
  BY <1>2, <1>3
<1>6. h \in Checkouts => \A g \in Checkouts : c \in runs[g].has => g = h
  <2>1. \A g \in Checkouts : g \in Handlers /\ runs[g].has \subseteq Has(g, runs[g])
    BY Kinds DEF Handlers, Has
  <2> QED
    BY <1>1, <1>3, <2>1 DEF PoolInv
(* Every statement still to be run was there before, of another handler.      *)
<1>7. ASSUME NEW d \in Connections, NEW i \in Sent(d)'
      PROVE  \E j \in Sent(d) :
               /\ By(d, i)' = By(d, j) /\ What(d, i)' = What(d, j)
               /\ By(d, j) # h /\ By(d, j) \in Handlers
               /\ d # c => j = i
               /\ d = c => j = i + 1
  <2>1. CASE d # c
    <3>1. i \in Sent(d) /\ By(d, i)' = By(d, i) /\ What(d, i)' = What(d, i)
      BY <1>1, <2>1 DEF Sent, By, What
    <3> QED
      BY <1>3, <2>1, <3>1, SentBy
  <2>2. CASE d = c
    <3>0. i \in 1 .. Len(conns'[c].sent)
      BY <2>2 DEF Sent
    <3>1. i + 1 \in Sent(c) /\ By(c, i)' = By(c, i + 1) /\ What(c, i)' = What(c, i + 1)
      <4>1. i + 1 \in Sent(c)
        BY <1>1, <3>0 DEF Sent
      <4>2. conns'[c].sent[i] = conns[c].sent[i + 1]
        BY <1>1, <3>0
      <4> QED
        BY <4>1, <4>2 DEF By, What
    <3>2. i + 1 # 1
      BY <1>1, <2>2 DEF Sent
    <3> QED
      BY <1>3, <2>2, <3>1, <3>2, SentBy
  <2> QED
    BY <2>1, <2>2
<1>8. h \in Checkouts => \A j \in Sent(c) : By(c, j) # h => By(c, j) \notin Checkouts
  BY <1>6 DEF TenantInv, InFlight
<1>9. OpenByHolder'
  <2>1. \A g \in Checkouts : runs'[g].has = runs[g].has
    BY <1>4 DEF Handlers
  <2>2. conns'[c].open => \E g \in Checkouts : c \in runs[g].has
    BY <1>2, <1>3, <1>5 DEF TenantInv, OpenByHolder
  <2>3. ~conns'[c].open => conns'[c].tenant = {}
    BY <1>2, <1>3, <1>5 DEF TenantInv, OpenByHolder
  <2> QED
    BY <1>1, <2>1, <2>2, <2>3 DEF TenantInv, OpenByHolder
<1>10. InFlight'
  <2>1. ASSUME NEW d \in Connections, NEW i \in Sent(d)'
        PROVE  /\ runs'[By(d, i)'].pc = "awaiting"
               /\ By(d, i)' \in Checkouts =>
                    /\ d \in runs'[By(d, i)'].has
                    /\ What(d, i)' \in {"begin", "set", "work", "end"}
                    /\ What(d, i)' = "begin" <=> ~conns'[d].open
                    /\ What(d, i)' = "begin" => runs'[By(d, i)'].round = 1
               /\ By(d, i)' \notin Checkouts =>
                    By(d, i)' \in Resolvers /\ What(d, i)' \in {"set", "images"}
    <3>1. PICK j \in Sent(d) :
            /\ By(d, i)' = By(d, j) /\ What(d, i)' = What(d, j)
            /\ By(d, j) # h /\ By(d, j) \in Handlers
      BY <1>7
    <3>2. runs'[By(d, j)] = runs[By(d, j)]
      BY <1>4, <3>1
    <3>3. By(d, j) \in Checkouts => conns'[d].open = conns[d].open
      BY <1>1, <1>5, <1>8, <3>1
    <3> QED
      BY <3>1, <3>2, <3>3 DEF TenantInv, InFlight
  <2>2. ASSUME NEW d \in Connections, NEW e \in Connections,
               NEW i \in Sent(d)', NEW j \in Sent(e)', By(d, i)' = By(e, j)'
        PROVE  d = e /\ i = j
    <3>1. PICK k \in Sent(d) :
            By(d, i)' = By(d, k) /\ (d # c => k = i) /\ (d = c => k = i + 1)
      BY <1>7
    <3>2. PICK l \in Sent(e) :
            By(e, j)' = By(e, l) /\ (e # c => l = j) /\ (e = c => l = j + 1)
      BY <1>7
    <3>3. d = e /\ k = l
      <4>1. By(d, k) = By(e, l)
        BY <2>2, <3>1, <3>2
      <4> QED
        BY <4>1 DEF TenantInv, InFlight
    <3>4. i \in Int /\ j \in Int
      BY DEF Sent
    <3> QED
      BY <3>1, <3>2, <3>3, <3>4
  <2> QED
    BY <2>1, <2>2 DEF InFlight
<1>11. SetBeforeBegin'
  <2>1. SUFFICES ASSUME NEW d \in Connections, NEW i \in Sent(d)',
                        By(d, i)' \in Resolvers, What(d, i)' = "set"
                 PROVE  /\ ~conns'[d].open
                        /\ \A j \in Sent(d)' : By(d, j)' \in Checkouts => i < j
    BY DEF SetBeforeBegin
  <2>2. PICK k \in Sent(d) :
          /\ By(d, i)' = By(d, k) /\ What(d, i)' = What(d, k)
          /\ (d # c => k = i) /\ (d = c => k = i + 1)
    BY <1>7
  <2>3. ~conns[d].open /\ \A j \in Sent(d) : By(d, j) \in Checkouts => k < j
    BY <2>1, <2>2 DEF TenantInv, SetBeforeBegin
  <2>4. i \in Int /\ 1 <= i
    BY DEF Sent
  <2>5. d = c => h \notin Checkouts
    BY <1>0, <1>1, <2>2, <2>3, <2>4
  <2>6. ~conns'[d].open
    BY <1>1, <1>5, <2>3, <2>5
  <2>7. ASSUME NEW j \in Sent(d)', By(d, j)' \in Checkouts PROVE i < j
    <3>1. PICK l \in Sent(d) :
            By(d, j)' = By(d, l) /\ (d # c => l = j) /\ (d = c => l = j + 1)
      BY <1>7
    <3>2. k < l /\ j \in Int
      BY <2>3, <2>7, <3>1 DEF Sent
    <3> QED
      BY <2>2, <2>4, <3>1, <3>2
  <2> QED
    BY <2>6, <2>7
<1>12. ASSUME NEW g \in Checkouts PROVE Within(g, runs[g])'
  <2>0. g \in Handlers /\ Within(g, runs[g]) /\ runs[g].has \subseteq Connections
    BY DEF Handlers, TenantInv, TypeOK
  <2>1. CASE g # h
    <3>1. runs'[g] = runs[g]
      BY <1>4, <2>0, <2>1
    <3>2. \A d \in runs[g].has :
            conns'[d].open = conns[d].open /\ conns'[d].tenant = conns[d].tenant
      BY <1>1, <1>5, <1>6, <2>0, <2>1
    <3> QED
      BY <2>0, <3>1, <3>2 DEF Within
  <2>2. CASE g = h
    <3>1. \A d \in runs[h].has : d = c
      BY <1>1, <1>3, <2>2 DEF PoolInv, Place
    <3>2. conns[c].tenant \subseteq {h}
      BY <1>3, <2>0, <2>2 DEF Within
    <3>3. CASE what = "begin"
      BY <1>2, <1>3, <1>4, <2>2, <3>1, <3>2, <3>3 DEF Within, Answer, AtHub
    <3>4. CASE what = "set"
      BY <1>2, <1>3, <1>4, <2>2, <3>1, <3>2, <3>4 DEF Within, Answer, AtHub
    <3>5. CASE what = "work"
      BY <1>2, <1>3, <1>4, <2>2, <3>1, <3>2, <3>5 DEF Within, Answer, AtHub
    <3>6. CASE what = "end"
      BY <1>2, <1>3, <1>4, <2>2, <3>1, <3>2, <3>6 DEF Within, Answer, AtHub
    <3> QED
      BY <1>3, <2>2, <3>3, <3>4, <3>5, <3>6
  <2> QED
    BY <2>1, <2>2
<1> QED
  BY <1>9, <1>10, <1>11, <1>12 DEF TenantInv

(* A step of a handler that touches neither the pool nor a connection.        *)
LEMMA HandlerMoves ==
  ASSUME TypeOK, PoolInv, TenantInv, NEW h \in Handlers, NEW run,
         runs' = [runs EXCEPT ![h] = run], UNCHANGED <<conns, free>>,
         In(waiting') \subseteq In(waiting), Distinct(waiting'), h \notin In(waiting'),
         runs[h].pc # "awaiting", run.has = runs[h].has, run.extra = runs[h].extra,
         Place(h, run), run.pc # "begun", h \in Checkouts => Within(h, run)
  PROVE  PoolInv' /\ TenantInv'
<1>1. Has(h, run) \subseteq Has(h, runs[h])
  BY DEF Has
<1>2. PoolInv'
  BY <1>1, PoolKept
<1>3. runs'[h] = run /\ \A g \in Handlers \ {h} : runs'[g] = runs[g]
  BY DEF TypeOK
<1>4. Steady
  BY <1>3 DEF Steady, TenantInv, Handlers
<1> QED
  BY <1>2, <1>4, TenantKept

LEMMA HubMoves ==
  ASSUME TypeOK, PoolInv, TenantInv, NEW h \in Handlers, NEW run,
         runs' = [runs EXCEPT ![h] = run], UNCHANGED <<conns, free, waiting>>,
         runs[h].pc \in {"asking", "locking", "polling", "storing"},
         run.has = runs[h].has, run.extra = runs[h].extra,
         \/ run.pc \in {"locking", "polling", "wanting"} /\ run.round = runs[h].round
         \/ run = AfterHub(h, runs[h])
  PROVE  PoolInv' /\ TenantInv'
<1>1. Place(h, runs[h]) /\ h \notin In(waiting) /\ Distinct(waiting)
  BY DEF PoolInv
<1>2. h \notin Resolvers /\ runs[h].extra = {}
  BY <1>1 DEF Place, Ends
<1>3. /\ h \in Checkouts => h \notin Lookups
      /\ h \notin Checkouts => h \in Lookups
  BY <1>2, Kinds
<1>4. runs[h] \in RunType
  BY DEF TypeOK, RunType
<1>5. run = AfterHub(h, runs[h]) =>
        /\ h \in Lookups => run.pc = "answered"
        /\ h \in Checkouts /\ runs[h].round = 1 => run.pc = "setting"
        /\ h \in Checkouts /\ runs[h].round # 1 => run.pc = "working"
        /\ run.round = 2
  BY <1>3, <1>4 DEF AfterHub, RunType
<1>6. Place(h, run)
  BY <1>1, <1>2, <1>3, <1>5 DEF Place, AtHub, Ends
<1>7. ASSUME h \in Checkouts PROVE Within(h, run)
  <2>1. Within(h, runs[h]) /\ runs[h].round \in {1, 2}
    BY <1>4, <1>7 DEF TenantInv, RunType
  <2> QED
    BY <1>5, <1>7, <2>1 DEF Within, AtHub
<1>8. run.pc # "begun"
  BY <1>3, <1>5
<1> QED
  BY <1>1, <1>6, <1>7, <1>8, HandlerMoves

(* What a handler that fails becomes: a place in the queue or a connection less. *)
Failed(h) == [Failing(h, runs[h]) EXCEPT !.extra = {}]

LEMMA FailingRun ==
  ASSUME TypeOK, PoolInv, TenantInv, NEW h \in Handlers,
         runs[h].pc \in {"arrived", "wanting", "querying"}
  PROVE  /\ Failed(h) \in RunType /\ Failed(h).has = runs[h].has /\ Failed(h).extra = {}
         /\ Failed(h).pc \in {"ending", "failed"} /\ Place(h, Failed(h))
         /\ h \in Checkouts => Within(h, Failed(h))
<1> DEFINE run == Failed(h)
<1>1. runs[h] \in RunType /\ Failing(h, runs[h]) \in RunType
  BY RunTypes DEF TypeOK, RunType
<1>2. /\ run \in RunType /\ run.has = runs[h].has /\ run.extra = {}
      /\ run.pc = IF runs[h].has # {} THEN "ending" ELSE "failed"
  BY <1>1 DEF Failed, Failing, RunType
<1> HIDE DEF run
<1>3. Place(h, runs[h])
  BY DEF PoolInv
<1>4. Place(h, run)
  BY <1>2, <1>3 DEF Place, AtHub, Ends
<1>5. ASSUME h \in Checkouts PROVE Within(h, run)
  <2>1. Within(h, runs[h])
    BY <1>5 DEF TenantInv
  <2>2. runs[h].has # {} => runs[h].pc \in AtHub
    BY <1>3, <1>5 DEF Place, AtHub
  <2> QED
    BY <1>2, <2>1, <2>2 DEF Within, AtHub
<1> QED
  BY <1>2, <1>4, <1>5 DEF run

PairInv == PoolInv /\ TenantInv

LEMMA PairConnect ==
  ASSUME TypeOK, PairInv, NEW h \in Handlers, Connect(h)
  PROVE  PairInv'
<1>0. /\ runs[h].pc \in {"arrived", "wanting"} /\ runs[h] \in RunType
      /\ h \notin In(waiting) /\ UNCHANGED conns
      /\ runs \in [Handlers -> RunType] /\ free \in Seq(Connections)
      /\ waiting \in Seq(Handlers)
  BY DEF Connect, TypeOK, RunType, Contains, In
<1>1. CASE free = <<>>
  <2>1. runs' = runs /\ free' = free /\ waiting' = Append(waiting, h)
    BY <1>1 DEF Connect
  <2>2. In(waiting') = In(waiting) \cup {h} /\ Distinct(waiting')
    BY <1>0, <2>1, Appended DEF PairInv, PoolInv
  <2>3. PoolInv'
    BY <1>0, <2>1, <2>2 DEF PairInv, PoolInv
  <2>4. Steady
    BY <2>1 DEF Steady, PairInv, TenantInv
  <2> QED
    BY <1>0, <2>3, <2>4, TenantKept DEF PairInv
<1>2. CASE free # <<>>
  <2> DEFINE c == Last(free)
             w == WithConnection(runs[h], c)
  <2>1. /\ c \in Connections /\ In(free) = In(Front(free)) \cup {c}
        /\ c \notin In(Front(free)) /\ Distinct(Front(free))
    BY <1>0, <1>2, LastGone DEF PairInv, PoolInv
  <2>2. runs' = [runs EXCEPT ![h] = w] /\ free' = Front(free) /\ waiting' = waiting
    BY <1>2 DEF Connect
  <2> HIDE DEF c
  <2>3. Place(h, runs[h]) /\ c \notin Has(h, runs[h])
    BY <2>1 DEF PairInv, PoolInv
  <2>4. /\ Place(h, w) /\ Has(h, w) \subseteq Has(h, runs[h]) \cup {c}
        /\ w.pc \in {"querying", "begun"}
    BY <1>0, <2>1, <2>3, Given
  <2>5. \A g \in Checkouts : c \notin runs[g].has
    BY <2>1, NoneHas DEF PairInv
  <2>6. ~conns[c].open /\ conns[c].tenant = {}
    BY <2>1, <2>5, Closed DEF PairInv
  <2>7. h \in Checkouts => Within(h, w)
    BY <1>0, <2>1, <2>3, <2>6, WithinGiven DEF PairInv, TenantInv
  <2>8. h \in Checkouts => runs[h].has \subseteq w.has
    BY <1>0, <2>3 DEF WithConnection, RunType, Place
  <2> HIDE DEF w
  <2>9. runs'[h] = w /\ \A g \in Handlers \ {h} : runs'[g] = runs[g]
    BY <1>0, <2>2
  <2>10. Steady
    BY <1>0, <2>7, <2>8, <2>9 DEF Steady, PairInv, TenantInv, Handlers
  <2>11. \A g \in Handlers : Place(g, runs'[g])
    BY <2>4, <2>9 DEF PairInv, PoolInv
  <2>12. /\ \A g \in Handlers \ {h} : Has(g, runs'[g]) = Has(g, runs[g]) /\ c \notin Has(g, runs[g])
         /\ Has(h, runs'[h]) \subseteq Has(h, runs[h]) \cup {c}
    BY <2>1, <2>4, <2>9 DEF PairInv, PoolInv
  <2>13. \A f, g \in Handlers : f # g => Has(f, runs'[f]) \cap Has(g, runs'[g]) = {}
    BY <2>12 DEF PairInv, PoolInv
  <2>14. ASSUME NEW g \in Handlers PROVE Has(g, runs'[g]) \cap In(free') = {}
    <3>1. In(free') = In(free) \ {c}
      BY <2>1, <2>2
    <3>2. Has(g, runs'[g]) \subseteq Has(g, runs[g]) \cup {c}
      BY <2>12
    <3>3. Has(g, runs[g]) \cap In(free) = {}
      BY DEF PairInv, PoolInv
    <3> QED
      BY <3>1, <3>2, <3>3
  <2>15. \A g \in In(waiting') : runs'[g].pc \in {"arrived", "wanting"}
    <3>1. In(waiting') = In(waiting) /\ \A g \in In(waiting) : g \in Handlers /\ g # h
      BY <1>0, <2>2 DEF In
    <3> QED
      BY <2>9, <3>1 DEF PairInv, PoolInv
  <2>16. PoolInv'
    BY <2>1, <2>2, <2>11, <2>13, <2>14, <2>15 DEF PairInv, PoolInv
  <2> QED
    BY <1>0, <2>10, <2>16, TenantKept DEF PairInv
<1> QED
  BY <1>1, <1>2

LEMMA PairTimesOut ==
  ASSUME TypeOK, PairInv, NEW h \in Handlers, ConnectTimesOut(h)
  PROVE  PairInv'
<1>1. PICK i \in 1 .. Len(waiting) : waiting[i] = h /\ waiting' = RemoveAt(waiting, i)
  BY DEF ConnectTimesOut
<1>2. waiting \in Seq(Handlers) /\ runs \in [Handlers -> RunType]
  BY DEF TypeOK, RunType
<1>3. In(waiting') \subseteq In(waiting) /\ h \notin In(waiting') /\ Distinct(waiting')
  BY <1>1, <1>2, OneGone DEF PairInv, PoolInv
<1>4. runs[h].pc \in {"arrived", "wanting"} /\ Place(h, runs[h])
  BY <1>1 DEF PairInv, PoolInv, In
<1> DEFINE run == Failed(h)
<1>5. runs[h].extra = {} /\ Failing(h, runs[h]).extra = runs[h].extra
  BY <1>2, <1>4 DEF Place, Failing, RunType
<1>6. run = Failing(h, runs[h])
  <2>1. Failing(h, runs[h]) \in RunType
    BY <1>2, RunTypes
  <2> QED
    BY <1>5, <2>1 DEF RunType, Failed
<1>7. runs' = [runs EXCEPT ![h] = run]
  BY <1>6 DEF ConnectTimesOut
<1>8. /\ run.has = runs[h].has /\ run.extra = {} /\ run.pc \in {"ending", "failed"}
      /\ Place(h, run) /\ (h \in Checkouts => Within(h, run))
  BY <1>4, FailingRun DEF PairInv
<1> HIDE DEF run
<1>9. UNCHANGED <<conns, free>>
  BY DEF ConnectTimesOut
<1> QED
  BY <1>3, <1>4, <1>5, <1>7, <1>8, <1>9, HandlerMoves DEF PairInv

(* The connection of a query is nobody's transaction.                         *)
LEMMA ExtraClosed ==
  ASSUME TypeOK, PairInv, NEW h \in Handlers, NEW c \in runs[h].extra
  PROVE  /\ c \in Connections /\ c \in Has(h, runs[h]) /\ c \notin runs[h].has
         /\ ~conns[c].open /\ conns[c].tenant = {}
<1>1. c \in Connections /\ c \in Has(h, runs[h]) /\ c \notin runs[h].has
  BY DEF TypeOK, Has, PairInv, PoolInv, Place
<1>2. \A g \in Checkouts : c \notin runs[g].has
  BY <1>1, NoneHas DEF PairInv
<1> QED
  BY <1>1, <1>2, Closed DEF PairInv

LEMMA PairQuery ==
  ASSUME TypeOK, PairInv, NEW h \in Handlers, Query(h) \/ QueryFails(h)
  PROVE  PairInv'
<1>0. runs[h] \in RunType /\ runs[h].pc = "querying" /\ UNCHANGED conns
  BY DEF TypeOK, RunType, Query, QueryFails
<1>1. /\ Place(h, runs[h]) /\ (h \in Checkouts => Within(h, runs[h]))
  BY DEF PairInv, PoolInv, TenantInv
<1>2. PICK c \in runs[h].extra, run \in RunType :
        /\ Release(h, run, c)
        /\ run.has = runs[h].has /\ run.extra = {}
        /\ run.pc \in {"storing", "ending", "failed"}
        /\ Place(h, run) /\ (h \in Checkouts => Within(h, run))
  <2>1. CASE Query(h)
    <3> DEFINE new == [runs[h] EXCEPT !.pc = "storing", !.extra = {}, !.seen = row,
                                      !.at = deletions]
    <3>1. PICK c \in runs[h].extra : Release(h, new, c)
      BY <2>1 DEF Query
    <3>2. /\ new \in RunType /\ new.pc = "storing" /\ new.extra = {}
          /\ new.has = runs[h].has /\ new.round = runs[h].round
      BY <1>0 DEF RunType, TypeOK, Pcs
    <3> HIDE DEF new
    <3>3. Place(h, new)
      BY <1>0, <1>1, <3>2 DEF Place, AtHub, Ends
    <3>4. h \in Checkouts => Within(h, new)
      BY <1>0, <1>1, <3>2 DEF Within, AtHub
    <3> QED
      BY <3>1, <3>2, <3>3, <3>4
  <2>2. CASE QueryFails(h)
    <3> DEFINE new == Failed(h)
    <3>1. PICK c \in runs[h].extra : Release(h, new, c)
      BY <2>2 DEF QueryFails, ReleasedOnFailure, Failed
    <3>2. /\ new \in RunType /\ new.has = runs[h].has /\ new.extra = {}
          /\ new.pc \in {"ending", "failed"} /\ Place(h, new)
          /\ h \in Checkouts => Within(h, new)
      BY <1>0, FailingRun DEF PairInv
    <3> HIDE DEF new
    <3> QED
      BY <3>1, <3>2
  <2> QED
    BY <2>1, <2>2
<1>3. /\ c \in Connections /\ c \in Has(h, runs[h]) /\ c \notin runs[h].has
      /\ ~conns[c].open /\ conns[c].tenant = {}
  BY <1>2, ExtraClosed
<1>4. Has(h, run) \subseteq Has(h, runs[h]) \ {c}
  BY <1>0, <1>2, <1>3 DEF Has
<1>5. PoolInv'
  BY <1>0, <1>2, <1>3, <1>4, ReleasePool DEF PairInv
<1>6. Steady
  BY <1>0, <1>2, <1>3, ReleaseSteady DEF PairInv
<1> QED
  BY <1>0, <1>5, <1>6, TenantKept DEF PairInv

LEMMA PairFinish ==
  ASSUME TypeOK, PairInv, NEW h \in Handlers, Finish(h)
  PROVE  PairInv'
<1>0. runs[h] \in RunType /\ runs[h].pc = "releasing" /\ UNCHANGED conns
  BY DEF TypeOK, RunType, Finish
<1> DEFINE pc == IF runs[h].good THEN "answered" ELSE "failed"
           run == [runs[h] EXCEPT !.pc = pc, !.has = {}]
<1>1. PICK c \in runs[h].has : Release(h, run, c)
  BY DEF Finish
<1>2. pc \in Ends
  BY DEF Ends
<1> HIDE DEF pc
<1>3. run \in RunType /\ run.pc = pc /\ run.has = {} /\ run.extra = runs[h].extra
  BY <1>0, <1>2 DEF RunType, Pcs
<1> HIDE DEF run
<1>4. Place(h, runs[h])
  BY DEF PairInv, PoolInv
<1>5. h \in Checkouts /\ h \notin Resolvers /\ h \notin Lookups
  BY <1>0, <1>4, Kinds DEF Place, AtHub, Ends
<1>6. c \in Connections /\ c \in Has(h, runs[h]) /\ runs[h].has = {c} /\ runs[h].extra = {}
  BY <1>0, <1>1, <1>4, <1>5 DEF Has, Place, RunType
<1>7. ~conns[c].open /\ conns[c].tenant = {}
  BY <1>0, <1>5, <1>6 DEF PairInv, TenantInv, Within, OpenByHolder
<1>8. Place(h, run) /\ Has(h, run) = {} /\ Within(h, run)
  BY <1>2, <1>3, <1>5, <1>6 DEF Place, Has, Within, Ends
<1>9. PoolInv'
  BY <1>0, <1>1, <1>2, <1>3, <1>6, <1>8, ReleasePool DEF PairInv, Ends
<1>10. Steady
  BY <1>0, <1>1, <1>3, <1>6, <1>7, <1>8, ReleaseSteady DEF PairInv
<1> QED
  BY <1>0, <1>9, <1>10, TenantKept DEF PairInv

LEMMA PairResolve ==
  ASSUME TypeOK, TypeOK', PairInv, NEW h \in Handlers, Resolve(h)
  PROVE  PairInv'
<1>0. runs[h] \in RunType /\ runs[h].pc = "begun" /\ h \in Resolvers
  BY DEF TypeOK, RunType, Resolve
<1> DEFINE run == [runs[h] EXCEPT !.pc = "awaiting"]
<1>1. PICK c \in runs[h].has : Release(h, run, c) /\ Send(c, h, "set")
  BY DEF Resolve
<1>2. run \in RunType /\ run.pc = "awaiting" /\ run.has = runs[h].has /\ run.extra = runs[h].extra
  BY <1>0 DEF RunType, Pcs
<1> HIDE DEF run
<1>3. Place(h, runs[h]) /\ h \notin Checkouts /\ h \notin Lookups
  BY <1>0, Kinds DEF PairInv, PoolInv
<1>4. c \in Connections /\ c \in Has(h, runs[h]) /\ runs[h].extra = {}
  BY <1>0, <1>1, <1>3 DEF Has, Place, RunType
<1>5. \A g \in Checkouts : c \notin runs[g].has
  BY <1>3, <1>4, NoneHas DEF PairInv
<1>6. /\ ~conns[c].open /\ conns[c].tenant = {}
      /\ \A i \in Sent(c) : By(c, i) \notin Checkouts
  BY <1>4, <1>5, Closed DEF PairInv
<1>7. Place(h, run) /\ Has(h, run) = {}
  BY <1>0, <1>2, <1>3, <1>4 DEF Place, Has
<1>8. PoolInv'
  BY <1>0, <1>1, <1>2, <1>4, <1>7, ReleasePool DEF PairInv
<1>9. Steady
  BY <1>0, <1>1, <1>2, <1>3, <1>4, <1>6, ReleaseSteady DEF PairInv
<1>10. runs'[h].pc = "awaiting"
  <2>1. runs'[h] = run \/ runs'[h] = WithConnection(run, c)
    BY <1>1, <1>2, <1>4, ReleaseRuns
  <2>2. waiting # <<>> => Head(waiting) # h /\ Head(waiting) \in Handlers
    <3>1. waiting \in Seq(Handlers)
      BY DEF TypeOK
    <3>2. waiting # <<>> => Head(waiting) \in In(waiting) /\ Head(waiting) \in Handlers
      BY <3>1, HeadGone
    <3> QED
      BY <1>0, <3>2 DEF PairInv, PoolInv
  <2>3. runs'[h] = run
    BY <1>1, <2>2 DEF Release, TypeOK
  <2> QED
    BY <1>2, <2>3
<1>11. "set" \in Statements
  BY DEF Statements
<1>12. TenantInv'
  BY <1>0, <1>1, <1>3, <1>4, <1>6, <1>9, <1>10, <1>11, TenantSend DEF PairInv
<1> QED
  BY <1>8, <1>12 DEF PairInv

LEMMA PairSend ==
  ASSUME TypeOK, TypeOK', PairInv, NEW h \in Handlers, SendNext(h) \/ SendLate(h)
  PROVE  PairInv'
<1>0. runs[h] \in RunType /\ Place(h, runs[h]) /\ runs' = [runs EXCEPT ![h].pc = "awaiting"]
  BY DEF TypeOK, RunType, SendNext, SendLate, Goes, PairInv, PoolInv
<1> DEFINE run == [runs[h] EXCEPT !.pc = "awaiting"]
<1>1. /\ run.pc = "awaiting" /\ run.has = runs[h].has /\ run.extra = runs[h].extra
      /\ run.round = runs[h].round
  BY <1>0 DEF RunType
<1>2. runs' = [runs EXCEPT ![h] = run]
  BY <1>0
<1> HIDE DEF run
<1>3. runs'[h] = run /\ \A g \in Handlers \ {h} : runs'[g] = runs[g]
  BY <1>2 DEF TypeOK
<1>4. PICK c \in runs[h].has, what \in Statements :
        /\ Send(c, h, what)
        /\ h \in Checkouts =>
             /\ runs[h].pc \in {"begun", "setting", "working", "ending"}
             /\ what \in {"begin", "set", "work", "end"}
             /\ what = "begin" <=> runs[h].pc = "begun"
        /\ h \notin Checkouts => h \in Resolvers /\ what = "images"
        /\ runs[h].pc \in {"begun", "setting", "working", "ending", "late"}
        /\ h \in Resolvers => runs[h].pc = "late"
  <2>1. CASE SendNext(h)
    <3>1. PICK c \in runs[h].has : Send(c, h, Statement[runs[h].pc])
      BY <2>1 DEF SendNext
    <3>2. h \in Checkouts /\ runs[h].pc \in {"begun", "setting", "working", "ending"}
      BY <2>1 DEF SendNext, Statement
    <3>3. /\ Statement[runs[h].pc] \in {"begin", "set", "work", "end"}
          /\ Statement[runs[h].pc] = "begin" <=> runs[h].pc = "begun"
      BY <3>2 DEF Statement
    <3> QED
      BY <3>1, <3>2, <3>3, Kinds DEF Statements
  <2>2. CASE SendLate(h)
    <3>1. runs[h].pc = "late" /\ \E c \in runs[h].has : Send(c, h, "images")
      BY <2>2 DEF SendLate
    <3>2. h \notin Lookups
      BY <1>0, <3>1 DEF Place, AtHub, Ends
    <3>3. h \in Checkouts => ~(runs[h].pc = "late")
      BY <1>0, <3>1 DEF Place
    <3> QED
      BY <3>1, <3>2, <3>3, Kinds DEF Statements
  <2> QED
    BY <2>1, <2>2
<1>5. c \in Connections
  BY <1>0, <1>4 DEF RunType
<1>6. Place(h, run)
  BY <1>0, <1>1, <1>4, Kinds DEF Place, AtHub, Ends
<1>7. Has(h, run) \subseteq Has(h, runs[h])
  BY <1>1 DEF Has
<1>8. UNCHANGED <<free, waiting>> /\ h \notin In(waiting) /\ Distinct(waiting)
  BY <1>4 DEF SendNext, SendLate, PairInv, PoolInv
<1>9. PoolInv'
  BY <1>2, <1>6, <1>7, <1>8, PoolKept DEF PairInv
<1>10. h \in Checkouts => Within(h, runs[h])
  BY DEF PairInv, TenantInv
<1>11. h \in Checkouts => Within(h, run)
  BY <1>1, <1>10 DEF Within, AtHub
<1>12. Steady
  BY <1>1, <1>3, <1>4, <1>11 DEF Steady, PairInv, TenantInv, Handlers
<1>13. h \in Checkouts =>
         /\ what = "begin" <=> ~conns[c].open
         /\ what = "begin" => runs'[h].round = 1
  BY <1>1, <1>3, <1>4, <1>10 DEF Within
<1>14. TenantInv'
  BY <1>1, <1>3, <1>4, <1>5, <1>12, <1>13, TenantSend, Kinds DEF PairInv
<1> QED
  BY <1>9, <1>14 DEF PairInv

LEMMA PairStep == TypeOK /\ TypeOK' /\ PairInv /\ [Next]_vars => PairInv'
<1> SUFFICES ASSUME TypeOK, TypeOK', PairInv, [Next]_vars PROVE PairInv'
  OBVIOUS
<1>0. runs \in [Handlers -> RunType]
  BY DEF TypeOK, RunType
<1>1. ASSUME NEW h \in Handlers, Arrive(h) PROVE PairInv'
  <2> DEFINE pc == IF h \in Lookups THEN "asking" ELSE "arrived"
             run == [runs[h] EXCEPT !.pc = pc]
  <2>1. /\ runs[h].pc = "idle" /\ runs' = [runs EXCEPT ![h] = run]
        /\ UNCHANGED <<conns, free, waiting>>
    BY <1>1 DEF Arrive, Goes, pool
  <2>2. h \in Lookups => pc = "asking"
    OBVIOUS
  <2>3. h \notin Lookups => pc = "arrived"
    OBVIOUS
  <2> HIDE DEF pc
  <2>4. /\ run.pc = pc /\ run.has = runs[h].has /\ run.extra = runs[h].extra
        /\ run.round = runs[h].round
    BY <1>0 DEF RunType
  <2> HIDE DEF run
  <2>5. Place(h, runs[h]) /\ h \notin In(waiting) /\ Distinct(waiting)
    BY <2>1 DEF PairInv, PoolInv
  <2>6. Place(h, run)
    BY <2>1, <2>2, <2>3, <2>4, <2>5, Kinds DEF Place, AtHub, Ends
  <2>7. h \in Checkouts => Within(h, run)
    BY <2>1, <2>2, <2>3, <2>4, <2>5 DEF Within, PairInv, TenantInv, AtHub, Place
  <2> QED
    BY <2>1, <2>2, <2>3, <2>4, <2>5, <2>6, <2>7, HandlerMoves DEF PairInv
<1>2. ASSUME NEW h \in Handlers, Ask(h) \/ Lock(h) \/ Poll(h) \/ Store(h) \/ RedisFails(h)
      PROVE  PairInv'
  <2>1. PICK run :
          /\ runs' = [runs EXCEPT ![h] = run]
          /\ run.has = runs[h].has /\ run.extra = runs[h].extra
          /\ \/ run.pc \in {"locking", "polling", "wanting"} /\ run.round = runs[h].round
             \/ run = AfterHub(h, runs[h])
    <3>1. AfterHub(h, runs[h]).has = runs[h].has /\ AfterHub(h, runs[h]).extra = runs[h].extra
      BY <1>0 DEF AfterHub, RunType
    <3>2. ASSUME NEW pc \in {"locking", "polling", "wanting"}, runs' = [runs EXCEPT ![h].pc = pc]
          PROVE  \E run : /\ runs' = [runs EXCEPT ![h] = run]
                          /\ run.has = runs[h].has /\ run.extra = runs[h].extra
                          /\ run.pc \in {"locking", "polling", "wanting"}
                          /\ run.round = runs[h].round
      <4> DEFINE new == [runs[h] EXCEPT !.pc = pc]
      <4>1. runs' = [runs EXCEPT ![h] = new]
        BY <3>2
      <4>2. /\ new.has = runs[h].has /\ new.extra = runs[h].extra
            /\ new.pc = pc /\ new.round = runs[h].round
        BY <1>0 DEF RunType
      <4> HIDE DEF new
      <4> QED
        BY <4>1, <4>2
    <3>3. CASE Lock(h)
      <4> DEFINE pc == IF lock THEN "polling" ELSE "wanting"
                 new == [runs[h] EXCEPT !.pc = pc, !.locks = ~lock]
      <4>1. runs' = [runs EXCEPT ![h] = new]
        BY <3>3 DEF Lock
      <4>2. pc \in {"polling", "wanting"}
        OBVIOUS
      <4> HIDE DEF pc
      <4>3. /\ new.has = runs[h].has /\ new.extra = runs[h].extra
            /\ new.pc = pc /\ new.round = runs[h].round
        BY <1>0 DEF RunType
      <4> HIDE DEF new
      <4> QED
        BY <4>1, <4>2, <4>3
    <3>4. CASE runs' = [runs EXCEPT ![h] = AfterHub(h, @)]
      BY <3>1, <3>4
    <3>5. CASE \E pc \in {"locking", "polling", "wanting"} : runs' = [runs EXCEPT ![h].pc = pc]
      BY <3>2, <3>5
    <3> QED
      BY <1>2, <3>3, <3>4, <3>5 DEF Ask, Poll, Store, RedisFails, Goes
  <2>2. runs[h].pc \in {"asking", "locking", "polling", "storing"}
    BY <1>2 DEF Ask, Lock, Poll, Store, RedisFails
  <2>3. UNCHANGED <<conns, free, waiting>>
    BY <1>2 DEF Ask, Lock, Poll, Store, RedisFails, pool
  <2> QED
    BY <2>1, <2>2, <2>3, HubMoves DEF PairInv
<1>3. ASSUME NEW c \in Connections, Execute(c) PROVE PairInv'
  BY <1>3, PoolExecute, TenantExecute DEF PairInv
<1>4. CASE Write \/ Invalidate \/ InvalidateFails \/ Lapse \/ UNCHANGED vars
  <2>1. UNCHANGED <<runs, conns, free, waiting>>
    BY <1>4 DEF Write, Invalidate, InvalidateFails, Lapse, pool, vars
  <2>2. PoolInv'
    BY <2>1 DEF PairInv, PoolInv
  <2>3. Steady
    BY <2>1 DEF Steady, PairInv, TenantInv
  <2> QED
    BY <2>1, <2>2, <2>3, TenantKept DEF PairInv
<1> QED
  BY <1>1, <1>2, <1>3, <1>4, PairConnect, PairTimesOut, PairQuery, PairFinish, PairResolve,
     PairSend DEF Next, Step

LEMMA PairInit == Init => PairInv
<1> SUFFICES ASSUME Init PROVE PairInv
  OBVIOUS
<1>1. \A h \in Handlers : runs[h] = NoRun
  BY DEF Init
<1>2. \A c \in Connections : conns[c] = NewConnection
  BY DEF Init
<1>3. Distinct(free) /\ waiting = <<>>
  BY Drawn DEF Init
<1>4. PoolInv
  <2>1. Distinct(waiting) /\ In(waiting) = {}
    BY <1>3 DEF Distinct, In
  <2>2. \A h \in Handlers : Place(h, runs[h]) /\ Has(h, runs[h]) = {}
    BY <1>1 DEF NoRun, Place, Has, Ends
  <2> QED
    BY <1>3, <2>1, <2>2 DEF PoolInv
<1>5. TenantInv
  <2>1. \A c \in Connections : Sent(c) = {}
    BY <1>2 DEF NewConnection, Sent
  <2>2. OpenByHolder
    BY <1>2 DEF NewConnection, OpenByHolder
  <2>3. \A h \in Checkouts : Within(h, runs[h])
    BY <1>1 DEF NoRun, Within, Handlers
  <2> QED
    BY <2>1, <2>2, <2>3 DEF TenantInv, InFlight, SetBeforeBegin
<1> QED
  BY <1>4, <1>5 DEF PairInv

(* No transaction ever runs under another shop: a set_config sent on a        *)
(* connection that is then given away is run before the next BEGIN, where it  *)
(* does not last (findShopByDomain, setTenantContext).                        *)
THEOREM TransactionsUnderTheirShop == Spec => []TenantOfTransaction
<1>1. PairInv => TenantOfTransaction
  BY DEF PairInv, TenantInv, Within, TenantOfTransaction
<1> QED
  BY <1>1, PairInit, PairStep, TypeCorrect, PTL DEF Spec
=============================================================================
