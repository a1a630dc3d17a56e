-------------------------- MODULE LoginCodesProofs --------------------------
(* Proofs about LoginCodes: a code that has opened a session opens none for *)
(* a verification that begins later, every session is that of a user who    *)
(* has the number, and a window holds a bounded number of challenges.       *)
EXTENDS LoginCodes, FiniteSetTheorems, TLAPS

AskPcs == {"idle", "counting", "hashing", "superseding", "inserting", "sending",
           "committing", "undoing"} \cup AskEnds
TryPcs == {"idle", "missed", "matched", "resolving", "claiming", "enrolling",
           "granting"} \cup TryEnds

RowType == [state : {"none", "open", "spent"}, stamp : Nat, made : Nat,
            until : Nat, attempts : Nat]
AskType == [pc : AskPcs, kind : {"login", "change"}, now : Nat, stamp : Nat,
            open : SUBSET Requests]
TryType == [pc : TryPcs, kind : {"login", "change"}, code : SUBSET Requests,
            target : SUBSET Requests, user : Users \cup {"nobody"},
            moved : BOOLEAN, claims : BOOLEAN, enrols : BOOLEAN,
            used : SUBSET Requests]

RowsType  == stamps \in Nat /\ rows \in [Requests -> RowType]
HeldType  == held \in [Handlers -> SUBSET Requests]
OtherType == /\ channel \in Channels /\ clock \in 0 .. MaxTime
             /\ sent \subseteq Requests
             /\ phone \in [Users -> {"other", "plain", "legacy"}]
             /\ standing \in [Users -> {"none", "good", "blocked"}]
             /\ faultsLeft \in 0 .. FaultBudget
AsksType  == asks \in [Requests -> AskType]
TriesType == tries \in [Verifications -> TryType]

TypeInv == RowsType /\ HeldType /\ OtherType /\ AsksType /\ TriesType

LEMMA TypeSplit == TypeOK <=> TypeInv
BY DEF TypeOK, TypeInv, RowsType, HeldType, OtherType, AsksType, TriesType,
       RowType, AskType, TryType, AskPcs, TryPcs

LEMMA InitType == Init => TypeInv
BY LoginAssumption
   DEF Init, TypeInv, RowsType, HeldType, OtherType, AsksType, TriesType,
       RowType, AskType, TryType, AskPcs, TryPcs, NoRow, NoAsk, NoTry

(* A challenge's row is there only after its request's INSERT has committed. *)
RowsOfTheirRequest ==
  \A r \in Requests : rows[r].state # "none" =>
    \/ asks[r].pc \in {"undoing", "sent", "failed"}
    \/ asks[r].pc = "sending" /\ asks[r].kind = "login"

(* The challenge a code names is one that was inserted; once a verification  *)
(* has spent it, it holds the row's lock or the row is spent for all to see. *)
CodeSpent(v) ==
  \A q \in tries[v].code :
    /\ tries[v].pc = "matched" => rows[q].state # "none"
    /\ tries[v].pc \in {"resolving", "claiming", "enrolling", "granting"} =>
         q \in held[v] \/ rows[q].state = "spent"
    /\ tries[v].pc = "in" => rows[q].state = "spent"

(* A verification that goes on was sent a code no session was open for.      *)
CodeFresh(v) ==
  /\ tries[v].pc \in {"matched", "resolving", "claiming", "enrolling",
                      "granting", "in"} => tries[v].code \cap tries[v].used = {}
  /\ tries[v].pc = "matched" => tries[v].target = tries[v].code

(* What a statement spends or has spent was inserted.                        *)
SpentInserted ==
  /\ \A r \in Requests : asks[r].pc = "superseding" => asks[r].open \subseteq Inserted
  /\ \A h \in Handlers : held[h] \subseteq Inserted

SpentInv == /\ RowsOfTheirRequest /\ SpentInserted
            /\ \A v \in Verifications : CodeSpent(v) /\ CodeFresh(v)

(* The plain form is one user's: users.phone is unique as it is written.     *)
PlainOnce ==
  \A t, u \in Users : phone[t] = "plain" /\ phone[u] = "plain" => t = u

(* Who claims the plain form is the only one, and nobody else has it.        *)
ClaimsAlone ==
  \A v \in Verifications : tries[v].claims =>
    /\ \A w \in Verifications \ {v} : ~tries[w].claims
    /\ tries[v].user = Claimer(v) /\ Claimer(v) \in Users
    /\ ~AlreadyTaken(v)
    /\ tries[v].pc \in {"enrolling", "granting"}

(* The user of a verification is the one who asked for a change, its claimer, *)
(* or one who has the number or moved on after he was found.                 *)
UserHolds ==
  \A v \in Verifications :
    /\ tries[v].kind = "change" /\ tries[v].pc # "idle" => tries[v].user \in Users
    /\ tries[v].pc \in {"enrolling", "granting", "in"} => tries[v].user \in Users
    /\ tries[v].pc \in {"enrolling", "granting"} =>
         tries[v].claims \/ tries[v].moved \/ phone[tries[v].user] # "other"
    /\ tries[v].pc = "in" => tries[v].moved \/ phone[tries[v].user] # "other"

HolderInv == PlainOnce /\ ClaimsAlone /\ UserHolds

Inv == TypeInv /\ SpentInv /\ HolderInv

-----------------------------------------------------------------------------
(* Types.                                                                    *)

LEMMA StrikesType == ASSUME TypeInv, Strikes PROVE faultsLeft' \in 0 .. FaultBudget
BY LoginAssumption DEF TypeInv, OtherType, Strikes

LEMMA SpentType ==
  ASSUME TypeInv, NEW S
  PROVE  /\ Spent(S) \in [Requests -> RowType]
         /\ \A q \in Requests : Spent(S)[q].state =
              IF q \in S THEN "spent" ELSE rows[q].state
BY DEF TypeInv, RowsType, RowType, Spent

LEMMA RowTyped ==
  ASSUME TypeInv, NEW r \in Requests, NEW s \in Nat, NEW m \in Nat
  PROVE  Row(r, s, m) \in RowType
BY LoginAssumption DEF TypeInv, AsksType, AskType, RowType, Row

LEMMA HandlersApart ==
  \A r \in Requests, v \in Verifications : r # v /\ r \in Handlers /\ v \in Handlers
BY LoginAssumption DEF Handlers

(* A request's steps keep the types.                                         *)
LEMMA AskStepType ==
  ASSUME TypeInv, NEW r \in Requests,
         \/ \E kind \in {"login", "change"} : Ask(r, kind)
         \/ AskStep(r) \/ SendFails(r) \/ AskFails(r)
  PROVE  TypeInv'
<1> USE DEF TypeInv, RowsType, HeldType, OtherType, AsksType, TriesType
<1> asks[r] \in AskType /\ clock \in Nat /\ r \in Handlers
  BY LoginAssumption DEF Handlers
<1>1. ASSUME NEW kind \in {"login", "change"}, Ask(r, kind) PROVE TypeInv'
  BY <1>1 DEF Ask, AskType, AskPcs, AskEnds
<1>2. CASE Count(r)
  BY <1>2 DEF Count, AskType, AskPcs, AskEnds
<1>3. CASE BeginSupersede(r)
  BY <1>3 DEF BeginSupersede, AskType, AskPcs, AskEnds, Open
<1>4. CASE Supersede(r)
  <2>1. asks' \in [Requests -> AskType]
    BY <1>4 DEF Supersede, AskType, AskPcs, AskEnds
  <2>2. rows' \in [Requests -> RowType]
    BY <1>4, SpentType DEF Supersede
  <2>3. held' \in [Handlers -> SUBSET Requests]
    BY <1>4 DEF Supersede, AskType, Open
  <2> QED
    BY <1>4, <2>1, <2>2, <2>3 DEF Supersede
<1>5. CASE Insert(r)
  <2>1. asks' \in [Requests -> AskType]
    BY <1>5 DEF Insert, AskType, AskPcs, AskEnds
  <2>2. rows' \in [Requests -> RowType] /\ stamps' \in Nat
    BY <1>5, RowTyped DEF Insert
  <2> QED
    BY <1>5, <2>1, <2>2 DEF Insert
<1>6. CASE Send(r)
  BY <1>6 DEF Send, AskType, AskPcs, AskEnds
<1>7. CASE CommitChange(r)
  <2>1. asks' \in [Requests -> AskType]
    BY <1>7 DEF CommitChange, AskType, AskPcs, AskEnds
  <2>2. Row(r, asks[r].stamp, asks[r].now) \in RowType
    BY RowTyped DEF AskType
  <2>3. rows' \in [Requests -> RowType]
    BY <1>7, <2>2, SpentType DEF CommitChange
  <2> QED
    BY <1>7, <2>1, <2>3 DEF CommitChange
<1>8. CASE Undo(r)
  <2>1. asks' \in [Requests -> AskType]
    BY <1>8 DEF Undo, AskType, AskPcs, AskEnds
  <2> QED
    BY <1>8, <2>1, SpentType DEF Undo
<1>9. CASE SendFails(r)
  <2>1. asks' \in [Requests -> AskType]
    BY <1>9, SMTT(30) DEF SendFails, AskType, AskPcs, AskEnds
  <2>2. held' \in [Handlers -> SUBSET Requests] /\ sent' \subseteq Requests
    BY <1>9 DEF SendFails
  <2> QED
    BY <1>9, <2>1, <2>2, StrikesType DEF SendFails
<1>10. CASE AskFails(r)
  <2>1. asks' \in [Requests -> AskType]
    BY <1>10 DEF AskFails, AskType, AskPcs, AskEnds
  <2> QED
    BY <1>10, <2>1, StrikesType DEF AskFails
<1> QED
  BY <1>1, <1>2, <1>3, <1>4, <1>5, <1>6, <1>7, <1>8, <1>9, <1>10 DEF AskStep

LEMMA RolledBackType ==
  ASSUME TypeInv, NEW v \in Verifications, RolledBack(v)
  PROVE  TriesType' /\ HeldType' /\ rows' = rows
<1>1. TriesType'
  <2> DEFINE t == [tries[v] EXCEPT !.pc = "refused", !.claims = FALSE, !.enrols = FALSE]
  <2>1. t \in TryType
    <3>1. tries[v] \in TryType
      BY DEF TypeInv, TriesType
    <3>2. "refused" \in TryPcs
      BY DEF TryPcs, TryEnds
    <3> QED BY <3>1, <3>2 DEF TryType
  <2>2. tries' = [tries EXCEPT ![v] = t]
    BY DEF RolledBack, TypeInv, TriesType, TryType
  <2> QED
    BY <2>1, <2>2 DEF TypeInv, TriesType
<1>2. HeldType' /\ rows' = rows
  BY DEF RolledBack, TypeInv, HeldType, Handlers
<1> QED
  BY <1>1, <1>2

(* What a verification finds when it begins.                                 *)
Found(kind, code, user, pc, target) ==
  [NoTry EXCEPT !.pc = pc, !.kind = kind, !.code = code, !.used = Used,
                !.user = user, !.target = target]

LEMMA LookFinds ==
  ASSUME NEW v \in Verifications, NEW kind, NEW code, Look(v, kind, code)
  PROVE  /\ \E user \in Askers(kind), pc \in {"refused", "matched", "missed"},
                target \in {code, Newest(Candidates(kind))} :
              /\ tries' = [tries EXCEPT ![v] = Found(kind, code, user, pc, target)]
              /\ pc = "matched" => code \subseteq Candidates(kind) /\ target = code
         /\ rows' = rows /\ held' = held /\ asks' = asks /\ phone' = phone
<1> DEFINE active  == Candidates(kind)
           matches == code # {} /\ code \subseteq active
           Pc(barred) == IF barred THEN "refused"
                         ELSE IF matches THEN "matched" ELSE "missed"
           target  == IF matches THEN code ELSE Newest(active)
<1>1. PICK user \in Askers(kind), barred \in BOOLEAN :
        tries' = [tries EXCEPT ![v] =
                    [NoTry EXCEPT !.pc = Pc(barred), !.kind = kind, !.code = code,
                       !.used = Used, !.user = user, !.target = target]]
  BY DEF Look
<1>2. tries' = [tries EXCEPT ![v] = Found(kind, code, user, Pc(barred), target)]
  <2> HIDE DEF active, matches, Pc, target
  <2> QED
    BY <1>1 DEF Found, NoTry
<1>3. /\ Pc(barred) \in {"refused", "matched", "missed"} /\ target \in {code, Newest(active)}
      /\ Pc(barred) = "matched" => code \subseteq active /\ target = code
  OBVIOUS
<1>4. rows' = rows /\ held' = held /\ asks' = asks /\ phone' = phone
  BY DEF Look
<1> HIDE DEF Pc, target
<1> QED
  BY <1>2, <1>3, <1>4

(* A verification's steps keep the types.                                    *)
LEMMA TryStepType ==
  ASSUME TypeInv, NEW v \in Verifications,
         \/ \E kind \in {"login", "change"}, code \in {{}} \cup {{r} : r \in sent} :
              Look(v, kind, code)
         \/ TryStep(v) \/ TryFails(v)
  PROVE  TypeInv'
<1> USE DEF TypeInv, RowsType, HeldType, OtherType, AsksType, TriesType
<1> tries[v] \in TryType /\ v \in Handlers
  BY DEF Handlers
<1>1. ASSUME NEW kind \in {"login", "change"},
             NEW code \in {{}} \cup {{r} : r \in sent}, Look(v, kind, code)
      PROVE  TypeInv'
  <2>1. code \subseteq Requests /\ Used \subseteq Requests
    BY DEF Used, TryType
  <2>0. Askers(kind) \subseteq Users \cup {"nobody"}
    BY DEF Askers
  <2>2. Newest(Candidates(kind)) \subseteq Requests
    BY DEF Newest, Candidates, Latest, RecentRows, Inserted
  <2>3. NoTry \in TryType
    BY SMTT(30) DEF NoTry, TryType, TryPcs
  <2>4. tries' \in [Verifications -> TryType]
    <3>1. PICK user \in Askers(kind), pc \in {"refused", "matched", "missed"},
               target \in {code, Newest(Candidates(kind))} :
            tries' = [tries EXCEPT ![v] = Found(kind, code, user, pc, target)]
      BY <1>1, LookFinds
    <3>2. Found(kind, code, user, pc, target) \in TryType
      BY <2>0, <2>1, <2>2, <2>3, <3>1 DEF Found, TryType, TryPcs, TryEnds
    <3> QED
      BY <3>1, <3>2
  <2> QED
    BY <1>1, <2>4 DEF Look
<1>2. CASE Miss(v)
  BY <1>2, RolledBackType DEF Miss
<1>3. CASE Consume(v)
  <2>1. tries' \in [Verifications -> TryType]
    BY <1>3 DEF Consume, TryType, TryPcs, TryEnds
  <2>2. held' \in [Handlers -> SUBSET Requests]
    BY <1>3 DEF Consume, TryType
  <2> QED
    BY <1>3, <2>1, <2>2 DEF Consume
<1>4. CASE Resolve(v)
  <2>1. tries' \in [Verifications -> TryType]
    <3>1. PICK u \in Users \cup {"nobody"} :
            \/ tries' = [tries EXCEPT ![v].pc = "claiming"]
            \/ tries' = [tries EXCEPT ![v].user = u, ![v].pc = "enrolling"]
      BY <1>4 DEF Resolve, Holders
    <3> QED
      BY <3>1 DEF TryType, TryPcs, TryEnds
  <2> QED
    BY <1>4, <2>1 DEF Resolve
<1>5. CASE Claim(v)
  <2>1. CASE AlreadyTaken(v)
    BY <1>5, <2>1, RolledBackType DEF Claim
  <2>2. CASE ~AlreadyTaken(v)
    <3>1. tries' \in [Verifications -> TryType]
      BY <1>5, <2>2 DEF Claim, TryType, TryPcs, TryEnds, Claimer, Users
    <3> QED
      BY <1>5, <2>2, <3>1 DEF Claim
  <2> QED
    BY <2>1, <2>2
<1>6. CASE Enrol(v)
  <2>1. CASE Barred(v)
    BY <1>6, <2>1, RolledBackType DEF Enrol
  <2>2. CASE ~Barred(v)
    <3>1. tries' \in [Verifications -> TryType]
      BY <1>6, <2>2 DEF Enrol, TryType, TryPcs, TryEnds
    <3> QED
      BY <1>6, <2>2, <3>1 DEF Enrol
  <2> QED
    BY <2>1, <2>2
<1>7. CASE Grant(v)
  <2>1. CASE Barred(v)
    BY <1>7, <2>1, RolledBackType DEF Grant
  <2>2. CASE ~Barred(v)
    <3>1. tries' \in [Verifications -> TryType]
      BY <1>7, <2>2 DEF Grant, TryType, TryPcs, TryEnds
    <3>2. /\ phone' \in [Users -> {"other", "plain", "legacy"}]
          /\ standing' \in [Users -> {"none", "good", "blocked"}]
      BY <1>7, <2>2 DEF Grant
    <3> QED
      BY <1>7, <2>2, <3>1, <3>2, SpentType DEF Grant
  <2> QED
    BY <2>1, <2>2
<1>8. CASE TryFails(v)
  BY <1>8, RolledBackType, StrikesType DEF TryFails
<1> QED
  BY <1>1, <1>2, <1>3, <1>4, <1>5, <1>6, <1>7, <1>8 DEF TryStep

(* A user who moves on changes nothing of a verification but moved.          *)
LEMMA OnlyMoved ==
  ASSUME TriesType, NEW u \in Users, MoveOn(u)
  PROVE  /\ TriesType'
         /\ \A w \in Verifications :
              /\ tries'[w].pc = tries[w].pc /\ tries'[w].kind = tries[w].kind
              /\ tries'[w].code = tries[w].code /\ tries'[w].target = tries[w].target
              /\ tries'[w].used = tries[w].used /\ tries'[w].user = tries[w].user
              /\ tries'[w].claims = tries[w].claims
              /\ tries[w].moved => tries'[w].moved
              /\ tries[w].user = u /\ tries[w].pc # "refused" => tries'[w].moved
<1> \A w \in Verifications :
      tries'[w] = IF tries[w].user = u /\ tries[w].pc # "refused"
                  THEN [tries[w] EXCEPT !.moved = TRUE] ELSE tries[w]
  BY DEF MoveOn
<1>1. \A w \in Verifications :
        /\ tries'[w] \in TryType
        /\ tries'[w].pc = tries[w].pc /\ tries'[w].kind = tries[w].kind
        /\ tries'[w].code = tries[w].code /\ tries'[w].target = tries[w].target
        /\ tries'[w].used = tries[w].used /\ tries'[w].user = tries[w].user
        /\ tries'[w].claims = tries[w].claims
        /\ tries[w].moved => tries'[w].moved
        /\ tries[w].user = u /\ tries[w].pc # "refused" => tries'[w].moved
  <2> TAKE w \in Verifications
  <2>1. tries[w] \in TryType
    BY DEF TriesType
  <2>2. CASE tries[w].user = u /\ tries[w].pc # "refused"
    <3>1. tries'[w] = [tries[w] EXCEPT !.moved = TRUE]
      BY <2>2
    <3> HIDE DEF TriesType
    <3> QED
      BY <2>1, <3>1 DEF TryType
  <2>3. CASE ~(tries[w].user = u /\ tries[w].pc # "refused")
    BY <2>1, <2>3
  <2> QED
    BY <2>2, <2>3
<1>2. tries' \in [Verifications -> TryType]
  BY <1>1 DEF MoveOn
<1> QED
  BY <1>1, <1>2 DEF TriesType

LEMMA NextType == TypeInv /\ [Next]_vars => TypeInv'
<1> SUFFICES ASSUME TypeInv, [Next]_vars PROVE TypeInv'
  OBVIOUS
<1>1. ASSUME NEW u \in Users, Block(u) PROVE TypeInv'
  BY <1>1 DEF Block, TypeInv, RowsType, HeldType, OtherType, AsksType, TriesType
<1>4. ASSUME NEW u \in Users, MoveOn(u) PROVE TypeInv'
  <2>1. TriesType'
    BY <1>4, OnlyMoved DEF TypeInv
  <2> QED
    BY <1>4, <2>1 DEF MoveOn, TypeInv, RowsType, HeldType, OtherType, AsksType
<1>2. CASE Tick
  BY <1>2, LoginAssumption
     DEF Tick, TypeInv, RowsType, HeldType, OtherType, AsksType, TriesType
<1>3. CASE UNCHANGED vars
  BY <1>3 DEF vars, TypeInv, RowsType, HeldType, OtherType, AsksType, TriesType
<1> QED
  BY <1>1, <1>2, <1>3, <1>4, AskStepType, TryStepType DEF Next

(* Every variable keeps its shape.                                           *)
THEOREM TypeCorrect == Spec => []TypeOK
<1>1. Spec => []TypeInv
  BY InitType, NextType, PTL DEF Spec
<1> QED
  BY <1>1, TypeSplit, PTL

-----------------------------------------------------------------------------
(* Codes.                                                                    *)

LEMMA InitSpent == Init => SpentInv
BY DEF Init, SpentInv, RowsOfTheirRequest, SpentInserted, CodeSpent, CodeFresh,
       NoRow, NoAsk, NoTry

LEMMA RowsStep ==
  ASSUME RowsOfTheirRequest, NEW r \in Requests,
         \A q \in Requests : q # r =>
           /\ asks'[q].pc = asks[q].pc /\ asks'[q].kind = asks[q].kind
           /\ rows'[q].state # "none" => rows[q].state # "none",
         rows'[r].state # "none" =>
           \/ asks'[r].pc \in {"undoing", "sent", "failed"}
           \/ asks'[r].pc = "sending" /\ asks'[r].kind = "login"
  PROVE  RowsOfTheirRequest'
BY DEF RowsOfTheirRequest

LEMMA SpentStep ==
  ASSUME \A q \in Requests : rows[q].state # "none" => rows'[q].state # "none",
         \A q \in Requests : asks'[q].pc = "superseding" => asks'[q].open \subseteq Inserted,
         \A h \in Handlers : held'[h] \subseteq Inserted
  PROVE  SpentInserted'
<1>1. Inserted \subseteq Inserted'
  BY DEF Inserted
<1> QED
  BY <1>1 DEF SpentInserted

(* What a request does spends rows and never takes one back.                 *)
LEMMA AskStepSpent ==
  ASSUME TypeInv, SpentInv, NEW r \in Requests,
         \/ \E kind \in {"login", "change"} : Ask(r, kind)
         \/ AskStep(r) \/ SendFails(r) \/ AskFails(r)
  PROVE  SpentInv'
<1> USE DEF TypeInv, RowsType, AsksType, HeldType
<1> asks[r] \in AskType /\ r \in Handlers
  BY DEF Handlers
<1>1. tries' = tries
  BY DEF Ask, AskStep, SendFails, AskFails, Count, BeginSupersede, Supersede,
         Insert, Send, CommitChange, Undo
<1>2. \A v \in Verifications : held'[v] = held[v]
  BY HandlersApart DEF Ask, AskStep, SendFails, AskFails, Count,
     BeginSupersede, Supersede, Insert, Send, CommitChange, Undo
<1>3. /\ RowsOfTheirRequest' /\ SpentInserted'
      /\ \A q \in Requests : /\ rows[q].state = "spent" => rows'[q].state = "spent"
                             /\ rows[q].state # "none" => rows'[q].state # "none"
  <2> USE DEF SpentInv, RowsOfTheirRequest, SpentInserted, Inserted, AskType
  <2>1. CASE \/ \E kind \in {"login", "change"} : Ask(r, kind)
             \/ Count(r) \/ BeginSupersede(r) \/ Send(r) \/ SendFails(r) \/ AskFails(r)
    <3>1. rows' = rows
      BY <2>1 DEF Ask, Count, BeginSupersede, Send, SendFails, AskFails
    <3>2. RowsOfTheirRequest'
      <4>1. \A q \in Requests : q # r => asks'[q] = asks[q]
        BY <2>1 DEF Ask, Count, BeginSupersede, Send, SendFails, AskFails
      <4>2. rows[r].state # "none" => asks'[r].pc \in {"undoing", "sent", "failed"}
        <5>1. CASE \E kind \in {"login", "change"} : Ask(r, kind)
          BY <2>1, <5>1 DEF Ask
        <5>2. CASE Count(r) \/ BeginSupersede(r)
          BY <2>1, <5>2 DEF Count, BeginSupersede
        <5>3. CASE Send(r) \/ SendFails(r) \/ AskFails(r)
          BY <2>1, <5>3 DEF Send, SendFails, AskFails
        <5> QED
          BY <2>1, <5>1, <5>2, <5>3
      <4> QED
        BY <3>1, <4>1, <4>2, RowsStep
    <3>3. \A q \in Requests : asks'[q].pc = "superseding" => asks'[q].open \subseteq Inserted
      <4>1. Open \subseteq Inserted
        BY DEF Open
      <4>2. \A q \in Requests : q # r => asks'[q] = asks[q]
        BY <2>1 DEF Ask, Count, BeginSupersede, Send, SendFails, AskFails
      <4>3. asks'[r].pc = "superseding" => asks'[r].open = Open
        <5>1. CASE \E kind \in {"login", "change"} : Ask(r, kind)
          BY <2>1, <5>1 DEF Ask
        <5>2. CASE Count(r) \/ BeginSupersede(r)
          BY <2>1, <5>2 DEF Count, BeginSupersede
        <5>3. CASE Send(r) \/ SendFails(r) \/ AskFails(r)
          BY <2>1, <5>3 DEF Send, SendFails, AskFails
        <5> QED
          BY <2>1, <5>1, <5>2, <5>3
      <4> QED
        BY <4>1, <4>2, <4>3
    <3>4. \A h \in Handlers : held'[h] \subseteq held[h]
      BY <2>1 DEF Ask, Count, BeginSupersede, Send, SendFails, AskFails
    <3> QED
      BY <3>1, <3>2, <3>3, <3>4
  <2>2. CASE Supersede(r)
    <3>1. \A q \in Requests : rows'[q].state # rows[q].state =>
            q \in asks[r].open /\ rows'[q].state = "spent"
      BY <2>2, SpentType DEF Supersede
    <3>2. \A q \in Requests : asks'[q].pc = IF q = r THEN "inserting" ELSE asks[q].pc
      BY <2>2 DEF Supersede
    <3>3. \A q \in Requests : asks'[q].open = asks[q].open /\ asks'[q].kind = asks[q].kind
      BY <2>2 DEF Supersede
    <3>4. asks[r].open \subseteq Inserted /\ rows[r].state = "none"
      BY <2>2 DEF Supersede, CanSupersede
    <3>5. \A h \in Handlers : held'[h] \subseteq held[h] \cup asks[r].open
      BY <2>2 DEF Supersede
    <3>6. \A q \in Requests : /\ rows[q].state = "spent" => rows'[q].state = "spent"
                              /\ rows[q].state # "none" => rows'[q].state # "none"
      BY <3>1
    <3>7. RowsOfTheirRequest'
      <4>1. rows'[r].state = "none"
        BY <3>1, <3>4
      <4>2. \A q \in Requests : rows'[q].state # "none" => rows[q].state # "none"
        BY <3>1, <3>4
      <4> QED
        BY <3>2, <3>3, <4>1, <4>2, RowsStep
    <3>9. \A q \in Requests : asks'[q].pc = "superseding" => asks'[q].open \subseteq Inserted
      BY <3>2, <3>3
    <3>10. \A h \in Handlers : held'[h] \subseteq Inserted
      BY <3>4, <3>5
    <3>11. SpentInserted'
      BY <3>6, <3>9, <3>10, SpentStep
    <3> QED
      BY <3>6, <3>7, <3>11
  <2>3. CASE Insert(r)
    <3>1. \A q \in Requests : q # r => rows'[q] = rows[q] /\ asks'[q] = asks[q]
      BY <2>3 DEF Insert
    <3>2. asks'[r].pc = "sending" /\ asks'[r].kind = asks[r].kind
      BY <2>3 DEF Insert
    <3>3. rows[r].state = "none" /\ (asks[r].kind = "change" => rows' = rows)
      BY <2>3 DEF Insert
    <3>4. held' = held
      BY <2>3 DEF Insert
    <3> QED
      BY <3>1, <3>2, <3>3, <3>4
  <2>4. CASE CommitChange(r)
    <3>1. asks'[r].pc = "sent" /\ \A q \in Requests : q # r => asks'[q] = asks[q]
      BY <2>4 DEF CommitChange
    <3>2. rows[r].state = "none"
      BY <2>4 DEF CommitChange
    <3>3. \A q \in Requests : q # r => rows'[q].state = Spent(held[r])[q].state
      BY <2>4 DEF CommitChange
    <3>4. \A q \in Requests : q # r /\ rows'[q].state # rows[q].state =>
            q \in held[r] /\ rows'[q].state = "spent"
      BY <3>3, SpentType
    <3>5. rows'[r].state = "open"
      BY <2>4, SpentType DEF CommitChange, Row
    <3>6. \A h \in Handlers : held'[h] \subseteq held[h]
      BY <2>4 DEF CommitChange
    <3>7. \A q \in Requests : /\ rows[q].state = "spent" => rows'[q].state = "spent"
                              /\ rows[q].state # "none" => rows'[q].state # "none"
      BY <3>2, <3>4
    <3>8. RowsOfTheirRequest'
      <4>1. held[r] \subseteq Inserted
        OBVIOUS
      <4>2. \A q \in Requests : q # r /\ rows'[q].state # "none" => rows[q].state # "none"
        BY <3>4, <4>1
      <4> QED
        BY <3>1, <4>2, RowsStep
    <3>10. \A q \in Requests : asks'[q].pc = "superseding" => asks'[q].open \subseteq Inserted
      BY <3>1
    <3>11. \A h \in Handlers : held'[h] \subseteq Inserted
      BY <3>6
    <3>12. SpentInserted'
      BY <3>7, <3>10, <3>11, SpentStep
    <3> QED
      BY <3>7, <3>8, <3>12
  <2>5. CASE Undo(r)
    <3>1. asks'[r].pc = "failed" /\ \A q \in Requests : q # r => asks'[q] = asks[q]
      BY <2>5 DEF Undo
    <3>2. \A q \in Requests : rows'[q].state = IF q = r THEN "spent" ELSE rows[q].state
      BY <2>5, SpentType DEF Undo
    <3>3. held' = held
      BY <2>5 DEF Undo
    <3> QED
      BY <3>1, <3>2, <3>3
  <2> QED
    BY <2>1, <2>2, <2>3, <2>4, <2>5 DEF AskStep
<1> QED
  BY <1>1, <1>2, <1>3 DEF SpentInv, CodeSpent, CodeFresh, TriesType, TryType

(* What a verification does to the others: nothing but spend rows.            *)
LEMMA OthersSpent ==
  ASSUME TypeInv, SpentInv, NEW v \in Verifications,
         asks' = asks,
         \A w \in Verifications \ {v} : tries'[w] = tries[w],
         \A h \in Handlers \ {v} : held'[h] = held[h],
         held'[v] \subseteq Inserted,
         \A q \in Requests : rows'[q].state = rows[q].state \/
                             (rows[q].state # "none" /\ rows'[q].state = "spent"),
         CodeSpent(v)', CodeFresh(v)'
  PROVE  SpentInv'
<1>1. \A w \in Verifications \ {v} : CodeSpent(w)' /\ CodeFresh(w)'
  BY DEF SpentInv, CodeSpent, CodeFresh, TypeInv, TriesType, TryType, Handlers
<1>2. Inserted \subseteq Inserted'
  BY DEF Inserted
<1>3. RowsOfTheirRequest' /\ SpentInserted'
  BY <1>2 DEF SpentInv, RowsOfTheirRequest, SpentInserted, Handlers
<1> QED
  BY <1>1, <1>3 DEF SpentInv

LEMMA RolledBackSpent ==
  ASSUME TypeInv, SpentInv, NEW v \in Verifications, RolledBack(v), asks' = asks
  PROVE  SpentInv'
<1>1. tries'[v].pc = "refused"
  BY DEF RolledBack, TypeInv, TriesType, TryType
<1>2. CodeSpent(v)' /\ CodeFresh(v)'
  BY <1>1 DEF CodeSpent, CodeFresh
<1> QED
  BY <1>2, OthersSpent DEF RolledBack, TypeInv, TriesType, HeldType, Handlers

(* A verification spends its code before it opens a session.                  *)
LEMMA TryStepSpent ==
  ASSUME TypeInv, SpentInv, NEW v \in Verifications,
         \/ \E kind \in {"login", "change"}, code \in {{}} \cup {{r} : r \in sent} :
              Look(v, kind, code)
         \/ TryStep(v) \/ TryFails(v)
  PROVE  SpentInv'
<1> USE DEF TypeInv, RowsType, TriesType, HeldType
<1> tries[v] \in TryType /\ v \in Handlers
  BY DEF Handlers
<1> CodeSpent(v) /\ CodeFresh(v) /\ SpentInserted
  BY DEF SpentInv
<1>1. ASSUME NEW kind \in {"login", "change"},
             NEW code \in {{}} \cup {{r} : r \in sent}, Look(v, kind, code)
      PROVE  SpentInv'
  <2>1. PICK user \in Askers(kind), pc \in {"refused", "matched", "missed"},
             target \in {code, Newest(Candidates(kind))} :
          /\ tries' = [tries EXCEPT ![v] = Found(kind, code, user, pc, target)]
          /\ pc = "matched" => code \subseteq Candidates(kind) /\ target = code
    BY <1>1, LookFinds
  <2>2. /\ tries'[v].pc = pc /\ tries'[v].target = target
        /\ tries'[v].code = code /\ tries'[v].used = Used
    BY <2>1 DEF Found, NoTry
  <2>3. \A q \in Candidates(kind) : rows[q].state = "open"
    BY DEF Candidates, Alive
  <2>4. \A q \in Used : rows[q].state = "spent"
    BY DEF Used, SpentInv, CodeSpent
  <2>5. rows' = rows /\ held' = held /\ asks' = asks
        /\ \A w \in Verifications \ {v} : tries'[w] = tries[w]
    BY <1>1, <2>1, LookFinds
  <2>6. CodeSpent(v)' /\ CodeFresh(v)'
    BY <2>1, <2>2, <2>3, <2>4, <2>5 DEF CodeSpent, CodeFresh
  <2> QED
    BY <2>5, <2>6, OthersSpent, SMTT(30) DEF SpentInserted
<1>2. CASE Miss(v)
  BY <1>2, RolledBackSpent DEF Miss
<1>3. CASE Consume(v)
  <2>1. /\ tries'[v].pc \in {"resolving", "claiming"}
        /\ tries'[v].code = tries[v].code /\ tries'[v].used = tries[v].used
        /\ \A w \in Verifications \ {v} : tries'[w] = tries[w]
    BY <1>3 DEF Consume, TryType
  <2>2. /\ held'[v] = tries[v].target \cap Open
        /\ \A h \in Handlers \ {v} : held'[h] = held[h]
        /\ rows' = rows /\ asks' = asks
    BY <1>3 DEF Consume
  <2>3. CodeSpent(v)' /\ CodeFresh(v)'
    BY <1>3, <2>1, <2>2 DEF CodeSpent, CodeFresh, Open, Consume, RowType, TryType
  <2> QED
    BY <2>1, <2>2, <2>3, OthersSpent DEF Open, Inserted
<1>4. CASE Resolve(v)
  <2>1. /\ tries'[v].pc \in {"claiming", "enrolling"} /\ tries[v].pc = "resolving"
        /\ tries'[v].code = tries[v].code /\ tries'[v].used = tries[v].used
        /\ \A w \in Verifications \ {v} : tries'[w] = tries[w]
    <3>1. PICK u : \/ tries' = [tries EXCEPT ![v].pc = "claiming"]
                   \/ tries' = [tries EXCEPT ![v].user = u, ![v].pc = "enrolling"]
      BY <1>4 DEF Resolve
    <3> QED
      BY <1>4, <3>1 DEF Resolve, TryType
  <2>2. rows' = rows /\ held' = held /\ asks' = asks
    BY <1>4 DEF Resolve
  <2>3. CodeSpent(v)' /\ CodeFresh(v)'
    BY <2>1, <2>2 DEF CodeSpent, CodeFresh
  <2> QED
    BY <2>1, <2>2, <2>3, OthersSpent DEF SpentInserted
<1>5. CASE (Claim(v) /\ ~AlreadyTaken(v)) \/ (Enrol(v) /\ ~Barred(v))
  <2>1. /\ tries'[v].pc \in {"enrolling", "granting"}
        /\ tries[v].pc \in {"claiming", "enrolling"}
        /\ tries'[v].code = tries[v].code /\ tries'[v].used = tries[v].used
        /\ \A w \in Verifications \ {v} : tries'[w] = tries[w]
    BY <1>5 DEF Claim, Enrol, TryType
  <2>2. rows' = rows /\ held' = held /\ asks' = asks
    BY <1>5 DEF Claim, Enrol
  <2>3. CodeSpent(v)' /\ CodeFresh(v)'
    BY <2>1, <2>2 DEF CodeSpent, CodeFresh
  <2> QED
    BY <2>1, <2>2, <2>3, OthersSpent DEF SpentInserted
<1>6. CASE (Claim(v) /\ AlreadyTaken(v)) \/ (Enrol(v) /\ Barred(v))
  BY <1>6, RolledBackSpent DEF Claim, Enrol
<1>7. CASE Grant(v)
  <2>1. CASE Barred(v)
    BY <1>7, <2>1, RolledBackSpent DEF Grant
  <2>2. CASE ~Barred(v)
    <3>1. /\ tries'[v].pc = "in" /\ tries[v].pc = "granting"
          /\ tries'[v].code = tries[v].code /\ tries'[v].used = tries[v].used
          /\ \A w \in Verifications \ {v} : tries'[w] = tries[w]
      BY <1>7, <2>2 DEF Grant, TryType
    <3>2. held'[v] = {} /\ asks' = asks /\ \A h \in Handlers \ {v} : held'[h] = held[h]
      BY <1>7, <2>2 DEF Grant
    <3>3. \A q \in Requests : rows'[q].state =
            IF q \in held[v] THEN "spent" ELSE rows[q].state
      BY <1>7, <2>2, SpentType DEF Grant
    <3>4. CodeSpent(v)' /\ CodeFresh(v)'
      BY <3>1, <3>3 DEF CodeSpent, CodeFresh, TryType
    <3>5. held[v] \subseteq Inserted
      BY DEF SpentInserted
    <3> QED
      BY <3>1, <3>2, <3>3, <3>4, <3>5, OthersSpent DEF Inserted
  <2> QED
    BY <2>1, <2>2
<1>8. CASE TryFails(v)
  BY <1>8, RolledBackSpent DEF TryFails
<1> QED
  BY <1>1, <1>2, <1>3, <1>4, <1>5, <1>6, <1>7, <1>8 DEF TryStep

LEMMA NextSpent == TypeInv /\ SpentInv /\ [Next]_vars => SpentInv'
<1> SUFFICES ASSUME TypeInv, SpentInv, [Next]_vars PROVE SpentInv'
  OBVIOUS
<1>1. CASE (\E u \in Users : Block(u)) \/ Tick \/ UNCHANGED vars
  BY <1>1 DEF Block, Tick, vars, SpentInv, RowsOfTheirRequest, SpentInserted, Inserted,
              CodeSpent, CodeFresh
<1>2. ASSUME NEW u \in Users, MoveOn(u) PROVE SpentInv'
  <2>1. asks' = asks /\ rows' = rows /\ held' = held
    BY <1>2 DEF MoveOn
  <2>2. RowsOfTheirRequest' /\ SpentInserted'
    BY <2>1 DEF SpentInv, RowsOfTheirRequest, SpentInserted, Inserted
  <2>3. ASSUME NEW w \in Verifications PROVE CodeSpent(w)' /\ CodeFresh(w)'
    BY <1>2, <2>1, OnlyMoved DEF TypeInv, SpentInv, CodeSpent, CodeFresh
  <2> QED
    BY <2>2, <2>3 DEF SpentInv
<1> QED
  BY <1>1, <1>2, AskStepSpent, TryStepSpent DEF Next

(* No code opens a session for a verification that began after another had   *)
(* opened one with it.                                                       *)
THEOREM ReplaysOverlapAlways == Spec => []ReplaysOverlap
<1>1. SpentInv => ReplaysOverlap
  BY DEF SpentInv, CodeFresh, ReplaysOverlap
<1>2. Init => TypeInv /\ SpentInv
  BY InitType, InitSpent
<1>3. TypeInv /\ SpentInv /\ [Next]_vars => (TypeInv /\ SpentInv)'
  BY NextType, NextSpent
<1> QED
  BY <1>1, <1>2, <1>3, PTL DEF Spec

-----------------------------------------------------------------------------
(* Whose sessions a number's codes open.                                     *)

LEMMA InitHolder == Init => HolderInv
BY DEF Init, HolderInv, PlainOnce, ClaimsAlone, UserHolds, NoTry

(* A verification that claims nothing new and grants nothing.                *)
LEMMA QuietHolder ==
  ASSUME HolderInv, NEW v \in Verifications, phone' = phone,
         \A w \in Verifications \ {v} : tries'[w] = tries[w],
         ~tries'[v].claims,
         tries'[v].kind = "change" /\ tries'[v].pc # "idle" => tries'[v].user \in Users,
         tries'[v].pc \in {"enrolling", "granting", "in"} =>
           /\ tries'[v].user \in Users
           /\ tries'[v].moved \/ phone[tries'[v].user] # "other"
  PROVE  HolderInv'
<1>1. PlainOnce'
  BY DEF HolderInv, PlainOnce
<1>2. ClaimsAlone'
  BY DEF HolderInv, ClaimsAlone, Claimer, AlreadyTaken
<1>3. UserHolds'
  BY DEF HolderInv, UserHolds
<1> QED
  BY <1>1, <1>2, <1>3 DEF HolderInv

(* Rolling back gives up the claim.                                           *)
LEMMA RolledBackHolder ==
  ASSUME TypeInv, HolderInv, NEW v \in Verifications, RolledBack(v), phone' = phone,
         tries[v].pc # "idle"
  PROVE  HolderInv'
<1>1. /\ tries'[v].pc = "refused" /\ tries'[v].claims = FALSE
      /\ tries'[v].kind = tries[v].kind /\ tries'[v].user = tries[v].user
      /\ \A w \in Verifications \ {v} : tries'[w] = tries[w]
  BY DEF RolledBack, TypeInv, TriesType, TryType
<1>2. tries[v].kind = "change" => tries[v].user \in Users
  BY DEF HolderInv, UserHolds
<1> QED
  BY <1>1, <1>2, QuietHolder

(* A verification that keeps its user and its claim.                         *)
LEMMA ClaimKept ==
  ASSUME HolderInv, NEW v \in Verifications, phone' = phone,
         \A w \in Verifications \ {v} : tries'[w] = tries[w],
         /\ tries'[v].user = tries[v].user /\ tries'[v].kind = tries[v].kind
         /\ tries'[v].claims = tries[v].claims /\ tries'[v].moved = tries[v].moved,
         tries[v].pc = "enrolling" /\ tries'[v].pc = "granting"
  PROVE  HolderInv'
<1>1. PlainOnce'
  BY DEF HolderInv, PlainOnce
<1>2. ClaimsAlone'
  BY DEF HolderInv, ClaimsAlone, Claimer, AlreadyTaken
<1>3. UserHolds'
  BY DEF HolderInv, UserHolds
<1> QED
  BY <1>1, <1>2, <1>3 DEF HolderInv

(* The plain form is claimed only when nobody else has it or claims it.       *)
LEMMA ClaimHolder ==
  ASSUME TypeInv, HolderInv, NEW v \in Verifications, Claim(v), ~AlreadyTaken(v)
  PROVE  HolderInv'
<1>1. /\ tries'[v].pc \in {"enrolling", "granting"} /\ tries'[v].claims
      /\ tries'[v].user = Claimer(v) /\ tries'[v].kind = tries[v].kind
      /\ \A w \in Verifications \ {v} : tries'[w] = tries[w] /\ ~tries[w].claims
      /\ phone' = phone /\ tries[v].pc = "claiming"
  BY DEF Claim, NobodyClaims, TypeInv, TriesType, TryType
<1>2. Claimer(v) \in Users
  BY <1>1 DEF HolderInv, UserHolds, Claimer, Users, TypeInv, TriesType, TryType
<1>3. PlainOnce'
  BY <1>1 DEF HolderInv, PlainOnce
<1>4. ClaimsAlone'
  <2>1. Claimer(v)' = Claimer(v)
    BY <1>1 DEF Claimer
  <2>2. ~AlreadyTaken(v)'
    BY <1>1, <2>1 DEF AlreadyTaken
  <2> QED
    BY <1>1, <1>2, <2>1, <2>2 DEF ClaimsAlone
<1>5. UserHolds'
  BY <1>1, <1>2 DEF HolderInv, UserHolds
<1> QED
  BY <1>3, <1>4, <1>5 DEF HolderInv

(* A session is opened, and with it a claim is written.                       *)
LEMMA GrantHolder ==
  ASSUME TypeInv, HolderInv, NEW v \in Verifications, Grant(v), ~Barred(v)
  PROVE  HolderInv'
<1> tries[v] \in TryType /\ phone \in [Users -> {"other", "plain", "legacy"}]
  BY DEF TypeInv, TriesType, OtherType
<1>1. /\ tries'[v].pc = "in" /\ tries[v].pc = "granting" /\ ~tries'[v].claims
      /\ tries'[v].user = tries[v].user /\ tries'[v].moved = tries[v].moved
      /\ \A w \in Verifications \ {v} : tries'[w] = tries[w]
      /\ phone' = IF tries[v].claims
                  THEN [phone EXCEPT ![tries[v].user] = "plain"] ELSE phone
  BY DEF Grant, TypeInv, TriesType, TryType
<1>2. tries[v].user \in Users
  BY <1>1 DEF HolderInv, UserHolds
<1>3. CASE ~tries[v].claims
  <2>1. tries[v].moved \/ phone[tries[v].user] # "other"
    BY <1>1, <1>3 DEF HolderInv, UserHolds
  <2> QED
    BY <1>1, <1>2, <1>3, <2>1, QuietHolder
<1>4. CASE tries[v].claims
  <2>1. /\ \A w \in Verifications \ {v} : ~tries[w].claims
        /\ \A u \in Users : phone[u] = "plain" => u = tries[v].user
    BY <1>4 DEF HolderInv, ClaimsAlone, AlreadyTaken
  <2>2. \A u \in Users : phone'[u] = IF u = tries[v].user THEN "plain" ELSE phone[u]
    BY <1>1, <1>4
  <2>3. PlainOnce'
    BY <2>1, <2>2 DEF PlainOnce
  <2>4. ClaimsAlone'
    BY <1>1, <2>1 DEF ClaimsAlone
  <2>5. UserHolds'
    BY <1>1, <1>2, <2>2 DEF HolderInv, UserHolds
  <2> QED
    BY <2>3, <2>4, <2>5 DEF HolderInv
<1> QED
  BY <1>3, <1>4

LEMMA TryStepHolder ==
  ASSUME TypeInv, HolderInv, NEW v \in Verifications,
         \/ \E kind \in {"login", "change"}, code \in {{}} \cup {{r} : r \in sent} :
              Look(v, kind, code)
         \/ TryStep(v) \/ TryFails(v)
  PROVE  HolderInv'
<1> tries[v] \in TryType /\ tries \in [Verifications -> TryType]
  BY DEF TypeInv, TriesType
<1>0. tries[v].kind = "change" /\ tries[v].pc # "idle" => tries[v].user \in Users
  BY DEF HolderInv, UserHolds
<1>1. ASSUME NEW kind \in {"login", "change"},
             NEW code \in {{}} \cup {{r} : r \in sent}, Look(v, kind, code)
      PROVE  HolderInv'
  <2>1. PICK user \in Askers(kind), pc \in {"refused", "matched", "missed"},
             target \in {code, Newest(Candidates(kind))} :
          tries' = [tries EXCEPT ![v] = Found(kind, code, user, pc, target)]
    BY <1>1, LookFinds
  <2>3. /\ tries'[v].pc = pc /\ tries'[v].claims = FALSE
        /\ tries'[v].kind = kind /\ tries'[v].user = user
        /\ \A w \in Verifications \ {v} : tries'[w] = tries[w]
        /\ phone' = phone
    BY <1>1, <2>1, LookFinds DEF Found, NoTry
  <2>2. kind = "change" => user \in Users
    BY DEF Askers
  <2> QED
    BY <2>1, <2>2, <2>3, QuietHolder
<1>2. CASE Miss(v)
  BY <1>2, RolledBackHolder DEF Miss
<1>3. CASE Consume(v)
  <2>1. /\ tries'[v].pc \in {"resolving", "claiming"} /\ tries[v].pc = "matched"
        /\ tries'[v].claims = tries[v].claims /\ tries'[v].kind = tries[v].kind
        /\ tries'[v].user = tries[v].user
        /\ \A w \in Verifications \ {v} : tries'[w] = tries[w]
        /\ phone' = phone
    BY <1>3 DEF Consume, TryType
  <2>2. ~tries[v].claims
    BY <2>1 DEF HolderInv, ClaimsAlone
  <2> QED
    BY <1>0, <2>1, <2>2, QuietHolder
<1>4. CASE Resolve(v)
  <2>1. ~tries[v].claims /\ tries[v].pc = "resolving"
    BY <1>4 DEF Resolve, HolderInv, ClaimsAlone
  <2>2. PICK u \in Holders \cup {"nobody"} :
          \/ tries' = [tries EXCEPT ![v].pc = "claiming"]
          \/ /\ u \in Holders
             /\ tries' = [tries EXCEPT ![v].user = u, ![v].pc = "enrolling"]
    BY <1>4 DEF Resolve
  <2>3. phone' = phone
    BY <1>4 DEF Resolve
  <2>4. CASE tries' = [tries EXCEPT ![v].pc = "claiming"]
    BY <1>0, <2>1, <2>3, <2>4, QuietHolder DEF TryType
  <2>5. CASE /\ u \in Holders
             /\ tries' = [tries EXCEPT ![v].user = u, ![v].pc = "enrolling"]
    BY <2>1, <2>3, <2>5, QuietHolder DEF TryType, Holders
  <2> QED
    BY <2>2, <2>4, <2>5
<1>5. CASE Claim(v)
  <2>1. CASE AlreadyTaken(v)
    BY <1>5, <2>1, RolledBackHolder DEF Claim
  <2> QED
    BY <1>5, <2>1, ClaimHolder
<1>6. CASE Enrol(v)
  <2>1. CASE Barred(v)
    BY <1>6, <2>1, RolledBackHolder DEF Enrol
  <2>2. CASE ~Barred(v)
    BY <1>6, <2>2, ClaimKept DEF Enrol, TryType
  <2> QED
    BY <2>1, <2>2
<1>7. CASE Grant(v)
  <2>1. CASE Barred(v)
    BY <1>7, <2>1, RolledBackHolder DEF Grant
  <2> QED
    BY <1>7, <2>1, GrantHolder
<1>8. CASE TryFails(v)
  BY <1>8, RolledBackHolder DEF TryFails, InTransaction
<1> QED
  BY <1>1, <1>2, <1>3, <1>4, <1>5, <1>6, <1>7, <1>8 DEF TryStep

(* Nobody moves on whose row a verification has written.                     *)
LEMMA MoveOnHolder ==
  ASSUME TypeInv, HolderInv, NEW u \in Users, MoveOn(u)
  PROVE  HolderInv'
<1>1. \A t \in Users : phone'[t] = IF t = u THEN "other" ELSE phone[t]
  BY DEF MoveOn, TypeInv, OtherType
<1>2. PlainOnce'
  BY <1>1 DEF HolderInv, PlainOnce
<1>3. \A v \in Verifications : tries[v].claims => tries[v].user # u
  BY DEF MoveOn, RowFree
<1>4. ClaimsAlone'
  BY <1>1, OnlyMoved DEF HolderInv, ClaimsAlone, Claimer, AlreadyTaken, TypeInv
<1>5. UserHolds'
  BY <1>1, <1>3, OnlyMoved DEF HolderInv, UserHolds, TypeInv
<1> QED
  BY <1>2, <1>4, <1>5 DEF HolderInv

LEMMA NextHolder == TypeInv /\ HolderInv /\ [Next]_vars => HolderInv'
<1> SUFFICES ASSUME TypeInv, HolderInv, [Next]_vars PROVE HolderInv'
  OBVIOUS
<1>1. CASE tries' = tries /\ phone' = phone
  BY <1>1 DEF HolderInv, PlainOnce, ClaimsAlone, UserHolds, Claimer, AlreadyTaken
<1>2. ASSUME NEW r \in Requests,
             \/ \E kind \in {"login", "change"} : Ask(r, kind)
             \/ AskStep(r) \/ SendFails(r) \/ AskFails(r)
      PROVE  tries' = tries /\ phone' = phone
  BY <1>2 DEF Ask, AskStep, SendFails, AskFails, Count, BeginSupersede, Supersede,
              Insert, Send, CommitChange, Undo
<1>3. (\E u \in Users : Block(u)) \/ Tick \/ UNCHANGED vars =>
        tries' = tries /\ phone' = phone
  BY DEF Block, Tick, vars
<1> QED
  BY <1>1, <1>2, <1>3, TryStepHolder, MoveOnHolder DEF Next

(* A code opens the session of a user who has the number or has moved on     *)
(* since he was found; two users' only where one has it in a legacy form or  *)
(* has moved on.  So it is for any users, forms, logins and changes.         *)
THEOREM SessionsOfHolderAlways == Spec => []SessionsOfHolder
<1>1. TypeInv /\ HolderInv => SessionsOfHolder
  BY DEF TypeInv, OtherType, HolderInv, PlainOnce, UserHolds, SessionsOfHolder
<1>2. Init => TypeInv /\ HolderInv
  BY InitType, InitHolder
<1>3. TypeInv /\ HolderInv /\ [Next]_vars => (TypeInv /\ HolderInv)'
  BY NextType, NextHolder
<1> QED
  BY <1>1, <1>2, <1>3, PTL DEF Spec

-----------------------------------------------------------------------------
(* What a step does to the requests and to the times of their rows.          *)

(* A row keeps its times; it is neither written nor removed.                 *)
RowKept(q) ==
  /\ rows'[q].state = "none" <=> rows[q].state = "none"
  /\ rows'[q].made = rows[q].made /\ rows'[q].stamp = rows[q].stamp
  /\ rows'[q].until = rows[q].until

SameAsk(r) == /\ asks'[r].kind = asks[r].kind /\ asks'[r].now = asks[r].now
              /\ asks'[r].stamp = asks[r].stamp

Written(r, stamp, made) ==
  /\ rows'[r].state # "none" /\ rows'[r].stamp = stamp /\ rows'[r].made = made
  /\ rows'[r].until = asks[r].now + Ttl

Opens(r) ==
  /\ asks[r].pc = "idle" /\ RowKept(r) /\ Cardinality(Busy) < MaxConcurrent
  /\ asks'[r].now = clock /\ asks'[r].stamp = stamps
  /\ \/ asks'[r].pc = "counting"
        /\ stamps' = IF asks'[r].kind = "change" THEN stamps + 1 ELSE stamps
     \/ asks'[r].pc = "refused" /\ stamps' = stamps

Counts(r) ==
  /\ asks[r].pc = "counting" /\ asks'[r].pc = "hashing" /\ ~LimitReached(r)
  /\ SameAsk(r) /\ RowKept(r) /\ stamps' = stamps

Goes(r) ==
  /\ SameAsk(r) /\ RowKept(r) /\ stamps' = stamps
  /\ \/ asks[r].pc # "idle" /\ asks'[r].pc \in AskEnds
     \/ asks[r].pc = "hashing" /\ asks'[r].pc = "superseding"
     \/ asks[r].pc = "superseding" /\ asks'[r].pc = "inserting"
     \/ /\ asks[r].pc = "inserting" /\ asks'[r].pc = "sending"
        /\ asks[r].kind = "change"
     \/ asks[r].pc = "sending" /\ asks'[r].pc = "committing" /\ asks[r].kind = "change"
     \/ asks[r].pc = "sending" /\ asks'[r].pc = "undoing" /\ asks[r].kind = "login"

Inserts(r) ==
  /\ asks[r].pc = "inserting" /\ asks'[r].pc = "sending" /\ asks[r].kind = "login"
  /\ SameAsk(r) /\ Written(r, stamps, clock) /\ stamps' = stamps + 1

Commits(r) ==
  /\ asks[r].pc = "committing" /\ asks'[r].pc = "sent" /\ asks[r].kind = "change"
  /\ SameAsk(r) /\ Written(r, asks[r].stamp, asks[r].now) /\ stamps' = stamps

Alone(r) == /\ clock' = clock
            /\ \A q \in Requests \ {r} : asks'[q] = asks[q] /\ RowKept(q)

Quiet == /\ clock <= clock' /\ stamps' = stamps
         /\ \A q \in Requests : asks'[q] = asks[q] /\ RowKept(q)

(* Only a change of number is committed; a login sends and undoes the        *)
(* challenge it has written.                                                 *)
PlaceInv ==
  \A r \in Requests :
    /\ asks[r].pc = "committing" => asks[r].kind = "change"
    /\ asks[r].pc = "sending" /\ asks[r].kind = "login" => rows[r].state # "none"
    /\ asks[r].pc = "undoing" => rows[r].state # "none"

LEMMA InitPlace == Init => PlaceInv
BY DEF Init, PlaceInv, NoAsk

(* A row that is spent keeps its times.                                      *)
LEMMA SpentRow ==
  ASSUME TypeInv, NEW S, S \subseteq Inserted, NEW q \in Requests,
         rows'[q] = Spent(S)[q]
  PROVE  RowKept(q)
BY DEF RowKept, Spent, Inserted, TypeInv, RowsType, RowType

LEMMA SpentKept ==
  ASSUME TypeInv, NEW S, S \subseteq Inserted, rows' = Spent(S)
  PROVE  \A q \in Requests : RowKept(q)
BY DEF RowKept, Spent, Inserted, TypeInv, RowsType, RowType

LEMMA SameRows == ASSUME rows' = rows PROVE \A q \in Requests : RowKept(q)
BY DEF RowKept

(* One request moves, all others stay, and no row loses its times.           *)
LEMMA RequestMoves ==
  ASSUME TypeInv, SpentInv, PlaceInv, NEW r \in Requests,
         \/ \E kind \in {"login", "change"} : Ask(r, kind)
         \/ AskStep(r) \/ SendFails(r) \/ AskFails(r)
  PROVE  Alone(r) /\ (Opens(r) \/ Counts(r) \/ Goes(r) \/ Inserts(r) \/ Commits(r))
<1> USE DEF Alone
<1> asks \in [Requests -> AskType] /\ asks[r] \in AskType /\ r \in Handlers
  BY DEF TypeInv, AsksType, Handlers
<1> rows \in [Requests -> RowType]
  BY DEF TypeInv, RowsType
<1> SpentInserted
  BY DEF SpentInv
<1>1. ASSUME NEW kind \in {"login", "change"}, Ask(r, kind) PROVE Alone(r) /\ Opens(r)
  BY <1>1, SameRows DEF Ask, Opens, AskType
<1>2. CASE Count(r)
  <2>1. Alone(r) /\ RowKept(r) /\ SameAsk(r) /\ stamps' = stamps
    BY <1>2, SameRows DEF Count, SameAsk, AskType
  <2>2. /\ asks[r].pc = "counting"
        /\ asks'[r].pc = IF LimitReached(r) THEN "refused" ELSE "hashing"
    BY <1>2 DEF Count, AskType
  <2> QED
    BY <2>1, <2>2 DEF Goes, Counts, AskEnds
<1>3. CASE BeginSupersede(r) \/ Send(r) \/ SendFails(r)
  <2>1. Alone(r) /\ RowKept(r) /\ SameAsk(r) /\ stamps' = stamps
    BY <1>3, SameRows DEF BeginSupersede, Send, SendFails, SameAsk, AskType
  <2>2. CASE BeginSupersede(r)
    BY <2>1, <2>2 DEF BeginSupersede, Goes, AskType
  <2>3. CASE Send(r)
    BY <2>1, <2>3 DEF Send, Goes, AskType, AskEnds
  <2>4. CASE SendFails(r)
    BY <2>1, <2>4 DEF SendFails, Goes, AskType, AskEnds
  <2> QED
    BY <1>3, <2>2, <2>3, <2>4
<1>4. CASE Supersede(r)
  <2>1. \A q \in Requests : RowKept(q)
    <3>1. asks[r].open \subseteq Inserted
      BY <1>4 DEF Supersede, CanSupersede, SpentInserted
    <3> QED
      BY <1>4, <3>1, SpentKept, SameRows DEF Supersede
  <2>2. SameAsk(r) /\ asks[r].pc = "superseding" /\ asks'[r].pc = "inserting"
    BY <1>4 DEF Supersede, CanSupersede, SameAsk, AskType
  <2> QED
    BY <1>4, <2>1, <2>2 DEF Supersede, Goes
<1>5. CASE Insert(r)
  <2>1. /\ SameAsk(r) /\ asks[r].pc = "inserting" /\ asks'[r].pc = "sending"
        /\ clock' = clock /\ \A q \in Requests \ {r} : asks'[q] = asks[q]
    BY <1>5 DEF Insert, SameAsk, AskType
  <2>2. CASE asks[r].kind = "login"
    <3>1. /\ rows'[r] = Row(r, stamps, clock) /\ stamps' = stamps + 1
          /\ \A q \in Requests \ {r} : rows'[q] = rows[q]
      BY <1>5, <2>2 DEF Insert
    <3>2. Written(r, stamps, clock)
      BY <3>1 DEF Written, Row
    <3>3. \A q \in Requests \ {r} : RowKept(q)
      BY <3>1 DEF RowKept
    <3> QED
      BY <2>1, <2>2, <3>1, <3>2, <3>3 DEF Inserts
  <2>3. CASE asks[r].kind = "change"
    BY <1>5, <2>1, <2>3, SameRows DEF Insert, Goes
  <2> QED
    BY <2>2, <2>3 DEF AskType
<1>6. CASE CommitChange(r)
  <2>1. /\ SameAsk(r) /\ asks[r].pc = "committing" /\ asks'[r].pc = "sent"
        /\ asks[r].kind = "change" /\ clock' = clock /\ stamps' = stamps
        /\ \A q \in Requests \ {r} : asks'[q] = asks[q]
    BY <1>6 DEF CommitChange, SameAsk, AskType, PlaceInv
  <2>2. /\ rows'[r] = Row(r, asks[r].stamp, asks[r].now)
        /\ \A q \in Requests \ {r} : rows'[q] = Spent(held[r])[q]
    BY <1>6, SpentType DEF CommitChange
  <2>3. Written(r, asks[r].stamp, asks[r].now)
    BY <2>2 DEF Written, Row
  <2>4. \A q \in Requests \ {r} : RowKept(q)
    <3>1. held[r] \subseteq Inserted
      BY DEF SpentInserted
    <3> QED
      BY <2>2, <3>1, SpentRow
  <2> QED
    BY <2>1, <2>3, <2>4 DEF Commits
<1>7. CASE Undo(r)
  <2>1. r \in Inserted
    BY <1>7 DEF Undo, PlaceInv, Inserted
  <2>2. \A q \in Requests : RowKept(q)
    BY <1>7, <2>1, SpentKept DEF Undo
  <2>3. Alone(r) /\ SameAsk(r) /\ stamps' = stamps
    BY <1>7, <2>2 DEF Undo, SameAsk, AskType
  <2>4. asks[r].pc = "undoing" /\ asks'[r].pc = "failed"
    BY <1>7 DEF Undo, AskType
  <2> QED
    BY <2>2, <2>3, <2>4 DEF Goes, AskEnds
<1>8. CASE AskFails(r)
  <2>1. Alone(r) /\ RowKept(r) /\ SameAsk(r) /\ stamps' = stamps
    BY <1>8, SameRows DEF AskFails, SameAsk, AskType
  <2> QED
    BY <1>8, <2>1 DEF AskFails, Goes, AskEnds, Busy, AskType
<1> QED
  BY <1>1, <1>2, <1>3, <1>4, <1>5, <1>6, <1>7, <1>8 DEF AskStep

(* A verification moves no request.                                          *)
LEMMA TryQuiet ==
  ASSUME TypeInv, SpentInv, NEW v \in Verifications,
         \/ \E kind \in {"login", "change"}, code \in {{}} \cup {{r} : r \in sent} :
              Look(v, kind, code)
         \/ TryStep(v) \/ TryFails(v)
  PROVE  Quiet
<1>1. asks' = asks /\ clock' = clock /\ stamps' = stamps
  <2>1. CASE \/ \E kind \in {"login", "change"}, code \in {{}} \cup {{r} : r \in sent} :
                  Look(v, kind, code)
             \/ TryFails(v)
    BY <2>1 DEF Look, TryFails
  <2>2. CASE TryStep(v)
    BY <2>2 DEF TryStep, Miss, Consume, Resolve, Claim, Enrol, Grant
  <2> QED
    BY <2>1, <2>2, SMTT(30)
<1>2. rows' = rows \/ rows' = Spent(held[v])
  <2>1. CASE \/ \E kind \in {"login", "change"}, code \in {{}} \cup {{r} : r \in sent} :
                  Look(v, kind, code)
             \/ TryFails(v)
    BY <2>1 DEF Look, TryFails, RolledBack
  <2>2. CASE TryStep(v)
    BY <2>2 DEF TryStep, Miss, Consume, Resolve, Claim, Enrol, Grant, RolledBack
  <2> QED
    BY <2>1, <2>2, SMTT(30)
<1>3. held[v] \subseteq Inserted
  BY DEF SpentInv, SpentInserted, Handlers
<1>4. \A q \in Requests : RowKept(q)
  BY <1>2, <1>3, SpentKept, SameRows
<1>5. clock <= clock
  BY LoginAssumption DEF TypeInv, OtherType
<1> QED
  BY <1>1, <1>4, <1>5 DEF Quiet

LEMMA NextMoves ==
  ASSUME TypeInv, SpentInv, PlaceInv, [Next]_vars
  PROVE  \/ Quiet
         \/ \E r \in Requests :
              Alone(r) /\ (Opens(r) \/ Counts(r) \/ Goes(r) \/ Inserts(r) \/ Commits(r))
<1>1. CASE (\E u \in Users : Block(u) \/ MoveOn(u)) \/ Tick \/ UNCHANGED vars
  <2>1. asks' = asks /\ rows' = rows /\ stamps' = stamps
    BY <1>1 DEF Block, MoveOn, Tick, vars
  <2>2. clock <= clock'
    BY <1>1, LoginAssumption DEF Block, MoveOn, Tick, vars, TypeInv, OtherType
  <2> QED
    BY <2>1, <2>2, SameRows DEF Quiet
<1> QED
  BY <1>1, RequestMoves, TryQuiet DEF Next

LEMMA NextPlace == TypeInv /\ SpentInv /\ PlaceInv /\ [Next]_vars => PlaceInv'
<1> SUFFICES ASSUME TypeInv, SpentInv, PlaceInv, [Next]_vars PROVE PlaceInv'
  OBVIOUS
<1>1. CASE Quiet
  BY <1>1 DEF Quiet, PlaceInv, RowKept
<1>2. ASSUME NEW r \in Requests, Alone(r),
             Opens(r) \/ Counts(r) \/ Goes(r) \/ Inserts(r) \/ Commits(r)
      PROVE  PlaceInv'
  <2>1. /\ asks'[r].pc = "committing" => asks'[r].kind = "change"
        /\ asks'[r].pc = "sending" /\ asks'[r].kind = "login" => rows'[r].state # "none"
        /\ asks'[r].pc = "undoing" => rows'[r].state # "none"
    BY <1>2 DEF Opens, Counts, Goes, Inserts, Commits, AskEnds, SameAsk, Written,
                RowKept, PlaceInv
  <2> QED
    BY <1>2, <2>1 DEF Alone, PlaceInv, RowKept
<1> QED
  BY <1>1, <1>2, NextMoves

-----------------------------------------------------------------------------
(* How many rows a window holds.                                             *)

(* A request that has passed the count may still write a row of the window    *)
(* from t on: a login while the clock is within it, a change of number if its *)
(* transaction began within it.                                              *)
MayLand(r, t) ==
  \/ /\ asks[r].kind = "login" /\ clock <= t + Window
     /\ asks[r].pc \in {"hashing", "superseding", "inserting"}
  \/ /\ asks[r].kind = "change" /\ asks[r].now \in t .. t + Window
     /\ asks[r].pc \in {"hashing", "superseding", "inserting", "sending",
                        "committing"}

Landed(t)  == {r \in Inserted : rows[r].made \in t .. t + Window}
Counted(t) == Landed(t) \cup {r \in Requests : MayLand(r, t)}

(* Requests that passed the count together with the rows they add to are no  *)
(* more than the limit and the other requests in progress.                   *)
WindowInv ==
  /\ \A r \in Requests : asks[r].now <= clock
  /\ Cardinality(Busy) <= MaxConcurrent
  /\ \A t \in Nat : Cardinality(Counted(t)) <= MaxPerWindow + MaxConcurrent - 1

LEMMA FewRequests ==
  ASSUME NEW S \in SUBSET Requests, NEW T \in SUBSET Requests
  PROVE  /\ IsFiniteSet(S) /\ Cardinality(S) \in Nat
         /\ Cardinality(S \cup T) <= Cardinality(S) + Cardinality(T)
         /\ S \subseteq T => Cardinality(S) <= Cardinality(T)
<1>1. IsFiniteSet(S) /\ IsFiniteSet(T)
  BY LoginAssumption, FS_Subset
<1>2. /\ Cardinality(S) \in Nat /\ Cardinality(T) \in Nat
      /\ Cardinality(S \cap T) \in Nat
  BY <1>1, FS_CardinalityType, FS_Intersection
<1>3. Cardinality(S \cup T) = Cardinality(S) + Cardinality(T) - Cardinality(S \cap T)
  BY <1>1, FS_Union
<1>4. S \subseteq T => Cardinality(S) <= Cardinality(T)
  BY <1>1, FS_Subset
<1> QED
  BY <1>1, <1>2, <1>3, <1>4

LEMMA Limits == MaxPerWindow + MaxConcurrent - 1 \in Nat
BY LoginAssumption

LEMMA InitWindow == Init => WindowInv
<1> SUFFICES ASSUME Init PROVE WindowInv
  OBVIOUS
<1>1. Busy = {} /\ \A t \in Nat : Counted(t) = {}
  BY DEF Init, Busy, Counted, Landed, MayLand, Inserted, NoRow, NoAsk
<1>2. Cardinality({}) = 0
  BY FS_EmptySet
<1>3. \A r \in Requests : asks[r].now <= clock
  BY DEF Init, NoAsk
<1>4. Cardinality(Busy) <= MaxConcurrent
  BY <1>1, <1>2, LoginAssumption
<1>5. \A t \in Nat : Cardinality(Counted(t)) <= MaxPerWindow + MaxConcurrent - 1
  <2> TAKE t \in Nat
  <2>1. Cardinality(Counted(t)) = 0
    BY <1>1, <1>2
  <2> QED
    BY <2>1, Limits
<1> QED
  BY <1>3, <1>4, <1>5 DEF WindowInv

(* What one request does to the set that is counted: only Count adds to it.  *)
LEMMA CountedShrinks ==
  ASSUME TypeInv, SpentInv, WindowInv, NEW t \in Nat, NEW q \in Requests,
         \/ clock <= clock' /\ asks'[q] = asks[q] /\ RowKept(q)
         \/ clock' = clock /\ (Opens(q) \/ Goes(q) \/ Inserts(q) \/ Commits(q)),
         clock' \in Nat, q \in Counted(t)'
  PROVE  q \in Counted(t)
<1> clock \in Nat /\ Window \in Nat
  BY LoginAssumption DEF TypeInv, OtherType
<1> USE DEF Counted, Landed, Inserted
<1>1. CASE clock <= clock' /\ asks'[q] = asks[q] /\ RowKept(q)
  BY <1>1 DEF RowKept, MayLand
<1>2. CASE Opens(q)
  BY <1>2 DEF Opens, RowKept, MayLand
<1>3. CASE clock' = clock /\ Goes(q)
  BY <1>3 DEF Goes, SameAsk, RowKept, MayLand, AskEnds
<1>4. CASE clock' = clock /\ Inserts(q)
  BY <1>4 DEF Inserts, SameAsk, Written, MayLand
<1>5. CASE clock' = clock /\ Commits(q)
  BY <1>5 DEF Commits, SameAsk, Written, MayLand
<1> QED
  BY <1>1, <1>2, <1>3, <1>4, <1>5

(* Count lets a request through only if the rows of its window, and so those *)
(* of every window it may still land in, leave room.                         *)
LEMMA CountedAdmits ==
  ASSUME TypeInv, WindowInv, NEW r \in Requests, Alone(r), Counts(r), NEW t \in Nat,
         r \in Counted(t)', Cardinality(Busy') <= MaxConcurrent
  PROVE  Cardinality(Counted(t)') <= MaxPerWindow + MaxConcurrent - 1
<1> clock \in Nat /\ Window \in Nat /\ rows \in [Requests -> RowType] /\ asks[r].now \in Nat
  BY LoginAssumption DEF TypeInv, OtherType, RowsType, AsksType, AskType
<1>1. CASE r \in Landed(t)'
  <2>1. r \in Landed(t)
    BY <1>1 DEF Landed, Inserted, Counts, RowKept
  <2>2. Counted(t)' \subseteq Counted(t)
    BY <2>1 DEF Counted, Landed, Inserted, MayLand, Alone, RowKept
  <2>3. /\ Cardinality(Counted(t)') <= Cardinality(Counted(t))
        /\ Cardinality(Counted(t)') \in Nat /\ Cardinality(Counted(t)) \in Nat
    BY <2>2, FewRequests DEF Counted, Landed, Inserted
  <2> QED
    BY <2>3, Limits DEF WindowInv
<1>2. CASE MayLand(r, t)'
  <2>1. asks[r].now <= t + Window
    BY <1>2 DEF MayLand, Counts, SameAsk, Alone, WindowInv
  <2>2. Landed(t) \subseteq InWindow(r)
    BY <2>1 DEF Landed, InWindow, Inserted, RowType
  <2>3. Cardinality(Landed(t)) < MaxPerWindow
    <3>1. ~(Cardinality(InWindow(r)) >= MaxPerWindow)
      BY DEF Counts, LimitReached
    <3>2. InWindow(r) \subseteq Requests /\ Landed(t) \subseteq Requests
      BY DEF InWindow, Landed, Inserted
    <3>3. /\ Cardinality(Landed(t)) <= Cardinality(InWindow(r))
          /\ Cardinality(Landed(t)) \in Nat /\ Cardinality(InWindow(r)) \in Nat
      BY <2>2, <3>2, FewRequests
    <3> QED
      BY <3>1, <3>3, LoginAssumption
  <2>4. Counted(t)' \subseteq Landed(t) \cup Busy'
    <3>1. {q \in Requests : MayLand(q, t)}' \subseteq Busy'
      BY DEF MayLand, Busy, AskEnds
    <3>2. Landed(t)' \subseteq Landed(t)
      BY DEF Landed, Inserted, Counts, Alone, RowKept
    <3> QED
      BY <3>1, <3>2 DEF Counted
  <2>5. /\ Cardinality(Landed(t) \cup Busy') <= Cardinality(Landed(t)) + Cardinality(Busy')
        /\ Cardinality(Landed(t)) \in Nat /\ Cardinality(Busy') \in Nat
        /\ Cardinality(Counted(t)') <= Cardinality(Landed(t) \cup Busy')
        /\ Cardinality(Counted(t)') \in Nat /\ Cardinality(Landed(t) \cup Busy') \in Nat
    <3>1. /\ Landed(t) \subseteq Requests /\ Busy' \subseteq Requests
          /\ Counted(t)' \subseteq Requests /\ Landed(t) \cup Busy' \subseteq Requests
      BY DEF Landed, Busy, Counted, Inserted
    <3> HIDE DEF Landed, Busy, Counted
    <3> QED
      BY <2>4, <3>1, FewRequests
  <2> QED
    BY <2>3, <2>5, LoginAssumption
<1> QED
  BY <1>1, <1>2 DEF Counted

(* At most MaxConcurrent requests are in progress.                           *)
LEMMA BusyMoves ==
  ASSUME TypeInv, WindowInv, NEW r \in Requests, Alone(r),
         Opens(r) \/ Counts(r) \/ Goes(r) \/ Inserts(r) \/ Commits(r)
  PROVE  Cardinality(Busy') <= MaxConcurrent
<1>1. CASE Opens(r)
  <2>1. Busy' \subseteq Busy \cup {r} /\ Busy \cup {r} \subseteq Requests
    BY DEF Busy, Alone
  <2>2. IsFiniteSet(Busy) /\ Cardinality(Busy) \in Nat /\ Cardinality(Busy \cup {r}) \in Nat
    BY <2>1, FewRequests
  <2>3. Cardinality(Busy \cup {r}) <= Cardinality(Busy) + 1
    BY <2>2, FS_AddElement
  <2>4. Cardinality(Busy') <= Cardinality(Busy \cup {r}) /\ Cardinality(Busy') \in Nat
    BY <2>1, FewRequests
  <2> QED
    BY <1>1, <2>2, <2>3, <2>4, LoginAssumption DEF Opens
<1>2. CASE Counts(r) \/ Goes(r) \/ Inserts(r) \/ Commits(r)
  <2>1. Busy' \subseteq Busy
    BY <1>2 DEF Busy, Alone, Counts, Goes, Inserts, Commits, AskEnds
  <2>2. Cardinality(Busy') <= Cardinality(Busy)
        /\ Cardinality(Busy') \in Nat /\ Cardinality(Busy) \in Nat
    BY <2>1, FewRequests DEF Busy
  <2> QED
    BY <2>2, LoginAssumption DEF WindowInv
<1> QED
  BY <1>1, <1>2

LEMMA NextWindow == TypeInv /\ SpentInv /\ PlaceInv /\ WindowInv /\ [Next]_vars => WindowInv'
<1> SUFFICES ASSUME TypeInv, SpentInv, PlaceInv, WindowInv, [Next]_vars PROVE WindowInv'
  OBVIOUS
<1> clock \in Nat /\ clock' \in Nat /\ asks \in [Requests -> AskType]
  BY NextType, LoginAssumption DEF TypeInv, OtherType, AsksType
<1>1. ASSUME NEW t \in Nat, Counted(t)' \subseteq Counted(t)
      PROVE  Cardinality(Counted(t)') <= MaxPerWindow + MaxConcurrent - 1
  <2>1. /\ Cardinality(Counted(t)') <= Cardinality(Counted(t))
        /\ Cardinality(Counted(t)') \in Nat /\ Cardinality(Counted(t)) \in Nat
    BY <1>1, FewRequests DEF Counted, Landed, Inserted
  <2> QED
    BY <2>1, LoginAssumption DEF WindowInv
<1>2. CASE Quiet
  <2>1. Busy' = Busy
    BY <1>2 DEF Quiet, Busy
  <2>2. \A r \in Requests : asks'[r].now <= clock'
    BY <1>2 DEF Quiet, WindowInv, AskType
  <2>3. \A t \in Nat : Counted(t)' \subseteq Counted(t)
    <3> SUFFICES ASSUME NEW t \in Nat, NEW q \in Counted(t)' PROVE q \in Counted(t)
      OBVIOUS
    <3>1. q \in Requests
      BY DEF Counted, Landed, Inserted
    <3> QED
      BY <1>2, <3>1, CountedShrinks DEF Quiet
  <2> QED
    BY <1>1, <2>1, <2>2, <2>3 DEF WindowInv
<1>3. ASSUME NEW r \in Requests, Alone(r),
             Opens(r) \/ Counts(r) \/ Goes(r) \/ Inserts(r) \/ Commits(r)
      PROVE  WindowInv'
  <2>1. Cardinality(Busy') <= MaxConcurrent
    BY <1>3, BusyMoves
  <2>2. \A q \in Requests : asks'[q].now <= clock'
    BY <1>3 DEF Alone, Opens, Counts, Goes, Inserts, Commits, SameAsk, WindowInv
  <2>3. ASSUME NEW t \in Nat
        PROVE  Cardinality(Counted(t)') <= MaxPerWindow + MaxConcurrent - 1
    <3>1. ASSUME NEW q \in Counted(t)', q # r \/ ~Counts(r) PROVE q \in Counted(t)
      <4>1. q \in Requests
        BY <3>1 DEF Counted, Landed, Inserted
      <4> QED
        BY <1>3, <3>1, <4>1, CountedShrinks DEF Alone
    <3>2. CASE Counts(r) /\ r \in Counted(t)'
      BY <1>3, <2>1, <3>2, CountedAdmits
    <3>3. CASE ~(Counts(r) /\ r \in Counted(t)')
      BY <1>1, <3>1, <3>3
    <3> QED
      BY <3>2, <3>3
  <2> QED
    BY <2>1, <2>2, <2>3 DEF WindowInv
<1> QED
  BY <1>2, <1>3, NextMoves

(* A bounded number of challenges is written in any stretch of time as long  *)
(* as the window, however the requests interleave.                           *)
THEOREM SendsBoundedAlways == Spec => []SendsBounded
<1>1. WindowInv => SendsBounded
  <2> SUFFICES ASSUME WindowInv, NEW t \in 0 .. MaxTime
      PROVE  Cardinality(Landed(t)) <= MaxPerWindow + MaxConcurrent - 1
    BY DEF SendsBounded, Landed
  <2>1. t \in Nat
    BY LoginAssumption
  <2>2. /\ Cardinality(Landed(t)) <= Cardinality(Counted(t))
        /\ Cardinality(Landed(t)) \in Nat /\ Cardinality(Counted(t)) \in Nat
    <3>1. Landed(t) \subseteq Counted(t) /\ Counted(t) \subseteq Requests
      BY DEF Counted, Landed, Inserted
    <3> QED
      BY <3>1, FewRequests
  <2>3. Cardinality(Counted(t)) <= MaxPerWindow + MaxConcurrent - 1
    BY <2>1 DEF WindowInv
  <2> QED
    BY <2>2, <2>3, LoginAssumption
<1>2. Init => TypeInv /\ SpentInv /\ PlaceInv /\ WindowInv
  BY InitType, InitSpent, InitPlace, InitWindow
<1>3. /\ TypeInv /\ SpentInv /\ PlaceInv /\ WindowInv /\ [Next]_vars
      => (TypeInv /\ SpentInv /\ PlaceInv /\ WindowInv)'
  BY NextType, NextSpent, NextPlace, NextWindow
<1> QED
  BY <1>1, <1>2, <1>3, PTL DEF Spec

-----------------------------------------------------------------------------
(* Every challenge in time is among the recent ones.                         *)

(* A change of number has been given its created_at and may still commit it. *)
Begun(r) ==
  /\ asks[r].kind = "change"
  /\ asks[r].pc \in {"counting", "hashing", "superseding", "inserting", "sending",
                     "committing"}

Stamped    == {r \in Requests : rows[r].state # "none" \/ Begun(r)}
StampOf(r) == IF rows[r].state # "none" THEN rows[r].stamp ELSE asks[r].stamp
TimeOf(r)  == IF rows[r].state # "none" THEN rows[r].made ELSE asks[r].now

(* The order of the stamps is the order of the times, also of rows that are  *)
(* not committed yet; a challenge lives for Ttl.                             *)
StampInv ==
  /\ \A r \in Stamped : StampOf(r) < stamps /\ TimeOf(r) <= clock
  /\ \A r, q \in Stamped : StampOf(r) < StampOf(q) => TimeOf(r) <= TimeOf(q)
  /\ \A r \in Inserted : rows[r].until <= rows[r].made + Ttl

LEMMA InitStamp == Init => StampInv
BY DEF Init, StampInv, Stamped, Begun, Inserted, NoRow, NoAsk

LEMMA StampTyped ==
  ASSUME TypeInv, NEW r \in Requests
  PROVE  StampOf(r) \in Nat /\ TimeOf(r) \in Nat
BY DEF TypeInv, RowsType, RowType, AsksType, AskType, StampOf, TimeOf

(* A request whose row is kept and that begins nothing keeps its stamp.       *)
LEMMA StampKept ==
  ASSUME NEW q \in Requests, RowKept(q), SameAsk(q), Begun(q)' => Begun(q),
         q \in Stamped'
  PROVE  q \in Stamped /\ StampOf(q)' = StampOf(q) /\ TimeOf(q)' = TimeOf(q)
BY DEF RowKept, SameAsk, Stamped, StampOf, TimeOf

(* A stamp is given with the clock's time, or moves with its time from the   *)
(* request to the row.                                                       *)
LEMMA StampGiven ==
  ASSUME TypeInv, SpentInv, NEW r \in Requests,
         Opens(r) \/ Counts(r) \/ Goes(r) \/ Inserts(r) \/ Commits(r),
         r \in Stamped'
  PROVE  \/ r \in Stamped /\ StampOf(r)' = StampOf(r) /\ TimeOf(r)' = TimeOf(r)
         \/ StampOf(r)' = stamps /\ TimeOf(r)' = clock /\ stamps' = stamps + 1
<1>1. CASE Opens(r)
  <2>1. rows[r].state = "none"
    BY <1>1 DEF Opens, SpentInv, RowsOfTheirRequest
  <2> QED
    BY <1>1, <2>1 DEF Opens, RowKept, Stamped, Begun, StampOf, TimeOf
<1>2. CASE Counts(r) \/ Goes(r)
  <2>1. SameAsk(r) /\ RowKept(r)
    BY <1>2 DEF Counts, Goes
  <2>2. Begun(r)' => Begun(r)
    BY <1>2 DEF Counts, Goes, SameAsk, Begun, AskEnds
  <2> QED
    BY <2>1, <2>2, StampKept
<1>3. CASE Inserts(r)
  BY <1>3 DEF Inserts, Written, StampOf, TimeOf
<1>4. CASE Commits(r)
  <2>1. rows[r].state = "none"
    BY <1>4 DEF Commits, SpentInv, RowsOfTheirRequest
  <2> QED
    BY <1>4, <2>1 DEF Commits, Written, Stamped, Begun, StampOf, TimeOf
<1> QED
  BY <1>1, <1>2, <1>3, <1>4

LEMMA NextStamp ==
  TypeInv /\ SpentInv /\ PlaceInv /\ WindowInv /\ StampInv /\ [Next]_vars => StampInv'
<1> SUFFICES ASSUME TypeInv, SpentInv, PlaceInv, WindowInv, StampInv, [Next]_vars
    PROVE  StampInv'
  OBVIOUS
<1> clock \in Nat /\ clock' \in Nat /\ stamps \in Nat /\ stamps' \in Nat /\ Ttl \in Nat
  BY NextType, LoginAssumption DEF TypeInv, OtherType, RowsType
<1>1. \A q \in Stamped : StampOf(q) \in Nat /\ TimeOf(q) \in Nat
  BY StampTyped DEF Stamped
<1>2. \A q \in Requests : asks'[q] = asks[q] => SameAsk(q) /\ (Begun(q)' => Begun(q))
  BY DEF SameAsk, Begun
<1>3. CASE Quiet
  <2>1. \A q \in Stamped' : /\ q \in Stamped /\ StampOf(q)' = StampOf(q)
                            /\ TimeOf(q)' = TimeOf(q)
    BY <1>2, <1>3, StampKept DEF Quiet, Stamped
  <2>2. \A q \in Inserted' : rows'[q].until <= rows'[q].made + Ttl
    BY <1>3 DEF Quiet, RowKept, Inserted, StampInv
  <2>3. \A q \in Stamped' : StampOf(q)' < stamps' /\ TimeOf(q)' <= clock'
    BY <1>1, <1>3, <2>1 DEF Quiet, StampInv
  <2>4. \A p, q \in Stamped' : StampOf(p)' < StampOf(q)' => TimeOf(p)' <= TimeOf(q)'
    BY <2>1 DEF StampInv
  <2> QED
    BY <2>2, <2>3, <2>4 DEF StampInv
<1>4. ASSUME NEW r \in Requests, Alone(r),
             Opens(r) \/ Counts(r) \/ Goes(r) \/ Inserts(r) \/ Commits(r)
      PROVE  StampInv'
  <2>1. \A q \in Stamped' :
          \/ q \in Stamped /\ StampOf(q)' = StampOf(q) /\ TimeOf(q)' = TimeOf(q)
          \/ /\ q = r /\ StampOf(q)' = stamps /\ TimeOf(q)' = clock
             /\ stamps' = stamps + 1
    <3>1. ASSUME NEW q \in Stamped', q # r
          PROVE  q \in Stamped /\ StampOf(q)' = StampOf(q) /\ TimeOf(q)' = TimeOf(q)
      BY <1>2, <1>4, <3>1, StampKept DEF Alone, Stamped
    <3> QED
      BY <1>4, <3>1, StampGiven
  <2>2. clock' = clock /\ stamps <= stamps'
    BY <1>4 DEF Alone, Opens, Counts, Goes, Inserts, Commits
  <2>3. \A q \in Stamped' : StampOf(q)' < stamps' /\ TimeOf(q)' <= clock'
    BY <1>1, <2>1, <2>2 DEF StampInv
  <2>4. \A p, q \in Stamped' : StampOf(p)' < StampOf(q)' => TimeOf(p)' <= TimeOf(q)'
    BY <1>1, <2>1, <2>2 DEF StampInv
  <2>5. \A q \in Inserted' : rows'[q].until <= rows'[q].made + Ttl
    <3>1. ASSUME NEW q \in Inserted', RowKept(q) PROVE rows'[q].until <= rows'[q].made + Ttl
      BY <3>1 DEF RowKept, Inserted, StampInv
    <3>2. Inserts(r) \/ Commits(r) => rows'[r].until <= rows'[r].made + Ttl
      <4>1. asks[r].now \in Nat /\ asks[r].now <= clock
        BY DEF TypeInv, AsksType, AskType, WindowInv
      <4> QED
        BY <4>1 DEF Inserts, Commits, Written
    <3> QED
      BY <1>4, <3>1, <3>2 DEF Alone, Opens, Counts, Goes, Inserted
  <2> QED
    BY <2>3, <2>4, <2>5 DEF StampInv
<1> QED
  BY <1>3, <1>4, NextMoves

(* A challenge in time and all the newer ones are rows of one window, so the *)
(* bound on those bounds how many are newer.                                 *)
LEMMA LiveIsRecent ==
  ASSUME TypeInv, WindowInv, StampInv,
         Recent >= MaxPerWindow + MaxConcurrent - 1,
         NEW q \in Requests, Alive(q)
  PROVE  q \in RecentRows
<1> DEFINE t == rows[q].made
<1> q \in Inserted /\ rows \in [Requests -> RowType] /\ clock \in Nat
  BY LoginAssumption DEF Alive, Inserted, TypeInv, RowsType, OtherType
<1>1. t \in Nat /\ rows[q].until <= t + Ttl /\ Ttl <= Window /\ Ttl \in Nat /\ Window \in Nat
  BY LoginAssumption DEF StampInv, RowType
<1>2. Newer(q) \cup {q} \subseteq Landed(t)
  <2> SUFFICES ASSUME NEW r \in Newer(q) \cup {q} PROVE r \in Landed(t)
    OBVIOUS
  <2>1. r \in Inserted /\ rows[r].made \in Nat
    BY DEF Newer, Inserted, RowType
  <2>2. /\ r \in Stamped /\ q \in Stamped
        /\ StampOf(r) = rows[r].stamp /\ StampOf(q) = rows[q].stamp
        /\ TimeOf(r) = rows[r].made /\ TimeOf(q) = t
    BY <2>1 DEF Stamped, StampOf, TimeOf, Inserted
  <2>3. rows[r].made <= clock
    BY <2>2 DEF StampInv
  <2>4. t <= rows[r].made
    <3>1. CASE r = q
      BY <1>1, <3>1
    <3>2. CASE r \in Newer(q)
      <4>1. StampOf(q) < StampOf(r)
        BY <2>1, <2>2, <3>2 DEF Newer, RowType, Inserted
      <4> QED
        BY <2>2, <4>1 DEF StampInv
    <3> QED
      BY <3>1, <3>2
  <2>5. clock < rows[q].until /\ rows[q].until \in Nat
    BY DEF Alive, RowType
  <2>6. rows[r].made <= t + Window
    BY <1>1, <2>1, <2>3, <2>5
  <2> HIDE DEF t
  <2> QED
    BY <1>1, <2>1, <2>4, <2>6 DEF Landed
<1>3. Landed(t) \subseteq Counted(t) /\ Counted(t) \in SUBSET Requests
  BY DEF Counted, Landed, Inserted
<1>4. q \notin Newer(q) /\ Newer(q) \in SUBSET Requests
  BY DEF Newer, Inserted, RowType
<1> HIDE DEF t
<1>5. /\ Cardinality(Newer(q) \cup {q}) = Cardinality(Newer(q)) + 1
      /\ Cardinality(Newer(q)) \in Nat
  BY <1>4, FewRequests, FS_AddElement
<1>6. /\ Cardinality(Newer(q) \cup {q}) <= Cardinality(Counted(t))
      /\ Cardinality(Counted(t)) \in Nat
  BY <1>2, <1>3, <1>4, FewRequests
<1>7. Cardinality(Counted(t)) <= MaxPerWindow + MaxConcurrent - 1
  BY <1>1 DEF WindowInv
<1>8. Cardinality(Newer(q)) < Recent
  BY <1>5, <1>6, <1>7, Limits, LoginAssumption
<1> QED
  BY <1>8 DEF RecentRows

(* A phone login looks at the Recent = 5 newest challenges.  If that is at   *)
(* least what the limit and the concurrent requests let a window hold, it    *)
(* accepts every open challenge in time.                                     *)
THEOREM LiveCodeAcceptedAlways ==
  ASSUME Recent >= MaxPerWindow + MaxConcurrent - 1
  PROVE  Spec => []LiveCodeAccepted
<1> DEFINE AllInv == TypeInv /\ SpentInv /\ PlaceInv /\ WindowInv /\ StampInv
<1>1. AllInv => LiveCodeAccepted
  BY LiveIsRecent DEF LiveCodeAccepted, Candidates
<1>2. Init => AllInv
  BY InitType, InitSpent, InitPlace, InitWindow, InitStamp
<1>3. AllInv /\ [Next]_vars => AllInv'
  BY NextType, NextSpent, NextPlace, NextWindow, NextStamp
<1> QED
  BY <1>1, <1>2, <1>3, PTL DEF Spec
=============================================================================
