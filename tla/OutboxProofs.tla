--------------------------- MODULE OutboxProofs ---------------------------
(***************************************************************************)
(* Proofs about Outbox for any number of rows, poll loops, retries and     *)
(* faults, and whether or not the database accepts the dead-letter UPDATE. *)
(***************************************************************************)
EXTENDS Outbox, FiniteSetTheorems, TLAPS

(* The invariant the safety properties follow from.                         *)

\* A claim's locks, its batch and the row in hand live in their own phases.
PhaseOK ==
  \A w \in Workers :
    /\ locked[w] # {} => pc[w] = "claiming"
    /\ pc[w] \notin InLoop => todo[w] = {}
    /\ pc[w] \notin {"handling"} \cup Settling => inHand[w] = {}
    /\ \A r, s \in inHand[w] : r = s
    /\ inHand[w] \cap todo[w] = {}

\* ClaimsExclusive, said of copies instead of sets of rows.
CopiesExclusive ==
  \A w \in Workers :
    /\ \A r \in Batch(w) : status[r.msg] = "processing"
    /\ \A m \in locked[w] : status[m] = "pending"
    /\ \A v \in Workers \ {w} :
         /\ \A r \in Batch(w), s \in Batch(v) : r.msg # s.msg
         /\ \A m \in locked[w] : m \notin locked[v]

\* No handler has been called for the row's current attempt.
NotTried(m) ==
  /\ retryCount[m] \notin delivered[m]
  /\ \A e \in executions : e.msg = m => e.attempt # retryCount[m]

\* The next attempt of a row nobody has reached yet is fresh.
FreshTry ==
  /\ \A m \in Messages : status[m] \in {"absent", "pending"} => NotTried(m)
  /\ \A w \in Workers : \A r \in todo[w] : NotTried(r.msg)

\* Attempts are numbered by retry_count: none lies ahead of it.
PastTries ==
  /\ \A m \in Messages : \A a \in delivered[m] : a <= retryCount[m]
  /\ \A e \in executions : e.attempt <= retryCount[e.msg]
  /\ \A m \in Messages : status[m] = "absent" => retryCount[m] = 0

\* The handler of the row in hand is running, or has taken effect.
InHandOK ==
  \A w \in Workers : \A r \in inHand[w] :
    /\ pc[w] = "handling" => Execution(w, r) \in executions
    /\ pc[w] = "delivered" => r.retryCount \in delivered[r.msg]

IInv ==
  /\ TypeOK
  /\ PhaseOK
  /\ CopiesExclusive
  /\ SnapshotCurrent
  /\ FreshTry
  /\ PastTries
  /\ InHandOK
  /\ AttemptRunsOnce
  /\ OutcomeJustified

LEMMA InitIInv == ASSUME Init PROVE IInv
BY OutboxAssumption
DEF Init, IInv, TypeOK, PhaseOK, CopiesExclusive, SnapshotCurrent, FreshTry,
    NotTried, PastTries, InHandOK, AttemptRunsOnce, OutcomeJustified, Batch,
    InLoop, Settling, Statuses, Attempts

LEMMA InsertedFinite == ASSUME TypeOK PROVE Cardinality(Inserted) \in Nat
<1>1. Inserted \subseteq Messages
  BY DEF Inserted
<1>2. IsFiniteSet(Inserted)
  BY <1>1, OutboxAssumption, FS_Subset
<1> QED BY <1>2, FS_CardinalityType

LEMMA StrikesType ==
  ASSUME TypeOK, NEW kind, Strikes(kind) PROVE faultsLeft' \in 0 .. FaultBudget
BY OutboxAssumption DEF TypeOK, Strikes

LEMMA CopiesDiffer ==
  ASSUME TypeOK, SnapshotCurrent, NEW w \in Workers,
         NEW r \in Batch(w), NEW s \in Batch(w), r # s
  PROVE  r.msg # s.msg
<1>1. r \in RowCopies /\ s \in RowCopies
  BY DEF TypeOK, Batch
<1>2. r.msg = s.msg => r.retryCount = s.retryCount
  BY DEF SnapshotCurrent
<1>3. /\ r = [msg |-> r.msg, retryCount |-> r.retryCount]
      /\ s = [msg |-> s.msg, retryCount |-> s.retryCount]
  BY <1>1 DEF RowCopies
<1> QED BY <1>2, <1>3

LEMMA ExclusiveCopiesExclusive == ASSUME CopiesExclusive PROVE ClaimsExclusive
BY DEF CopiesExclusive, ClaimsExclusive, Held

(* A row that was in hand and a stage that was not changed keep their handler. *)
LEMMA InHandStays ==
  ASSUME InHandOK, UNCHANGED <<executions, delivered>>,
         \A v \in Workers :
           pc'[v] \in {"handling", "delivered"} =>
             pc'[v] = pc[v] /\ inHand'[v] = inHand[v]
  PROVE  InHandOK'
BY DEF InHandOK, Execution

LEMMA InsertKeeps ==
  ASSUME IInv, NEW m \in Messages, NEW e \in ProducedEvents, Insert(m, e)
  PROVE  IInv'
<1>1. TypeOK'
  BY InsertedFinite DEF IInv, TypeOK, InLoop, Settling, Statuses, Insert,
      loop
<1>2. PhaseOK'
  BY DEF IInv, TypeOK, PhaseOK, InLoop, Settling, Insert, loop
<1>3. CopiesExclusive'
  BY DEF IInv, TypeOK, CopiesExclusive, Batch, Insert, loop
<1>4. SnapshotCurrent'
  BY DEF IInv, TypeOK, SnapshotCurrent, Batch, Insert, loop
<1>5. FreshTry'
  BY DEF IInv, TypeOK, FreshTry, NotTried, Insert, loop
<1>6. PastTries'
  BY DEF IInv, TypeOK, PastTries, Insert, loop
<1>7. InHandOK'
  BY DEF IInv, TypeOK, InHandOK, Execution, Insert, loop
<1>8. AttemptRunsOnce'
  BY DEF IInv, TypeOK, AttemptRunsOnce, Insert, loop
<1>9. OutcomeJustified'
  BY OutboxAssumption DEF IInv, TypeOK, OutcomeJustified, FreshTry,
      NotTried, Insert, loop
<1> QED BY <1>1, <1>2, <1>3, <1>4, <1>5, <1>6, <1>7, <1>8, <1>9 DEF IInv

LEMMA ClaimKeeps ==
  ASSUME IInv, NEW w \in Workers, NEW S, Claim(w, S)
  PROVE  IInv'
<1>1. TypeOK'
  BY DEF IInv, TypeOK, InLoop, Settling, Claim, OldestFirst, Claimable, rows
<1>2. PhaseOK'
  BY DEF IInv, TypeOK, PhaseOK, InLoop, Settling, Claim, OldestFirst,
      Claimable, rows
<1>3. CopiesExclusive'
  BY DEF IInv, TypeOK, CopiesExclusive, Batch, Claim, OldestFirst,
      Claimable, rows
<1>4. SnapshotCurrent'
  BY DEF IInv, TypeOK, SnapshotCurrent, Batch, Claim, OldestFirst,
      Claimable, rows
<1>5. FreshTry'
  BY DEF IInv, TypeOK, FreshTry, NotTried, Claim, OldestFirst, Claimable,
      rows
<1>6. PastTries'
  BY DEF IInv, TypeOK, PastTries, Claim, OldestFirst, Claimable, rows
<1>7. InHandOK'
  BY DEF IInv, TypeOK, InHandOK, Execution, Claim, OldestFirst, Claimable,
      rows
<1>8. AttemptRunsOnce'
  BY DEF IInv, TypeOK, AttemptRunsOnce, Claim, OldestFirst, Claimable, rows
<1>9. OutcomeJustified'
  BY DEF IInv, TypeOK, OutcomeJustified, Claim, OldestFirst, Claimable, rows
<1> QED BY <1>1, <1>2, <1>3, <1>4, <1>5, <1>6, <1>7, <1>8, <1>9 DEF IInv

LEMMA CommitClaimKeeps ==
  ASSUME IInv, NEW w \in Workers, CommitClaim(w)
  PROVE  IInv'
<1>1. TypeOK'
  <2>1. \A m \in locked[w] : retryCount[m] \in Attempts
    BY OutboxAssumption
       DEF IInv, TypeOK, CopiesExclusive, OutcomeJustified, Attempts
  <2>2. {RowCopy(m) : m \in locked[w]} \in SUBSET RowCopies
    BY <2>1 DEF IInv, TypeOK, RowCopy, RowCopies
  <2> QED BY <2>2
    DEF IInv, TypeOK, CommitClaim, ClaimTakesEffect, Statuses, InLoop
<1>2. PhaseOK'
  BY DEF IInv, TypeOK, PhaseOK, InLoop, Settling, CommitClaim,
      ClaimTakesEffect, RowCopy
<1>3. CopiesExclusive'
  <2>1. Batch(w)' = {RowCopy(m) : m \in locked[w]}
    BY DEF IInv, TypeOK, PhaseOK, CommitClaim, Batch, InLoop, Settling
  <2>2. \A v \in Workers \ {w} : Batch(v)' = Batch(v)
    BY DEF IInv, TypeOK, CommitClaim, Batch
  <2>3. \A r \in Batch(w)' : r.msg \in locked[w]
    BY <2>1 DEF RowCopy
  <2>4. \A v \in Workers : \A r \in Batch(v) : r.msg \in Messages
    BY DEF IInv, TypeOK, Batch, RowCopies
  <2>5. \A v \in Workers : \A r \in Batch(v)' : status'[r.msg] = "processing"
    BY <2>2, <2>3, <2>4
       DEF IInv, TypeOK, CopiesExclusive, CommitClaim, ClaimTakesEffect
  <2>6. \A v \in Workers : \A m \in locked'[v] : status'[m] = "pending"
    BY DEF IInv, TypeOK, CopiesExclusive, CommitClaim, ClaimTakesEffect
  <2>7. \A v, u \in Workers : u # v =>
          \A r \in Batch(v)', s \in Batch(u)' : r.msg # s.msg
    BY <2>2, <2>3 DEF IInv, CopiesExclusive
  <2>8. \A v, u \in Workers : u # v =>
          \A m \in locked'[v] : m \notin locked'[u]
    BY DEF IInv, TypeOK, CopiesExclusive, CommitClaim, ClaimTakesEffect
  <2> QED BY <2>5, <2>6, <2>7, <2>8 DEF CopiesExclusive
<1>4. SnapshotCurrent'
  BY DEF IInv, TypeOK, SnapshotCurrent, Batch, PhaseOK, InLoop, Settling,
      CommitClaim, ClaimTakesEffect, RowCopy
<1>5. FreshTry'
  BY DEF IInv, TypeOK, FreshTry, NotTried, CopiesExclusive, CommitClaim,
      ClaimTakesEffect, RowCopy
<1>6. PastTries'
  BY DEF IInv, TypeOK, PastTries, CommitClaim, ClaimTakesEffect, RowCopy
<1>7. InHandOK'
  BY InHandStays DEF IInv, TypeOK, CommitClaim
<1>8. AttemptRunsOnce'
  BY DEF IInv, TypeOK, AttemptRunsOnce, CommitClaim, ClaimTakesEffect,
      RowCopy
<1>9. OutcomeJustified'
  BY DEF IInv, TypeOK, OutcomeJustified, CopiesExclusive, CommitClaim,
      ClaimTakesEffect, RowCopy
<1> QED BY <1>1, <1>2, <1>3, <1>4, <1>5, <1>6, <1>7, <1>8, <1>9 DEF IInv

LEMMA ConnectKeeps ==
  ASSUME IInv, NEW w \in Workers, Connect(w)
  PROVE  IInv'
<1>1. TypeOK'
  BY DEF IInv, TypeOK, InLoop, Settling, Connect, rows
<1>2. PhaseOK'
  BY DEF IInv, TypeOK, PhaseOK, InLoop, Settling, Connect, rows
<1>3. CopiesExclusive'
  BY DEF IInv, TypeOK, CopiesExclusive, Batch, Connect, rows
<1>4. SnapshotCurrent'
  BY DEF IInv, TypeOK, SnapshotCurrent, Batch, Connect, rows
<1>5. FreshTry'
  BY DEF IInv, TypeOK, FreshTry, NotTried, Connect, rows
<1>6. PastTries'
  BY DEF IInv, TypeOK, PastTries, Connect, rows
<1>7. InHandOK'
  BY InHandStays DEF IInv, TypeOK, Connect, rows
<1>8. AttemptRunsOnce'
  BY DEF IInv, TypeOK, AttemptRunsOnce, Connect, rows
<1>9. OutcomeJustified'
  BY DEF IInv, TypeOK, OutcomeJustified, Connect, rows
<1> QED BY <1>1, <1>2, <1>3, <1>4, <1>5, <1>6, <1>7, <1>8, <1>9 DEF IInv

LEMMA StartHandlerKeeps ==
  ASSUME IInv, NEW w \in Workers, NEW r \in todo[w], StartHandler(w, r)
  PROVE  IInv'
<1>1. TypeOK'
  BY DEF IInv, TypeOK, InLoop, Settling, Execution, Executions, RowCopies,
      StartHandler, Take, rows
<1>2. PhaseOK'
  BY DEF IInv, TypeOK, PhaseOK, InLoop, Settling, StartHandler, Take, rows
<1>3. CopiesExclusive'
  BY DEF IInv, TypeOK, CopiesExclusive, Batch, RowCopies, StartHandler,
      Take, rows
<1>4. SnapshotCurrent'
  BY DEF IInv, TypeOK, SnapshotCurrent, Batch, StartHandler, Take, rows
<1>5. FreshTry'
  BY CopiesDiffer DEF IInv, TypeOK, FreshTry, NotTried, SnapshotCurrent,
      CopiesExclusive, Batch, Execution, RowCopies, StartHandler, Take, rows
<1>6. PastTries'
  BY DEF IInv, TypeOK, PastTries, SnapshotCurrent, Batch, Execution,
      RowCopies, Attempts, StartHandler, Take, rows
<1>7. InHandOK'
  BY DEF IInv, TypeOK, InHandOK, Execution, StartHandler, Take, rows
<1>8. AttemptRunsOnce'
  BY DEF IInv, TypeOK, AttemptRunsOnce, FreshTry, NotTried, SnapshotCurrent,
      Batch, Execution, StartHandler, Take, rows
<1>9. OutcomeJustified'
  BY DEF IInv, TypeOK, OutcomeJustified, StartHandler, Take, rows
<1> QED BY <1>1, <1>2, <1>3, <1>4, <1>5, <1>6, <1>7, <1>8, <1>9 DEF IInv

LEMMA RejectUnknownKeeps ==
  ASSUME IInv, NEW w \in Workers, NEW r \in todo[w], RejectUnknown(w, r)
  PROVE  IInv'
<1>1. TypeOK'
  BY DEF IInv, TypeOK, InLoop, Settling, RejectUnknown, Take, rows
<1>2. PhaseOK'
  BY DEF IInv, TypeOK, PhaseOK, InLoop, Settling, RejectUnknown, Take, rows
<1>3. CopiesExclusive'
  BY DEF IInv, TypeOK, CopiesExclusive, Batch, RejectUnknown, Take, rows
<1>4. SnapshotCurrent'
  BY DEF IInv, TypeOK, SnapshotCurrent, Batch, RejectUnknown, Take, rows
<1>5. FreshTry'
  BY DEF IInv, TypeOK, FreshTry, NotTried, RejectUnknown, Take, rows
<1>6. PastTries'
  BY DEF IInv, TypeOK, PastTries, RejectUnknown, Take, rows
<1>7. InHandOK'
  BY InHandStays DEF IInv, TypeOK, RejectUnknown, Take, rows
<1>8. AttemptRunsOnce'
  BY DEF IInv, TypeOK, AttemptRunsOnce, RejectUnknown, Take, rows
<1>9. OutcomeJustified'
  BY DEF IInv, TypeOK, OutcomeJustified, RejectUnknown, Take, rows
<1> QED BY <1>1, <1>2, <1>3, <1>4, <1>5, <1>6, <1>7, <1>8, <1>9 DEF IInv

LEMMA HandlerReturnsKeeps ==
  ASSUME IInv, NEW w \in Workers, NEW r \in inHand[w], HandlerReturns(w, r)
  PROVE  IInv'
<1>1. TypeOK'
  BY DEF IInv, TypeOK, InLoop, Settling, RowCopies, Execution,
      HandlerReturns, TakesEffect, rows
<1>2. PhaseOK'
  BY DEF IInv, TypeOK, PhaseOK, InLoop, Settling, HandlerReturns,
      TakesEffect, rows
<1>3. CopiesExclusive'
  BY DEF IInv, TypeOK, CopiesExclusive, Batch, HandlerReturns, TakesEffect,
      rows
<1>4. SnapshotCurrent'
  BY DEF IInv, TypeOK, SnapshotCurrent, Batch, HandlerReturns, TakesEffect,
      rows
<1>5. FreshTry'
  <2>1. Execution(w, r) \in executions /\ r.retryCount = retryCount[r.msg]
    BY DEF IInv, InHandOK, SnapshotCurrent, Batch, HandlerReturns
  <2>2. \A m \in Messages : NotTried(m) => m # r.msg
    BY <2>1 DEF NotTried, Execution
  <2>3. \A m \in Messages : NotTried(m) => NotTried(m)'
    BY <2>2
       DEF IInv, TypeOK, NotTried, HandlerReturns, TakesEffect, Execution, rows
  <2>4. \A v \in Workers : \A s \in todo[v] : s.msg \in Messages
    BY DEF IInv, TypeOK, RowCopies
  <2> QED BY <2>3, <2>4 DEF IInv, FreshTry, HandlerReturns, rows
<1>6. PastTries'
  BY DEF IInv, TypeOK, PastTries, InHandOK, Execution, HandlerReturns,
      TakesEffect, rows
<1>7. InHandOK'
  <2>1. \A s \in inHand[w] : s.retryCount \in delivered'[s.msg]
    BY DEF IInv, TypeOK, PhaseOK, RowCopies, HandlerReturns, TakesEffect,
           Execution
  <2>2. \A m \in Messages : delivered[m] \subseteq delivered'[m]
    BY DEF IInv, TypeOK, HandlerReturns, TakesEffect
  <2>3. \A v \in Workers \ {w} : \A s \in inHand[v] :
          Execution(v, s) # Execution(w, r) /\ s.msg \in Messages
    BY DEF IInv, TypeOK, Execution, RowCopies
  <2>4. ASSUME NEW v \in Workers, NEW s \in inHand'[v]
        PROVE  /\ pc'[v] = "handling" => Execution(v, s) \in executions'
               /\ pc'[v] = "delivered" => s.retryCount \in delivered'[s.msg]
    <3>1. CASE v = w
      BY <2>1, <2>4, <3>1 DEF IInv, TypeOK, HandlerReturns
    <3>2. CASE v # w
      BY <2>2, <2>3, <2>4, <3>2
         DEF IInv, TypeOK, InHandOK, HandlerReturns, TakesEffect
    <3> QED BY <3>1, <3>2
  <2> QED BY <2>4 DEF InHandOK, Execution
<1>8. AttemptRunsOnce'
  <2>1. /\ Execution(w, r) \in executions
        /\ Execution(w, r).msg = r.msg
        /\ Execution(w, r).attempt = r.retryCount
    BY DEF IInv, InHandOK, HandlerReturns, Execution
  <2>2. \A f \in executions' : f.msg # r.msg \/ f.attempt # r.retryCount
    BY <2>1 DEF IInv, AttemptRunsOnce, HandlerReturns, TakesEffect
  <2> QED BY <2>1, <2>2
    DEF IInv, TypeOK, Executions, AttemptRunsOnce, HandlerReturns, TakesEffect
<1>9. OutcomeJustified'
  BY DEF IInv, TypeOK, OutcomeJustified, HandlerReturns, TakesEffect, rows
<1> QED BY <1>1, <1>2, <1>3, <1>4, <1>5, <1>6, <1>7, <1>8, <1>9 DEF IInv

LEMMA HandlerThrowsKeeps ==
  ASSUME IInv, NEW w \in Workers, NEW r \in inHand[w], HandlerThrows(w, r)
  PROVE  IInv'
<1>1. TypeOK'
  BY DEF IInv, TypeOK, InLoop, Settling, HandlerThrows, rows
<1>2. PhaseOK'
  BY DEF IInv, TypeOK, PhaseOK, InLoop, Settling, HandlerThrows, rows
<1>3. CopiesExclusive'
  BY DEF IInv, TypeOK, CopiesExclusive, Batch, HandlerThrows, rows
<1>4. SnapshotCurrent'
  BY DEF IInv, TypeOK, SnapshotCurrent, Batch, HandlerThrows, rows
<1>5. FreshTry'
  BY DEF IInv, TypeOK, FreshTry, NotTried, HandlerThrows, rows
<1>6. PastTries'
  BY DEF IInv, TypeOK, PastTries, HandlerThrows, rows
<1>7. InHandOK'
  <2>1. \A v \in Workers \ {w} : \A s \in inHand[v] :
          Execution(v, s) # Execution(w, r)
    BY DEF Execution
  <2>2. pc' = [pc EXCEPT ![w] = "failing"]
    BY DEF HandlerThrows
  <2> QED BY <2>1, <2>2 DEF IInv, TypeOK, InHandOK, HandlerThrows, Execution
<1>8. AttemptRunsOnce'
  BY DEF IInv, TypeOK, AttemptRunsOnce, HandlerThrows, rows
<1>9. OutcomeJustified'
  BY DEF IInv, TypeOK, OutcomeJustified, HandlerThrows, rows
<1> QED BY <1>1, <1>2, <1>3, <1>4, <1>5, <1>6, <1>7, <1>8, <1>9 DEF IInv

LEMMA HandlerTimesOutKeeps ==
  ASSUME IInv, NEW w \in Workers, HandlerTimesOut(w)
  PROVE  IInv'
<1>1. TypeOK'
  BY DEF IInv, TypeOK, InLoop, Settling, HandlerTimesOut, rows
<1>2. PhaseOK'
  BY DEF IInv, TypeOK, PhaseOK, InLoop, Settling, HandlerTimesOut, rows
<1>3. CopiesExclusive'
  BY DEF IInv, TypeOK, CopiesExclusive, Batch, HandlerTimesOut, rows
<1>4. SnapshotCurrent'
  BY DEF IInv, TypeOK, SnapshotCurrent, Batch, HandlerTimesOut, rows
<1>5. FreshTry'
  BY DEF IInv, TypeOK, FreshTry, NotTried, HandlerTimesOut, rows
<1>6. PastTries'
  BY DEF IInv, TypeOK, PastTries, HandlerTimesOut, rows
<1>7. InHandOK'
  BY ZenonT(30) DEF IInv, TypeOK, InHandOK, Execution, PhaseOK, Settling,
      HandlerTimesOut, rows
<1>8. AttemptRunsOnce'
  BY DEF IInv, TypeOK, AttemptRunsOnce, HandlerTimesOut, rows
<1>9. OutcomeJustified'
  BY DEF IInv, TypeOK, OutcomeJustified, HandlerTimesOut, rows
<1> QED BY <1>1, <1>2, <1>3, <1>4, <1>5, <1>6, <1>7, <1>8, <1>9 DEF IInv

LEMMA LateReturnKeeps ==
  ASSUME IInv, NEW e \in executions, LateReturn(e)
  PROVE  IInv'
<1>1. TypeOK'
  BY DEF IInv, TypeOK, InLoop, Settling, Executions, LateReturn,
      TakesEffect, rows, loop
<1>2. PhaseOK'
  BY DEF IInv, TypeOK, PhaseOK, InLoop, Settling, LateReturn, TakesEffect,
      rows, loop
<1>3. CopiesExclusive'
  BY DEF IInv, TypeOK, CopiesExclusive, Batch, LateReturn, TakesEffect,
      rows, loop
<1>4. SnapshotCurrent'
  BY DEF IInv, TypeOK, SnapshotCurrent, Batch, LateReturn, TakesEffect,
      rows, loop
<1>5. FreshTry'
  BY DEF IInv, TypeOK, FreshTry, NotTried, LateReturn, TakesEffect, rows,
      loop
<1>6. PastTries'
  BY DEF IInv, TypeOK, PastTries, LateReturn, TakesEffect, rows, loop
<1>7. InHandOK'
  <2>1. \A v \in Workers : \A s \in inHand[v] :
          pc[v] = "handling" => Execution(v, s) # e
    BY DEF LateReturn, Awaited, Execution
  <2>2. \A m \in Messages : delivered[m] \subseteq delivered'[m]
    BY DEF IInv, TypeOK, LateReturn, TakesEffect
  <2>3. \A v \in Workers : \A s \in inHand[v] : s.msg \in Messages
    BY DEF IInv, TypeOK, RowCopies
  <2> QED BY <2>1, <2>2, <2>3
    DEF IInv, InHandOK, LateReturn, TakesEffect, Execution, loop
<1>8. AttemptRunsOnce'
  BY DEF IInv, TypeOK, AttemptRunsOnce, LateReturn, TakesEffect, rows, loop
<1>9. OutcomeJustified'
  BY DEF IInv, TypeOK, OutcomeJustified, LateReturn, TakesEffect, rows, loop
<1> QED BY <1>1, <1>2, <1>3, <1>4, <1>5, <1>6, <1>7, <1>8, <1>9 DEF IInv

LEMMA LateThrowKeeps ==
  ASSUME IInv, NEW e \in executions, LateThrow(e)
  PROVE  IInv'
<1>1. TypeOK'
  BY DEF IInv, TypeOK, InLoop, Settling, LateThrow, rows, loop
<1>2. PhaseOK'
  BY DEF IInv, TypeOK, PhaseOK, InLoop, Settling, LateThrow, rows, loop
<1>3. CopiesExclusive'
  BY DEF IInv, TypeOK, CopiesExclusive, Batch, LateThrow, rows, loop
<1>4. SnapshotCurrent'
  BY DEF IInv, TypeOK, SnapshotCurrent, Batch, LateThrow, rows, loop
<1>5. FreshTry'
  BY DEF IInv, TypeOK, FreshTry, NotTried, LateThrow, rows, loop
<1>6. PastTries'
  BY DEF IInv, TypeOK, PastTries, LateThrow, rows, loop
<1>7. InHandOK'
  <2>1. \A v \in Workers : \A s \in inHand[v] :
          pc[v] = "handling" => Execution(v, s) # e
    BY DEF LateThrow, Awaited, Execution
  <2> QED BY <2>1 DEF IInv, InHandOK, LateThrow, Execution, loop
<1>8. AttemptRunsOnce'
  BY DEF IInv, TypeOK, AttemptRunsOnce, LateThrow, rows, loop
<1>9. OutcomeJustified'
  BY DEF IInv, TypeOK, OutcomeJustified, LateThrow, rows, loop
<1> QED BY <1>1, <1>2, <1>3, <1>4, <1>5, <1>6, <1>7, <1>8, <1>9 DEF IInv

LEMMA SettleDoneKeeps ==
  ASSUME IInv, NEW w \in Workers, NEW r \in inHand[w], SettleDone(w, r)
  PROVE  IInv'
<1>1. TypeOK'
  BY DEF IInv, TypeOK, InLoop, Settling, Statuses, SettleDone, MarkDone,
      NextRow
<1>2. PhaseOK'
  BY DEF IInv, TypeOK, PhaseOK, InLoop, Settling, SettleDone, MarkDone,
      NextRow
<1>3. CopiesExclusive'
  BY CopiesDiffer DEF IInv, TypeOK, CopiesExclusive, Batch, PhaseOK,
      SnapshotCurrent, SettleDone, MarkDone, NextRow
<1>4. SnapshotCurrent'
  BY DEF IInv, TypeOK, SnapshotCurrent, Batch, SettleDone, MarkDone, NextRow
<1>5. FreshTry'
  BY DEF IInv, TypeOK, FreshTry, NotTried, RowCopies, SettleDone, MarkDone,
      NextRow
<1>6. PastTries'
  BY DEF IInv, TypeOK, PastTries, SettleDone, MarkDone, NextRow
<1>7. InHandOK'
  BY InHandStays DEF IInv, TypeOK, SettleDone, NextRow
<1>8. AttemptRunsOnce'
  BY DEF IInv, TypeOK, AttemptRunsOnce, SettleDone, MarkDone, NextRow
<1>9. OutcomeJustified'
  BY DEF IInv, TypeOK, OutcomeJustified, InHandOK, SnapshotCurrent, Batch,
      RowCopies, Attempts, SettleDone, MarkDone, NextRow
<1> QED BY <1>1, <1>2, <1>3, <1>4, <1>5, <1>6, <1>7, <1>8, <1>9 DEF IInv

LEMMA SettleFailureKeeps ==
  ASSUME IInv, NEW w \in Workers, NEW r \in inHand[w], SettleFailure(w, r)
  PROVE  IInv'
<1>1. TypeOK'
  BY OutboxAssumption DEF IInv, TypeOK, InLoop, Settling, Statuses,
      RowCopies, Attempts, SettleFailure, MarkFailure, NextRow, LastTry
<1>2. PhaseOK'
  BY DEF IInv, TypeOK, PhaseOK, InLoop, Settling, SettleFailure,
      MarkFailure, NextRow, LastTry
<1>3. CopiesExclusive'
  BY CopiesDiffer DEF IInv, TypeOK, CopiesExclusive, Batch, PhaseOK,
      SnapshotCurrent, SettleFailure, MarkFailure, NextRow, LastTry
<1>4. SnapshotCurrent'
  BY CopiesDiffer DEF IInv, TypeOK, SnapshotCurrent, Batch, PhaseOK,
      CopiesExclusive, SettleFailure, MarkFailure, NextRow, LastTry
<1>5. FreshTry'
  BY CopiesDiffer DEF IInv, TypeOK, FreshTry, NotTried, PhaseOK,
      CopiesExclusive, SnapshotCurrent, PastTries, RowCopies, Attempts,
      Executions, Batch, SettleFailure, MarkFailure, NextRow, LastTry
<1>6. PastTries'
  BY DEF IInv, TypeOK, PastTries, SnapshotCurrent, Batch, RowCopies,
      Attempts, Executions, SettleFailure, MarkFailure, NextRow, LastTry
<1>7. InHandOK'
  BY DEF IInv, TypeOK, InHandOK, Execution, SettleFailure, NextRow
<1>8. AttemptRunsOnce'
  BY DEF IInv, TypeOK, AttemptRunsOnce, SettleFailure, MarkFailure, NextRow,
      LastTry
<1>9. OutcomeJustified'
  BY OutboxAssumption, SMTT(20) DEF IInv, TypeOK, OutcomeJustified, RowCopies,
      Attempts, SettleFailure, MarkFailure, NextRow, LastTry
<1> QED BY <1>1, <1>2, <1>3, <1>4, <1>5, <1>6, <1>7, <1>8, <1>9 DEF IInv

LEMMA EndBatchKeeps ==
  ASSUME IInv, NEW w \in Workers, EndBatch(w)
  PROVE  IInv'
<1>1. TypeOK'
  BY DEF IInv, TypeOK, InLoop, Settling, EndBatch, rows
<1>2. PhaseOK'
  BY DEF IInv, TypeOK, PhaseOK, InLoop, Settling, EndBatch, rows
<1>3. CopiesExclusive'
  BY DEF IInv, TypeOK, CopiesExclusive, Batch, EndBatch, rows
<1>4. SnapshotCurrent'
  BY DEF IInv, TypeOK, SnapshotCurrent, Batch, EndBatch, rows
<1>5. FreshTry'
  BY DEF IInv, TypeOK, FreshTry, NotTried, EndBatch, rows
<1>6. PastTries'
  BY DEF IInv, TypeOK, PastTries, EndBatch, rows
<1>7. InHandOK'
  BY DEF IInv, TypeOK, InHandOK, Execution, PhaseOK, Settling, EndBatch,
      rows
<1>8. AttemptRunsOnce'
  BY DEF IInv, TypeOK, AttemptRunsOnce, EndBatch, rows
<1>9. OutcomeJustified'
  BY DEF IInv, TypeOK, OutcomeJustified, EndBatch, rows
<1> QED BY <1>1, <1>2, <1>3, <1>4, <1>5, <1>6, <1>7, <1>8, <1>9 DEF IInv

LEMMA StopKeeps ==
  ASSUME IInv, NEW w \in Workers, Stop(w)
  PROVE  IInv'
<1>1. TypeOK'
  BY StrikesType DEF IInv, TypeOK, InLoop, Settling, Stop, rows
<1>2. PhaseOK'
  BY DEF IInv, TypeOK, PhaseOK, InLoop, Settling, Stop, rows
<1>3. CopiesExclusive'
  BY DEF IInv, TypeOK, CopiesExclusive, Batch, Stop, rows
<1>4. SnapshotCurrent'
  BY DEF IInv, TypeOK, SnapshotCurrent, Batch, Stop, rows
<1>5. FreshTry'
  BY DEF IInv, TypeOK, FreshTry, NotTried, Stop, rows
<1>6. PastTries'
  BY DEF IInv, TypeOK, PastTries, Stop, rows
<1>7. InHandOK'
  BY DEF IInv, TypeOK, InHandOK, Execution, Stop, rows
<1>8. AttemptRunsOnce'
  BY DEF IInv, TypeOK, AttemptRunsOnce, Stop, rows
<1>9. OutcomeJustified'
  BY DEF IInv, TypeOK, OutcomeJustified, Stop, rows
<1> QED BY <1>1, <1>2, <1>3, <1>4, <1>5, <1>6, <1>7, <1>8, <1>9 DEF IInv

LEMMA ExitLoopKeeps ==
  ASSUME IInv, NEW w \in Workers, ExitLoop(w)
  PROVE  IInv'
<1>1. TypeOK'
  BY DEF IInv, TypeOK, InLoop, Settling, ExitLoop, RunningElsewhere, rows
<1>2. PhaseOK'
  BY DEF IInv, TypeOK, PhaseOK, InLoop, Settling, ExitLoop,
      RunningElsewhere, rows
<1>3. CopiesExclusive'
  BY DEF IInv, TypeOK, CopiesExclusive, Batch, ExitLoop, RunningElsewhere,
      rows
<1>4. SnapshotCurrent'
  BY DEF IInv, TypeOK, SnapshotCurrent, Batch, ExitLoop, RunningElsewhere,
      rows
<1>5. FreshTry'
  BY DEF IInv, TypeOK, FreshTry, NotTried, ExitLoop, RunningElsewhere, rows
<1>6. PastTries'
  BY DEF IInv, TypeOK, PastTries, ExitLoop, RunningElsewhere, rows
<1>7. InHandOK'
  BY DEF IInv, TypeOK, InHandOK, Execution, ExitLoop, RunningElsewhere, rows
<1>8. AttemptRunsOnce'
  BY DEF IInv, TypeOK, AttemptRunsOnce, ExitLoop, RunningElsewhere, rows
<1>9. OutcomeJustified'
  BY DEF IInv, TypeOK, OutcomeJustified, ExitLoop, RunningElsewhere, rows
<1> QED BY <1>1, <1>2, <1>3, <1>4, <1>5, <1>6, <1>7, <1>8, <1>9 DEF IInv

LEMMA ProcessEndsKeeps ==
  ASSUME IInv, NEW w \in Workers, ProcessEnds(w), faultsLeft' \in 0 .. FaultBudget
  PROVE  IInv'
<1>1. TypeOK'
  BY DEF IInv, TypeOK, InLoop, Settling, ProcessEnds, RunningElsewhere, rows
<1>2. PhaseOK'
  BY DEF IInv, TypeOK, PhaseOK, InLoop, Settling, ProcessEnds,
      RunningElsewhere, rows
<1>3. CopiesExclusive'
  BY DEF IInv, TypeOK, CopiesExclusive, Batch, ProcessEnds,
      RunningElsewhere, rows
<1>4. SnapshotCurrent'
  BY DEF IInv, TypeOK, SnapshotCurrent, Batch, ProcessEnds,
      RunningElsewhere, rows
<1>5. FreshTry'
  BY DEF IInv, TypeOK, FreshTry, NotTried, ProcessEnds, RunningElsewhere,
      rows
<1>6. PastTries'
  BY DEF IInv, TypeOK, PastTries, ProcessEnds, RunningElsewhere, rows
<1>7. InHandOK'
  BY DEF IInv, TypeOK, InHandOK, Execution, ProcessEnds, RunningElsewhere,
      rows
<1>8. AttemptRunsOnce'
  BY DEF IInv, TypeOK, AttemptRunsOnce, ProcessEnds, RunningElsewhere, rows
<1>9. OutcomeJustified'
  BY DEF IInv, TypeOK, OutcomeJustified, ProcessEnds, RunningElsewhere, rows
<1> QED BY <1>1, <1>2, <1>3, <1>4, <1>5, <1>6, <1>7, <1>8, <1>9 DEF IInv

LEMMA RestartKeeps ==
  ASSUME IInv, NEW w \in Workers, Restart(w)
  PROVE  IInv'
<1>1. TypeOK'
  BY DEF IInv, TypeOK, InLoop, Settling, Restart, rows
<1>2. PhaseOK'
  BY DEF IInv, TypeOK, PhaseOK, InLoop, Settling, Restart, rows
<1>3. CopiesExclusive'
  BY DEF IInv, TypeOK, CopiesExclusive, Batch, Restart, rows
<1>4. SnapshotCurrent'
  BY DEF IInv, TypeOK, SnapshotCurrent, Batch, Restart, rows
<1>5. FreshTry'
  BY DEF IInv, TypeOK, FreshTry, NotTried, Restart, rows
<1>6. PastTries'
  BY DEF IInv, TypeOK, PastTries, Restart, rows
<1>7. InHandOK'
  BY DEF IInv, TypeOK, InHandOK, Execution, Restart, rows
<1>8. AttemptRunsOnce'
  BY DEF IInv, TypeOK, AttemptRunsOnce, Restart, rows
<1>9. OutcomeJustified'
  BY DEF IInv, TypeOK, OutcomeJustified, Restart, rows
<1> QED BY <1>1, <1>2, <1>3, <1>4, <1>5, <1>6, <1>7, <1>8, <1>9 DEF IInv

LEMMA ClaimFailsKeeps ==
  ASSUME IInv, NEW w \in Workers, ClaimFails(w)
  PROVE  IInv'
<1>1. TypeOK'
  BY StrikesType DEF IInv, TypeOK, InLoop, Settling, ClaimFails, rows
<1>2. PhaseOK'
  BY DEF IInv, TypeOK, PhaseOK, InLoop, Settling, ClaimFails, rows
<1>3. CopiesExclusive'
  BY DEF IInv, TypeOK, CopiesExclusive, Batch, ClaimFails, rows
<1>4. SnapshotCurrent'
  BY DEF IInv, TypeOK, SnapshotCurrent, Batch, ClaimFails, rows
<1>5. FreshTry'
  BY DEF IInv, TypeOK, FreshTry, NotTried, ClaimFails, rows
<1>6. PastTries'
  BY DEF IInv, TypeOK, PastTries, ClaimFails, rows
<1>7. InHandOK'
  BY DEF IInv, TypeOK, InHandOK, Execution, ClaimFails, rows
<1>8. AttemptRunsOnce'
  BY DEF IInv, TypeOK, AttemptRunsOnce, ClaimFails, rows
<1>9. OutcomeJustified'
  BY DEF IInv, TypeOK, OutcomeJustified, ClaimFails, rows
<1> QED BY <1>1, <1>2, <1>3, <1>4, <1>5, <1>6, <1>7, <1>8, <1>9 DEF IInv

LEMMA ClaimAnswerLostKeeps ==
  ASSUME IInv, NEW w \in Workers, ClaimAnswerLost(w)
  PROVE  IInv'
<1>1. TypeOK'
  BY StrikesType DEF IInv, TypeOK, InLoop, Settling, Statuses,
      OutcomeJustified, ClaimAnswerLost, ClaimTakesEffect
<1>2. PhaseOK'
  BY DEF IInv, TypeOK, PhaseOK, InLoop, Settling, ClaimAnswerLost,
      ClaimTakesEffect
<1>3. CopiesExclusive'
  BY DEF IInv, TypeOK, CopiesExclusive, Batch, PhaseOK, InLoop, Settling,
      RowCopies, ClaimAnswerLost, ClaimTakesEffect
<1>4. SnapshotCurrent'
  BY DEF IInv, TypeOK, SnapshotCurrent, Batch, ClaimAnswerLost,
      ClaimTakesEffect
<1>5. FreshTry'
  BY DEF IInv, TypeOK, FreshTry, NotTried, ClaimAnswerLost, ClaimTakesEffect
<1>6. PastTries'
  BY DEF IInv, TypeOK, PastTries, ClaimAnswerLost, ClaimTakesEffect
<1>7. InHandOK'
  BY InHandStays DEF IInv, TypeOK, ClaimAnswerLost
<1>8. AttemptRunsOnce'
  BY DEF IInv, TypeOK, AttemptRunsOnce, ClaimAnswerLost, ClaimTakesEffect
<1>9. OutcomeJustified'
  BY DEF IInv, TypeOK, OutcomeJustified, CopiesExclusive, ClaimAnswerLost,
      ClaimTakesEffect
<1> QED BY <1>1, <1>2, <1>3, <1>4, <1>5, <1>6, <1>7, <1>8, <1>9 DEF IInv

LEMMA ConnectFailsKeeps ==
  ASSUME IInv, NEW w \in Workers, ConnectFails(w)
  PROVE  IInv'
<1>1. TypeOK'
  BY StrikesType DEF IInv, TypeOK, InLoop, Settling, ConnectFails,
      LeaveBatch
<1>2. PhaseOK'
  BY DEF IInv, TypeOK, PhaseOK, InLoop, Settling, ConnectFails, LeaveBatch
<1>3. CopiesExclusive'
  BY DEF IInv, TypeOK, CopiesExclusive, Batch, ConnectFails, LeaveBatch
<1>4. SnapshotCurrent'
  BY DEF IInv, TypeOK, SnapshotCurrent, Batch, ConnectFails, LeaveBatch
<1>5. FreshTry'
  BY DEF IInv, TypeOK, FreshTry, NotTried, ConnectFails, LeaveBatch
<1>6. PastTries'
  BY DEF IInv, TypeOK, PastTries, ConnectFails, LeaveBatch
<1>7. InHandOK'
  BY DEF IInv, TypeOK, InHandOK, Execution, ConnectFails, LeaveBatch
<1>8. AttemptRunsOnce'
  BY DEF IInv, TypeOK, AttemptRunsOnce, ConnectFails, LeaveBatch
<1>9. OutcomeJustified'
  BY DEF IInv, TypeOK, OutcomeJustified, ConnectFails, LeaveBatch
<1> QED BY <1>1, <1>2, <1>3, <1>4, <1>5, <1>6, <1>7, <1>8, <1>9 DEF IInv

LEMMA DeadLetterRejectedKeeps ==
  ASSUME IInv, NEW w \in Workers, NEW r \in inHand[w], DeadLetterRejected(w, r)
  PROVE  IInv'
<1>1. TypeOK'
  BY DEF IInv, TypeOK, InLoop, Settling, DeadLetterRejected, LeaveBatch
<1>2. PhaseOK'
  BY DEF IInv, TypeOK, PhaseOK, InLoop, Settling, DeadLetterRejected,
      LeaveBatch
<1>3. CopiesExclusive'
  BY DEF IInv, TypeOK, CopiesExclusive, Batch, DeadLetterRejected,
      LeaveBatch
<1>4. SnapshotCurrent'
  BY DEF IInv, TypeOK, SnapshotCurrent, Batch, DeadLetterRejected,
      LeaveBatch
<1>5. FreshTry'
  BY DEF IInv, TypeOK, FreshTry, NotTried, DeadLetterRejected, LeaveBatch
<1>6. PastTries'
  BY DEF IInv, TypeOK, PastTries, DeadLetterRejected, LeaveBatch
<1>7. InHandOK'
  BY DEF IInv, TypeOK, InHandOK, Execution, DeadLetterRejected, LeaveBatch
<1>8. AttemptRunsOnce'
  BY DEF IInv, TypeOK, AttemptRunsOnce, DeadLetterRejected, LeaveBatch
<1>9. OutcomeJustified'
  BY DEF IInv, TypeOK, OutcomeJustified, DeadLetterRejected, LeaveBatch
<1> QED BY <1>1, <1>2, <1>3, <1>4, <1>5, <1>6, <1>7, <1>8, <1>9 DEF IInv

LEMMA DoneFailsKeeps ==
  ASSUME IInv, NEW w \in Workers, DoneFails(w)
  PROVE  IInv'
<1>1. TypeOK'
  BY StrikesType DEF IInv, TypeOK, InLoop, Settling, DoneFails, rows
<1>2. PhaseOK'
  BY DEF IInv, TypeOK, PhaseOK, InLoop, Settling, DoneFails, rows
<1>3. CopiesExclusive'
  BY DEF IInv, TypeOK, CopiesExclusive, Batch, DoneFails, rows
<1>4. SnapshotCurrent'
  BY DEF IInv, TypeOK, SnapshotCurrent, Batch, DoneFails, rows
<1>5. FreshTry'
  BY DEF IInv, TypeOK, FreshTry, NotTried, DoneFails, rows
<1>6. PastTries'
  BY DEF IInv, TypeOK, PastTries, DoneFails, rows
<1>7. InHandOK'
  BY DEF IInv, TypeOK, InHandOK, Execution, Settling, DoneFails, rows
<1>8. AttemptRunsOnce'
  BY DEF IInv, TypeOK, AttemptRunsOnce, DoneFails, rows
<1>9. OutcomeJustified'
  BY DEF IInv, TypeOK, OutcomeJustified, DoneFails, rows
<1> QED BY <1>1, <1>2, <1>3, <1>4, <1>5, <1>6, <1>7, <1>8, <1>9 DEF IInv

LEMMA DoneAnswerLostKeeps ==
  ASSUME IInv, NEW w \in Workers, NEW r \in inHand[w], DoneAnswerLost(w, r)
  PROVE  IInv'
<1>1. TypeOK'
  BY StrikesType DEF IInv, TypeOK, InLoop, Settling, Statuses,
      DoneAnswerLost, MarkDone, LeaveBatch
<1>2. PhaseOK'
  BY DEF IInv, TypeOK, PhaseOK, InLoop, Settling, DoneAnswerLost, MarkDone,
      LeaveBatch
<1>3. CopiesExclusive'
  <2>1. /\ Batch(w)' = {}
        /\ \A v \in Workers \ {w} :
             Batch(v)' = Batch(v) /\ r.msg \notin {s.msg : s \in Batch(v)}
    BY DEF IInv, TypeOK, CopiesExclusive, DoneAnswerLost, LeaveBatch, Batch
  <2>2. \A m \in Messages : m # r.msg => status'[m] = status[m]
    BY DEF IInv, TypeOK, DoneAnswerLost, MarkDone
  <2>3. \A v \in Workers : /\ r.msg \notin locked[v]
                           /\ \A s \in Batch(v) : s.msg \in Messages
    BY DEF IInv, TypeOK, CopiesExclusive, Batch, RowCopies
  <2>4. locked' = locked
    BY DEF DoneAnswerLost, LeaveBatch
  <2> QED BY <2>1, <2>2, <2>3, <2>4 DEF IInv, TypeOK, CopiesExclusive
<1>4. SnapshotCurrent'
  BY DEF IInv, TypeOK, SnapshotCurrent, Batch, DoneAnswerLost, MarkDone,
      LeaveBatch
<1>5. FreshTry'
  BY DEF IInv, TypeOK, FreshTry, NotTried, RowCopies, DoneAnswerLost,
      MarkDone, LeaveBatch
<1>6. PastTries'
  BY DEF IInv, TypeOK, PastTries, DoneAnswerLost, MarkDone, LeaveBatch
<1>7. InHandOK'
  BY InHandStays DEF IInv, TypeOK, DoneAnswerLost, LeaveBatch
<1>8. AttemptRunsOnce'
  BY DEF IInv, TypeOK, AttemptRunsOnce, DoneAnswerLost, MarkDone, LeaveBatch
<1>9. OutcomeJustified'
  BY DEF IInv, TypeOK, OutcomeJustified, InHandOK, SnapshotCurrent, Batch,
      RowCopies, Attempts, DoneAnswerLost, MarkDone, LeaveBatch
<1> QED BY <1>1, <1>2, <1>3, <1>4, <1>5, <1>6, <1>7, <1>8, <1>9 DEF IInv

LEMMA FailureEscapesKeeps ==
  ASSUME IInv, NEW w \in Workers, NEW r \in inHand[w], FailureEscapes(w, r)
  PROVE  IInv'
<1>1. TypeOK'
  BY StrikesType, OutboxAssumption DEF IInv, TypeOK, InLoop, Settling,
      Statuses, RowCopies, Attempts, FailureEscapes, MarkFailure,
      LeaveBatch, LastTry
<1>2. PhaseOK'
  BY DEF IInv, TypeOK, PhaseOK, InLoop, Settling, FailureEscapes,
      MarkFailure, LeaveBatch, LastTry
<1>3. CopiesExclusive'
  <2>1. /\ Batch(w)' = {}
        /\ \A v \in Workers \ {w} :
             Batch(v)' = Batch(v) /\ r.msg \notin {s.msg : s \in Batch(v)}
    BY DEF IInv, TypeOK, CopiesExclusive, FailureEscapes, LeaveBatch, Batch
  <2>2. \A m \in Messages : m # r.msg => status'[m] = status[m]
    BY DEF IInv, TypeOK, FailureEscapes, MarkFailure
  <2>3. \A v \in Workers : /\ r.msg \notin locked[v]
                           /\ \A s \in Batch(v) : s.msg \in Messages
    BY DEF IInv, TypeOK, CopiesExclusive, Batch, RowCopies
  <2>4. locked' = locked
    BY DEF FailureEscapes, LeaveBatch
  <2> QED BY <2>1, <2>2, <2>3, <2>4 DEF IInv, TypeOK, CopiesExclusive
<1>4. SnapshotCurrent'
  <2>1. /\ Batch(w)' = {}
        /\ \A v \in Workers \ {w} :
             Batch(v)' = Batch(v) /\ r.msg \notin {s.msg : s \in Batch(v)}
    BY DEF IInv, TypeOK, CopiesExclusive, FailureEscapes, LeaveBatch, Batch
  <2>2. \A m \in Messages : m # r.msg => retryCount'[m] = retryCount[m]
    BY DEF IInv, TypeOK, FailureEscapes, MarkFailure
  <2>3. \A v \in Workers : \A s \in Batch(v) : s.msg \in Messages
    BY DEF IInv, TypeOK, Batch, RowCopies
  <2> QED BY <2>1, <2>2, <2>3 DEF IInv, SnapshotCurrent
<1>5. FreshTry'
  BY CopiesDiffer DEF IInv, TypeOK, FreshTry, NotTried, PhaseOK,
      CopiesExclusive, SnapshotCurrent, PastTries, RowCopies, Attempts,
      Executions, Batch, FailureEscapes, MarkFailure, LeaveBatch, LastTry
<1>6. PastTries'
  BY DEF IInv, TypeOK, PastTries, SnapshotCurrent, Batch, RowCopies,
      Attempts, Executions, FailureEscapes, MarkFailure, LeaveBatch, LastTry
<1>7. InHandOK'
  BY DEF IInv, TypeOK, InHandOK, Execution, FailureEscapes, LeaveBatch
<1>8. AttemptRunsOnce'
  BY DEF IInv, TypeOK, AttemptRunsOnce, FailureEscapes, MarkFailure,
      LeaveBatch, LastTry
<1>9. OutcomeJustified'
  BY OutboxAssumption DEF IInv, TypeOK, OutcomeJustified, RowCopies,
      Attempts, FailureEscapes, MarkFailure, LeaveBatch, LastTry
<1> QED BY <1>1, <1>2, <1>3, <1>4, <1>5, <1>6, <1>7, <1>8, <1>9 DEF IInv

-----------------------------------------------------------------------------
(* Every step keeps the invariant.                                          *)

LEMMA NextIInv == ASSUME IInv, [Next]_vars PROVE IInv'
<1>1. CASE UNCHANGED vars
  BY <1>1
  DEF vars, IInv, TypeOK, PhaseOK, CopiesExclusive, SnapshotCurrent, FreshTry,
      NotTried, PastTries, InHandOK, AttemptRunsOnce, OutcomeJustified, Batch
<1>2. CASE \E m \in Messages, e \in ProducedEvents : Insert(m, e)
  BY <1>2, InsertKeeps
<1>3. CASE \E e \in executions : LateReturn(e) \/ LateThrow(e)
  BY <1>3, LateReturnKeeps, LateThrowKeeps
<1>4. ASSUME NEW w \in Workers, WorkerStep(w) PROVE IInv'
  BY <1>4, ClaimKeeps, CommitClaimKeeps, ConnectKeeps, StartHandlerKeeps,
     RejectUnknownKeeps, HandlerReturnsKeeps, HandlerThrowsKeeps,
     HandlerTimesOutKeeps, SettleDoneKeeps, SettleFailureKeeps,
     DeadLetterRejectedKeeps, EndBatchKeeps, ExitLoopKeeps
  DEF WorkerStep, HandlerEnds
<1>5. ASSUME NEW w \in Workers, FaultStep(w) PROVE IInv'
  <2>1. CASE Crash(w) \/ ShutdownTimesOut(w)
    <3>1. ProcessEnds(w)
      BY <2>1 DEF Crash, ShutdownTimesOut
    <3>2. faultsLeft' \in 0 .. FaultBudget
      BY <2>1, StrikesType DEF Crash, ShutdownTimesOut, IInv, TypeOK
    <3> QED
      BY <3>1, <3>2, ProcessEndsKeeps
  <2> QED
    BY <1>5, <2>1, StopKeeps, ClaimFailsKeeps, ClaimAnswerLostKeeps,
       ConnectFailsKeeps, DoneFailsKeeps, DoneAnswerLostKeeps,
       FailureEscapesKeeps
    DEF FaultStep
<1> QED BY <1>1, <1>2, <1>3, <1>4, <1>5, RestartKeeps DEF Next

LEMMA AlwaysIInv == Spec => []IInv
BY InitIInv, NextIInv, PTL DEF Spec

(* Every variable keeps its type: in particular no copy of a row, and no    *)
(* handler call, ever carries a retry_count that has reached MaxRetries.    *)
THEOREM TypeCorrect == Spec => []TypeOK
<1>1. IInv => TypeOK
  BY DEF IInv
<1> QED BY <1>1, AlwaysIInv, PTL

(* No two poll loops hold the same row, and a row a loop holds is           *)
(* 'processing', for any number of processes, crashes and errors.           *)
THEOREM ExclusiveClaims == Spec => []ClaimsExclusive
<1>1. IInv => ClaimsExclusive
  BY ExclusiveCopiesExclusive DEF IInv
<1> QED BY <1>1, AlwaysIInv, PTL

(* The retry_count read at the claim is current until the row is settled.   *)
THEOREM SnapshotsCurrent == Spec => []SnapshotCurrent
<1>1. IInv => SnapshotCurrent
  BY DEF IInv
<1> QED BY <1>1, AlwaysIInv, PTL

(* No attempt of a row runs its handler twice.                              *)
THEOREM AttemptsRunOnce == Spec => []AttemptRunsOnce
<1>1. IInv => AttemptRunsOnce
  BY DEF IInv
<1> QED BY <1>1, AlwaysIInv, PTL

(* 'done' follows a handler that took effect; 'failed' follows MaxRetries   *)
(* failures, and nothing else does.                                         *)
THEOREM OutcomesJustified == Spec => []OutcomeJustified
<1>1. IInv => OutcomeJustified
  BY DEF IInv
<1> QED BY <1>1, AlwaysIInv, PTL

-----------------------------------------------------------------------------
(* Outbox implements EventQueue.                                            *)

\* A row in a batch is at a try of its own.
LEMMA HeldIsTaken ==
  ASSUME IInv, NEW w \in Workers, NEW r \in inHand[w]
  PROVE  /\ r.msg \in Messages
         /\ status[r.msg] = "processing"
         /\ r.retryCount = retryCount[r.msg]
         /\ r.retryCount \in Attempts
BY DEF IInv, TypeOK, CopiesExclusive, SnapshotCurrent, Batch, RowCopies

LEMMA EntryValues ==
  /\ Entry("absent") = "none" /\ Entry("pending") = "waiting"
  /\ Entry("processing") = "taken"
  /\ Entry("done") = "done" /\ Entry("failed") = "dead"
BY DEF Entry

LEMMA Unseen ==
  ASSUME UNCHANGED <<status, retryCount, delivered>>
  PROVE  UNCHANGED Queue!vars
BY DEF Queue!vars

LEMMA ClaimIsTake ==
  ASSUME IInv, NEW w \in Workers, ClaimTakesEffect(w),
         UNCHANGED <<retryCount, delivered>>
  PROVE  Queue!Next
<1>1. locked[w] \in SUBSET Messages
  BY DEF IInv, TypeOK
<1>2. \A m \in locked[w] : status[m] = "pending"
  BY DEF IInv, CopiesExclusive
<1>3. Queue!Take(locked[w])
  BY <1>1, <1>2, EntryValues DEF IInv, TypeOK, Queue!Take, ClaimTakesEffect
<1> QED BY <1>1, <1>3 DEF Queue!Next

LEMMA EffectIsDeliver ==
  ASSUME IInv, NEW e \in executions, TakesEffect(e),
         UNCHANGED <<status, retryCount>>
  PROVE  Queue!Next
<1>1. e.msg \in Messages /\ e.attempt \in 0 .. MaxRetries - 1
  BY DEF IInv, TypeOK, Executions, Attempts
<1>2. e.attempt \in 0 .. retryCount[e.msg] /\ e.attempt \in 0 .. MaxRetries
  BY <1>1, OutboxAssumption DEF IInv, TypeOK, PastTries
<1>3. e.attempt \notin delivered[e.msg]
  BY DEF IInv, AttemptRunsOnce
<1>4. e.attempt = retryCount[e.msg] => status[e.msg] = "processing"
  <2>1. ASSUME e.attempt = retryCount[e.msg]
        PROVE  status[e.msg] \notin {"absent", "pending"}
    BY <1>1, <2>1 DEF IInv, FreshTry, NotTried
  <2>2. ASSUME e.attempt = retryCount[e.msg]
        PROVE  status[e.msg] \notin {"done", "failed"}
    BY <1>1, <1>3, <2>2, OutboxAssumption DEF IInv, OutcomeJustified
  <2> QED BY <1>1, <2>1, <2>2 DEF IInv, TypeOK, Statuses
<1>5. status[e.msg] # "absent"
  BY <1>1, <1>2, OutboxAssumption DEF IInv, FreshTry, NotTried, PastTries
<1>6. Queue!Deliver(e.msg, e.attempt)
  BY <1>1, <1>2, <1>3, <1>4, <1>5, EntryValues
  DEF IInv, TypeOK, Statuses, Entry, Queue!Deliver, TakesEffect
<1> QED BY <1>1, <1>2, <1>6 DEF Queue!Next

LEMMA DoneIsComplete ==
  ASSUME IInv, NEW w \in Workers, NEW r \in inHand[w], pc[w] = "delivered",
         MarkDone(r), UNCHANGED <<retryCount, delivered>>
  PROVE  Queue!Next
<1>1. Queue!Complete(r.msg)
  BY HeldIsTaken, EntryValues
  DEF IInv, TypeOK, InHandOK, MarkDone, Queue!Complete
<1> QED BY <1>1, HeldIsTaken DEF Queue!Next

LEMMA FailureIsGiveBackOrBury ==
  ASSUME IInv, NEW w \in Workers, NEW r \in inHand[w],
         MarkFailure(r), UNCHANGED delivered
  PROVE  Queue!Next
<1>1. CASE LastTry(r)
  <2>1. r.retryCount + 1 = MaxRetries
    BY <1>1, HeldIsTaken, OutboxAssumption DEF LastTry, Attempts
  <2>2. /\ status' = [status EXCEPT ![r.msg] = "failed"]
        /\ retryCount' = [retryCount EXCEPT ![r.msg] = MaxRetries]
    BY <1>1, <2>1 DEF MarkFailure
  <2>3. Queue!Bury(r.msg)
    BY <2>1, <2>2, HeldIsTaken, EntryValues DEF IInv, TypeOK, Queue!Bury
  <2> QED BY <2>3, HeldIsTaken DEF Queue!Next
<1>2. CASE ~ LastTry(r)
  <2>1. r.retryCount + 1 < MaxRetries
    BY <1>2, HeldIsTaken, OutboxAssumption DEF LastTry, Attempts
  <2>2. /\ status' = [status EXCEPT ![r.msg] = "pending"]
        /\ retryCount' = [retryCount EXCEPT ![r.msg] = @ + 1]
    BY <1>2, HeldIsTaken DEF MarkFailure
  <2>3. Queue!GiveBack(r.msg)
    BY <2>1, <2>2, HeldIsTaken, EntryValues DEF IInv, TypeOK, Queue!GiveBack
  <2> QED BY <2>3, HeldIsTaken DEF Queue!Next
<1> QED BY <1>1, <1>2

LEMMA WorkerStepRefines ==
  ASSUME IInv, NEW w \in Workers, WorkerStep(w)
  PROVE  [Queue!Next]_(Queue!vars)
<1>1. CASE CommitClaim(w)
  BY <1>1, ClaimIsTake DEF CommitClaim
<1>2. CASE \E r \in inHand[w] : HandlerReturns(w, r)
  BY <1>2, EffectIsDeliver DEF IInv, InHandOK, HandlerReturns, rows
<1>3. CASE \E r \in inHand[w] : SettleDone(w, r)
  BY <1>3, DoneIsComplete DEF SettleDone, NextRow
<1>4. CASE \E r \in inHand[w] : SettleFailure(w, r)
  BY <1>4, FailureIsGiveBackOrBury DEF SettleFailure, NextRow
<1>5. CASE \/ \E S \in SUBSET Messages : Claim(w, S)
           \/ Connect(w)
           \/ \E r \in todo[w] : StartHandler(w, r) \/ RejectUnknown(w, r)
           \/ EndBatch(w) \/ ExitLoop(w)
  BY <1>5, Unseen
  DEF Claim, Connect, StartHandler, RejectUnknown, EndBatch, ExitLoop, rows
<1>6. CASE \E r \in inHand[w] : \/ HandlerThrows(w, r) \/ HandlerTimesOut(w)
                               \/ DeadLetterRejected(w, r)
  BY <1>6, Unseen
  DEF HandlerThrows, HandlerTimesOut, DeadLetterRejected, LeaveBatch, rows
<1> QED
  BY <1>1, <1>2, <1>3, <1>4, <1>5, <1>6 DEF WorkerStep, HandlerEnds

LEMMA FaultStepRefines ==
  ASSUME IInv, NEW w \in Workers, FaultStep(w)
  PROVE  [Queue!Next]_(Queue!vars)
<1>1. CASE ClaimAnswerLost(w)
  BY <1>1, ClaimIsTake DEF ClaimAnswerLost
<1>2. CASE \E r \in inHand[w] : DoneAnswerLost(w, r)
  BY <1>2, DoneIsComplete, Unseen DEF DoneAnswerLost, LeaveBatch
<1>3. CASE \E r \in inHand[w] : FailureEscapes(w, r)
  BY <1>3, FailureIsGiveBackOrBury, Unseen DEF FailureEscapes, LeaveBatch
<1>4. CASE \/ Stop(w) \/ Crash(w) \/ ShutdownTimesOut(w) \/ ClaimFails(w)
           \/ ConnectFails(w) \/ DoneFails(w)
  BY <1>4, Unseen
  DEF Stop, Crash, ShutdownTimesOut, ProcessEnds, ClaimFails, ConnectFails,
      LeaveBatch, DoneFails, rows
<1> QED BY <1>1, <1>2, <1>3, <1>4 DEF FaultStep

LEMMA NextRefines ==
  ASSUME IInv, [Next]_vars
  PROVE  [Queue!Next]_(Queue!vars)
<1>1. CASE UNCHANGED vars
  BY <1>1, Unseen DEF vars
<1>2. ASSUME NEW m \in Messages, NEW e \in ProducedEvents, Insert(m, e)
      PROVE  Queue!Next
  <2>1. Queue!Submit(m)
    BY <1>2, EntryValues DEF IInv, TypeOK, Insert, Queue!Submit
  <2> QED BY <2>1 DEF Queue!Next
<1>3. ASSUME NEW e \in executions, LateReturn(e) \/ LateThrow(e)
      PROVE  [Queue!Next]_(Queue!vars)
  BY <1>3, EffectIsDeliver, Unseen DEF LateReturn, LateThrow, rows
<1>4. ASSUME NEW w \in Workers, Restart(w)
      PROVE  UNCHANGED Queue!vars
  BY <1>4, Unseen DEF Restart, rows
<1> QED
  BY <1>1, <1>2, <1>3, <1>4, WorkerStepRefines, FaultStepRefines DEF Next

(* Whatever the poll loops, the handlers, crashes and the database do, the  *)
(* table behaves as the queue of EventQueue: bounded tries, one delivery at *)
(* most per try, completion only after a delivery.                          *)
THEOREM OutboxImplementsQueue == Spec => ImplementsQueue
<1>1. Init => Queue!Init
  BY DEF Init, Queue!Init, Entry
<1> QED BY <1>1, AlwaysIInv, NextRefines, PTL
        DEF ImplementsQueue, Queue!Spec, Spec

-----------------------------------------------------------------------------
(* What is settled stays.                                                   *)

LEMMA SettledStays ==
  ASSUME IInv, [Next]_vars, NEW m \in Messages, status[m] \in {"done", "failed"}
  PROVE  status'[m] = status[m] /\ retryCount'[m] = retryCount[m]
<1>1. CASE UNCHANGED vars
  BY <1>1 DEF vars
<1>2. CASE \E n \in Messages, e \in ProducedEvents : Insert(n, e)
  BY <1>2 DEF Insert, IInv, TypeOK
<1>3. CASE \E e \in executions : LateReturn(e) \/ LateThrow(e)
  BY <1>3 DEF LateReturn, LateThrow, rows
<1>4. ASSUME NEW w \in Workers, ClaimTakesEffect(w), UNCHANGED retryCount
      PROVE  status'[m] = status[m] /\ retryCount'[m] = retryCount[m]
  BY <1>4 DEF ClaimTakesEffect, IInv, TypeOK, CopiesExclusive
<1>5. ASSUME NEW w \in Workers, NEW r \in inHand[w],
             \/ MarkDone(r) /\ UNCHANGED retryCount
             \/ MarkFailure(r)
      PROVE  status'[m] = status[m] /\ retryCount'[m] = retryCount[m]
  BY <1>5, HeldIsTaken DEF MarkDone, MarkFailure, IInv, TypeOK
<1>6. ASSUME NEW w \in Workers, WorkerStep(w)
      PROVE  status'[m] = status[m] /\ retryCount'[m] = retryCount[m]
  BY <1>4, <1>5, <1>6
  DEF WorkerStep, HandlerEnds, Claim, CommitClaim, Connect, StartHandler,
      RejectUnknown, HandlerReturns, HandlerThrows, HandlerTimesOut,
      SettleDone, SettleFailure, DeadLetterRejected, LeaveBatch, EndBatch,
      ExitLoop, rows
<1>7. ASSUME NEW w \in Workers, FaultStep(w) \/ Restart(w)
      PROVE  status'[m] = status[m] /\ retryCount'[m] = retryCount[m]
  BY <1>4, <1>5, <1>7
  DEF FaultStep, Stop, Crash, ShutdownTimesOut, ProcessEnds, ClaimFails,
      ClaimAnswerLost, ConnectFails, DoneFails, DoneAnswerLost,
      FailureEscapes, LeaveBatch, Restart, rows
<1> QED BY <1>1, <1>2, <1>3, <1>6, <1>7 DEF Next

(* A settled row is never changed again.                                    *)
THEOREM SettledIsFinal == Spec => SettledForGood
<1>1. IInv /\ [Next]_vars =>
        [\A m \in Messages :
           status[m] \in {"done", "failed"} =>
             status'[m] = status[m] /\ retryCount'[m] = retryCount[m]]_vars
  BY SettledStays
<1> QED BY <1>1, AlwaysIInv, PTL DEF Spec, SettledForGood

-----------------------------------------------------------------------------
(* Rows are orphaned by failures only.                                      *)

(* A step that orphans no row: who is 'processing' and in no batch after it *)
(* was so before.                                                           *)
LEMMA NoneOrphaned ==
  ASSUME \A m \in Messages :
           status'[m] = "processing" /\ ~InSomeBatch(m)' =>
             status[m] = "processing" /\ ~InSomeBatch(m)
  PROVE  Orphans' \subseteq Orphans
BY DEF Orphans

(* A step that leaves rows and batches alone orphans none.                  *)
LEMMA BatchesAlone ==
  ASSUME UNCHANGED <<status, todo, inHand>>
  PROVE  Orphans' \subseteq Orphans
BY DEF Orphans, InSomeBatch, Held, Batch

(* A row that is inserted is pending.                                       *)
LEMMA InsertOrphansNone ==
  ASSUME IInv, NEW n \in Messages, NEW e, Insert(n, e)
  PROVE  Orphans' \subseteq Orphans
BY DEF Insert, loop, IInv, TypeOK, Orphans, InSomeBatch, Held, Batch

(* The rows a committed claim marks are those of the batch it returns, and  *)
(* the worker had none before.                                              *)
LEMMA ClaimOrphansNone ==
  ASSUME IInv, NEW w \in Workers, CommitClaim(w)
  PROVE  Orphans' \subseteq Orphans
<1>1. todo[w] = {} /\ inHand[w] = {}
  BY DEF CommitClaim, IInv, PhaseOK, InLoop, Settling
<1>2. todo' = [todo EXCEPT ![w] = {RowCopy(m) : m \in locked[w]}]
      /\ inHand' = inHand
  BY DEF CommitClaim
<1> SUFFICES ASSUME NEW m \in Messages, status'[m] = "processing",
                    ~InSomeBatch(m)'
             PROVE  status[m] = "processing" /\ ~InSomeBatch(m)
  BY NoneOrphaned
<1>3. m \notin locked[w]
  <2> SUFFICES ASSUME m \in locked[w] PROVE FALSE
    OBVIOUS
  <2>1. RowCopy(m) \in todo'[w]
    BY <1>2 DEF IInv, TypeOK
  <2>2. m \in Held(w)'
    BY <2>1 DEF Held, Batch, RowCopy
  <2> QED BY <2>2 DEF InSomeBatch
<1>4. status[m] = "processing"
  BY <1>3 DEF CommitClaim, ClaimTakesEffect
<1>5. \A v \in Workers : m \notin Held(v)
  <2> SUFFICES ASSUME NEW v \in Workers, m \in Held(v) PROVE FALSE
    OBVIOUS
  <2>1. v # w
    BY <1>1 DEF Held, Batch
  <2>2. todo'[v] = todo[v] /\ inHand'[v] = inHand[v]
    BY <1>2, <2>1 DEF IInv, TypeOK
  <2>3. m \in Held(v)'
    BY <2>2 DEF Held, Batch
  <2> QED BY <2>3 DEF InSomeBatch
<1> QED BY <1>4, <1>5 DEF InSomeBatch

(* A row taken in hand stays in the batch.                                  *)
LEMMA TakeOrphansNone ==
  ASSUME IInv, NEW w \in Workers, NEW r, Take(w, r), status' = status
  PROVE  Orphans' \subseteq Orphans
<1>1. todo' = [todo EXCEPT ![w] = @ \ {r}] /\ inHand' = [inHand EXCEPT ![w] = {r}]
  BY DEF Take
<1>2. \A v \in Workers : Batch(v) \subseteq Batch(v)'
  <2> TAKE v \in Workers
  <2>1. CASE v = w
    <3>1. inHand[w] = {}
      BY DEF Take, IInv, PhaseOK, Settling
    <3>2. todo'[w] = todo[w] \ {r} /\ inHand'[w] = {r}
      BY <1>1 DEF IInv, TypeOK
    <3> QED BY <2>1, <3>1, <3>2 DEF Batch
  <2>2. CASE v # w
    BY <1>1, <2>2 DEF Batch, IInv, TypeOK
  <2> QED BY <2>1, <2>2
<1> QED BY <1>2, NoneOrphaned DEF InSomeBatch, Held

(* The row in hand is settled, the rest of the batch stays.                 *)
LEMMA SettleOrphansNone ==
  ASSUME IInv, NEW w \in Workers, NEW r \in inHand[w], NextRow(w),
         MarkDone(r) \/ MarkFailure(r)
  PROVE  Orphans' \subseteq Orphans
<1>1. inHand' = [inHand EXCEPT ![w] = {}] /\ todo' = todo
  BY DEF NextRow
<1>2. inHand[w] = {r} /\ r.msg \in Messages
  BY DEF IInv, TypeOK, PhaseOK, RowCopies
<1>3. status'[r.msg] # "processing"
  BY <1>2 DEF MarkDone, MarkFailure, IInv, TypeOK
<1>4. \A m \in Messages : m # r.msg => status'[m] = status[m]
  BY DEF MarkDone, MarkFailure, IInv, TypeOK
<1> SUFFICES ASSUME NEW m \in Messages, status'[m] = "processing",
                    ~InSomeBatch(m)'
             PROVE  status[m] = "processing" /\ ~InSomeBatch(m)
  BY NoneOrphaned
<1>5. m # r.msg
  BY <1>3
<1>6. \A v \in Workers : m \notin Held(v)
  <2> SUFFICES ASSUME NEW v \in Workers, m \in Held(v) PROVE FALSE
    OBVIOUS
  <2>1. PICK s \in Batch(v) : m = s.msg
    BY DEF Held
  <2>2. s \in Batch(v)'
    BY <1>1, <1>2, <1>5, <2>1 DEF Batch, IInv, TypeOK
  <2>3. m \in Held(v)'
    BY <2>1, <2>2 DEF Held
  <2> QED BY <2>3 DEF InSomeBatch
<1> QED BY <1>4, <1>5, <1>6 DEF InSomeBatch

(* An error of the database or a crash uses up a fault.                     *)
LEMMA StrikesUseUp ==
  ASSUME TypeOK, NEW kind, Strikes(kind)
  PROVE  faultsLeft' < faultsLeft
BY OutboxAssumption DEF TypeOK, Strikes

(* What a step may do about rows nobody will settle.                        *)
OrphaningStep ==
  \/ Orphans' \subseteq Orphans
  \/ faultsLeft' < faultsLeft /\ stopping' = stopping
  \/ \E w \in stopping : ShutdownTimesOut(w)
  \/ \E w \in Workers : \E r \in inHand[w] : DeadLetterRejected(w, r)

(* What the worker does orphans a row only by using up a fault.             *)
LEMMA WorkerOrphans ==
  ASSUME IInv, NEW w \in Workers, WorkerStep(w)
  PROVE  OrphaningStep
<1>1. CASE \E S \in SUBSET Messages : Claim(w, S)
  BY <1>1, BatchesAlone DEF Claim, rows, OrphaningStep
<1>2. CASE CommitClaim(w)
  BY <1>2, ClaimOrphansNone DEF OrphaningStep
<1>3. CASE Connect(w) \/ EndBatch(w) \/ ExitLoop(w)
  BY <1>3, BatchesAlone DEF Connect, EndBatch, ExitLoop, rows, OrphaningStep
<1>4. CASE \E r \in todo[w] : StartHandler(w, r) \/ RejectUnknown(w, r)
  BY <1>4, TakeOrphansNone DEF StartHandler, RejectUnknown, rows, OrphaningStep
<1>5. CASE \E r \in inHand[w] : HandlerEnds(w, r)
  BY <1>5, BatchesAlone
  DEF HandlerEnds, HandlerReturns, HandlerThrows, HandlerTimesOut, rows,
      OrphaningStep
<1>6. CASE \E r \in inHand[w] : SettleDone(w, r) \/ SettleFailure(w, r)
  BY <1>6, SettleOrphansNone DEF SettleDone, SettleFailure, OrphaningStep
<1>7. CASE \E r \in inHand[w] : DeadLetterRejected(w, r)
  BY <1>7 DEF OrphaningStep
<1> QED BY <1>1, <1>2, <1>3, <1>4, <1>5, <1>6, <1>7 DEF WorkerStep

(* What fails around it does so as well.                                    *)
LEMMA FaultOrphans ==
  ASSUME IInv, NEW w \in Workers, FaultStep(w) \/ Restart(w)
  PROVE  OrphaningStep
<1> USE DEF OrphaningStep
<1>1. CASE Stop(w) \/ Restart(w)
  BY <1>1, BatchesAlone DEF Stop, Restart, rows
<1>2. CASE ShutdownTimesOut(w)
  BY <1>2 DEF ShutdownTimesOut
<1>3. CASE Crash(w)
  BY <1>3, StrikesUseUp DEF Crash, ProcessEnds, IInv
<1>4. CASE ClaimFails(w) \/ ClaimAnswerLost(w) \/ DoneFails(w)
  BY <1>4, StrikesUseUp DEF ClaimFails, ClaimAnswerLost, DoneFails, IInv
<1>5. CASE ConnectFails(w)
  BY <1>5, StrikesUseUp DEF ConnectFails, LeaveBatch, IInv
<1>6. CASE \E r \in inHand[w] : DoneAnswerLost(w, r) \/ FailureEscapes(w, r)
  BY <1>6, StrikesUseUp DEF DoneAnswerLost, FailureEscapes, LeaveBatch, IInv
<1> QED BY <1>1, <1>2, <1>3, <1>4, <1>5, <1>6 DEF FaultStep

(* So does every step.                                                      *)
LEMMA NextOrphans == ASSUME IInv, [Next]_vars PROVE OrphaningStep
<1>1. CASE UNCHANGED vars
  BY <1>1, BatchesAlone DEF vars, rows, loop, OrphaningStep
<1>2. CASE \E m \in Messages, e \in ProducedEvents : Insert(m, e)
  BY <1>2, InsertOrphansNone DEF OrphaningStep
<1>3. CASE \E w \in Workers : WorkerStep(w) \/ Restart(w) \/ FaultStep(w)
  BY <1>3, WorkerOrphans, FaultOrphans
<1>4. CASE \E e \in executions : LateReturn(e) \/ LateThrow(e)
  BY <1>4, BatchesAlone DEF LateReturn, LateThrow, rows, loop, OrphaningStep
<1> QED BY <1>1, <1>2, <1>3, <1>4 DEF Next

(* A row is left 'processing' with nobody to settle it only by a crash, an  *)
(* error of the database, a shutdown that timed out or a refused            *)
(* dead-letter UPDATE (runOutboxTick, updateFailure, startOutboxPoller).    *)
THEOREM OrphansOnlyByFailureAlways == Spec => OrphansOnlyByFailure
<1>1. IInv /\ [Next]_vars =>
        [\/ Orphans' \subseteq Orphans
         \/ faultsLeft' < faultsLeft /\ stopping' = stopping
         \/ \E w \in stopping : ShutdownTimesOut(w)
         \/ \E w \in Workers : \E r \in inHand[w] : DeadLetterRejected(w, r)]_vars
  BY NextOrphans DEF OrphaningStep
<1> QED BY <1>1, AlwaysIInv, PTL DEF Spec, OrphansOnlyByFailure

=============================================================================
