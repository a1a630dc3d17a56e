------------------------------ MODULE Outbox ------------------------------
(***************************************************************************)
(* The transactional outbox of the storefront API.                         *)
(*                                                                         *)
(* Checkout inserts rows into outbox_messages in the transaction of the    *)
(* order.  Every API process (and optionally a standalone worker) runs a   *)
(* poll loop, startOutboxPoller, whose body is processOutboxBatch: one     *)
(* transaction claims a batch of pending rows with FOR UPDATE SKIP LOCKED  *)
(* and marks them 'processing'; then, on a second connection and in        *)
(* autocommit, each row's handler runs under a timeout and the row becomes *)
(* 'done', or 'pending' again with one more retry, or 'failed'.            *)
(*                                                                         *)
(* The handlers are injected: the processor is modelled for any handler    *)
(* that may return, throw or outlive its timeout.                          *)
(***************************************************************************)
EXTENDS Naturals, FiniteSets

CONSTANTS
  Messages,     (* identifiers of outbox_messages rows                     *)
  Workers,      (* poll loops, one per process                             *)
  BatchSize,    (* OUTBOX_BATCH_SIZE                                       *)
  MaxRetries,   (* OUTBOX_MAX_RETRIES                                      *)
  DeadLetter,   (* whether the database may accept the dead-letter UPDATE  *)
  Faults,       (* the kinds of fault considered                           *)
  FaultBudget   (* bound on how many faults strike in one behaviour        *)

ASSUME OutboxAssumption ==
  /\ BatchSize \in Nat \ {0}
  /\ MaxRetries \in Nat \ {0}
  /\ DeadLetter \subseteq BOOLEAN /\ DeadLetter # {}
  /\ Faults \subseteq {"crash", "database", "stop", "slow"}
  /\ FaultBudget \in Nat
  /\ IsFiniteSet(Messages)

VARIABLES
  status,      (* outbox_messages.status, "absent" before the insert       *)
  event,       (* outbox_messages.event_type                               *)
  retryCount,  (* outbox_messages.retry_count                              *)
  age,         (* the rank of created_at                                   *)
  pc,          (* where each poll loop is                                  *)
  locked,      (* rows locked by the worker's open claim transaction       *)
  todo,        (* copies of the claimed rows the loop has not reached      *)
  inHand,      (* the copy of the row of the current iteration, if any     *)
  stopping,    (* workers whose abort signal is set                        *)
  executions,  (* handler calls still running, timed out ones included     *)
  delivered,   (* history: the attempts of a row whose handler took effect *)
  faultsLeft

rows == <<status, event, retryCount, age>>
loop == <<pc, locked, todo, inHand, stopping>>
vars == <<status, event, retryCount, age, pc, locked, todo, inHand, stopping,
          executions, delivered, faultsLeft>>

\* The event types checkout writes, and those createOutboxHandlers handles.
ProducedEvents == {"order.created", "ORDER_PLACED_REALTIME"}
HandledEvents  == {"ORDER_CREATED", "ORDER_COMPLETED", "ORDER_CANCELLED",
                   "ORDER_PLACED_REALTIME"}

Attempts   == 0 .. MaxRetries - 1
Statuses   == {"absent", "pending", "processing", "done", "failed"}
Settling   == {"delivered", "failing"}
InLoop     == {"connecting", "looping", "handling"} \cup Settling
RowCopies  == [msg : Messages, retryCount : Attempts]
Executions == [worker : Workers, msg : Messages, attempt : Attempts]

Init ==
  /\ status = [m \in Messages |-> "absent"]
  /\ event = [m \in Messages |-> "none"]
  /\ retryCount = [m \in Messages |-> 0]
  /\ age = [m \in Messages |-> 0]
  /\ pc = [w \in Workers |-> "polling"]
  /\ locked = [w \in Workers |-> {}]
  /\ todo = [w \in Workers |-> {}]
  /\ inHand = [w \in Workers |-> {}]
  /\ stopping = {}
  /\ executions = {}
  /\ delivered = [m \in Messages |-> {}]
  /\ faultsLeft = FaultBudget

-----------------------------------------------------------------------------
(* The producer: the commit of a transaction that inserted row m.           *)

Inserted == {m \in Messages : status[m] # "absent"}

Insert(m, e) ==
  /\ status[m] = "absent"
  /\ status' = [status EXCEPT ![m] = "pending"]
  /\ event' = [event EXCEPT ![m] = e]
  /\ age' = [age EXCEPT ![m] = Cardinality(Inserted)]
  /\ UNCHANGED <<retryCount, loop, executions, delivered, faultsLeft>>

-----------------------------------------------------------------------------
(* The claim transaction.                                                   *)

\* Mutant: the claim neither skips nor waits for locked rows.
ClaimableThoughLocked == {m \in Messages : status[m] = "pending"}

\* Rows another transaction holds are skipped, not waited for.
Claimable == {m \in Messages : /\ status[m] = "pending"
                               /\ \A w \in Workers : m \notin locked[w]}

\* Mutant: a poll waits until it can fill its batch.
FullBatchOnly(S) ==
  /\ S \subseteq Claimable
  /\ Cardinality(S) = BatchSize
  /\ \A m \in S, n \in Claimable \ S : age[m] <= age[n]

\* The oldest rows, at most BatchSize of them.
OldestFirst(S) ==
  /\ S \subseteq Claimable
  /\ S # {}
  /\ Cardinality(S) <= BatchSize
  /\ Cardinality(S) < BatchSize => S = Claimable
  /\ \A m \in S, n \in Claimable \ S : age[m] <= age[n]

Claim(w, S) ==
  /\ pc[w] = "polling"
  /\ w \notin stopping
  /\ OldestFirst(S)
  /\ locked' = [locked EXCEPT ![w] = S]
  /\ pc' = [pc EXCEPT ![w] = "claiming"]
  /\ UNCHANGED <<rows, todo, inHand, stopping, executions, delivered,
                 faultsLeft>>

\* The rows a committed claim leaves marked, and their locks released.
ClaimTakesEffect(w) ==
  /\ status' = [m \in Messages |->
                  IF m \in locked[w] THEN "processing" ELSE status[m]]
  /\ locked' = [locked EXCEPT ![w] = {}]

RowCopy(m) == [msg |-> m, retryCount |-> retryCount[m]]

CommitClaim(w) ==
  /\ pc[w] = "claiming"
  /\ ClaimTakesEffect(w)
  /\ todo' = [todo EXCEPT ![w] = {RowCopy(m) : m \in locked[w]}]
  /\ pc' = [pc EXCEPT ![w] = "connecting"]
  /\ UNCHANGED <<event, retryCount, age, inHand, stopping, executions,
                 delivered, faultsLeft>>

Connect(w) ==
  /\ pc[w] = "connecting"
  /\ pc' = [pc EXCEPT ![w] = "looping"]
  /\ UNCHANGED <<rows, locked, todo, inHand, stopping, executions,
                 delivered, faultsLeft>>

-----------------------------------------------------------------------------
(* The loop over the claimed rows.  RETURNING gives them in no set order.   *)

Take(w, r) ==
  /\ pc[w] = "looping"
  /\ r \in todo[w]
  /\ todo' = [todo EXCEPT ![w] = @ \ {r}]
  /\ inHand' = [inHand EXCEPT ![w] = {r}]

Execution(w, r) == [worker |-> w, msg |-> r.msg, attempt |-> r.retryCount]

StartHandler(w, r) ==
  /\ Take(w, r)
  /\ event[r.msg] \in HandledEvents
  /\ executions' = executions \cup {Execution(w, r)}
  /\ pc' = [pc EXCEPT ![w] = "handling"]
  /\ UNCHANGED <<rows, locked, stopping, delivered, faultsLeft>>

\* No handler is registered for the row's event type.
RejectUnknown(w, r) ==
  /\ Take(w, r)
  /\ event[r.msg] \notin HandledEvents
  /\ pc' = [pc EXCEPT ![w] = "failing"]
  /\ UNCHANGED <<rows, locked, stopping, executions, delivered, faultsLeft>>

TakesEffect(e) ==
  /\ executions' = executions \ {e}
  /\ delivered' = [delivered EXCEPT ![e.msg] = @ \cup {e.attempt}]

HandlerReturns(w, r) ==
  /\ pc[w] = "handling"
  /\ TakesEffect(Execution(w, r))
  /\ pc' = [pc EXCEPT ![w] = "delivered"]
  /\ UNCHANGED <<rows, locked, todo, inHand, stopping, faultsLeft>>

\* Mutant: the handler's error is swallowed before updateDone.
HandlerErrorSwallowed(w, r) ==
  /\ pc[w] = "handling"
  /\ executions' = executions \ {Execution(w, r)}
  /\ pc' = [pc EXCEPT ![w] = "delivered"]
  /\ UNCHANGED <<rows, locked, todo, inHand, stopping, delivered, faultsLeft>>

HandlerThrows(w, r) ==
  /\ pc[w] = "handling"
  /\ executions' = executions \ {Execution(w, r)}
  /\ pc' = [pc EXCEPT ![w] = "failing"]
  /\ UNCHANGED <<rows, locked, todo, inHand, stopping, delivered, faultsLeft>>

\* Promise.race rejects; the handler itself is not cancelled.
HandlerTimesOut(w) ==
  /\ pc[w] = "handling"
  /\ pc' = [pc EXCEPT ![w] = "failing"]
  /\ UNCHANGED <<rows, locked, todo, inHand, stopping, executions, delivered,
                 faultsLeft>>

Awaited(e) ==
  /\ pc[e.worker] = "handling"
  /\ \E r \in inHand[e.worker] : e = Execution(e.worker, r)

LateReturn(e) ==
  /\ e \in executions
  /\ ~ Awaited(e)
  /\ TakesEffect(e)
  /\ UNCHANGED <<rows, loop, faultsLeft>>

LateThrow(e) ==
  /\ e \in executions
  /\ ~ Awaited(e)
  /\ executions' = executions \ {e}
  /\ UNCHANGED <<rows, loop, delivered, faultsLeft>>

-----------------------------------------------------------------------------
(* Settling a row: updateDone and updateFailure, each one autocommitted     *)
(* UPDATE ... WHERE id = $1.                                                *)

MarkDone(r) == status' = [status EXCEPT ![r.msg] = "done"]

LastTry(r) == r.retryCount + 1 >= MaxRetries

DeadLetterAccepted == TRUE \in DeadLetter
DeadLetterRefused == FALSE \in DeadLetter

\* Mutant: a retry keeps the count.
RetrySameCount(r) ==
  /\ status' = [status EXCEPT ![r.msg] =
                  IF LastTry(r) THEN "failed" ELSE "pending"]
  /\ UNCHANGED retryCount

MarkFailure(r) ==
  /\ retryCount' = [retryCount EXCEPT ![r.msg] = r.retryCount + 1]
  /\ status' = [status EXCEPT ![r.msg] =
                  IF LastTry(r) THEN "failed" ELSE "pending"]

NextRow(w) ==
  /\ inHand' = [inHand EXCEPT ![w] = {}]
  /\ pc' = [pc EXCEPT ![w] = "looping"]
  /\ UNCHANGED <<event, age, locked, todo, stopping, executions, delivered,
                 faultsLeft>>

SettleDone(w, r) ==
  /\ pc[w] = "delivered"
  /\ MarkDone(r)
  /\ NextRow(w)
  /\ UNCHANGED retryCount

SettleFailure(w, r) ==
  /\ pc[w] = "failing"
  /\ LastTry(r) => DeadLetterAccepted
  /\ MarkFailure(r)
  /\ NextRow(w)

\* Mutant: the loop over the rows ends as soon as a stop is asked for.
EndBatchOnStop(w) ==
  /\ pc[w] = "looping"
  /\ todo[w] = {} \/ w \in stopping
  /\ pc' = [pc EXCEPT ![w] = "polling"]
  /\ todo' = [todo EXCEPT ![w] = {}]
  /\ UNCHANGED <<rows, locked, inHand, stopping, executions, delivered,
                 faultsLeft>>

EndBatch(w) ==
  /\ pc[w] = "looping"
  /\ todo[w] = {}
  /\ pc' = [pc EXCEPT ![w] = "polling"]
  /\ UNCHANGED <<rows, locked, todo, inHand, stopping, executions,
                 delivered, faultsLeft>>

-----------------------------------------------------------------------------
(* Shutdown, crashes and database errors.  Nothing in the program ever      *)
(* looks at 'processing' rows again.                                        *)

Strikes(kind) ==
  /\ kind \in Faults
  /\ faultsLeft > 0
  /\ faultsLeft' = faultsLeft - 1

Stop(w) ==
  /\ pc[w] # "down"
  /\ w \notin stopping
  /\ Strikes("stop")
  /\ stopping' = stopping \cup {w}
  /\ UNCHANGED <<rows, pc, locked, todo, inHand, executions, delivered>>

RunningElsewhere(w) == {e \in executions : e.worker # w}

\* The loop sees the signal between two polls, then the process exits.
ExitLoop(w) ==
  /\ pc[w] = "polling"
  /\ w \in stopping
  /\ pc' = [pc EXCEPT ![w] = "down"]
  /\ executions' = RunningElsewhere(w)
  /\ UNCHANGED <<rows, locked, todo, inHand, stopping, delivered,
                 faultsLeft>>

ProcessEnds(w) ==
  /\ pc[w] # "down"
  /\ pc' = [pc EXCEPT ![w] = "down"]
  /\ locked' = [locked EXCEPT ![w] = {}]
  /\ todo' = [todo EXCEPT ![w] = {}]
  /\ inHand' = [inHand EXCEPT ![w] = {}]
  /\ executions' = RunningElsewhere(w)
  /\ UNCHANGED <<rows, stopping, delivered>>

Crash(w) == ProcessEnds(w) /\ Strikes("crash")

\* Shutdown waits SHUTDOWN_TIMEOUT_MS for the loop, and then exits anyway.  The
\* fault of the budget was the stop.
ShutdownTimesOut(w) ==
  /\ "slow" \in Faults
  /\ w \in stopping
  /\ ProcessEnds(w)
  /\ UNCHANGED faultsLeft

Restart(w) ==
  /\ pc[w] = "down"
  /\ pc' = [pc EXCEPT ![w] = "polling"]
  /\ stopping' = stopping \ {w}
  /\ UNCHANGED <<rows, locked, todo, inHand, executions, delivered,
                 faultsLeft>>

\* The claim or its COMMIT fails: ROLLBACK, and the poll logs the error.
ClaimFails(w) ==
  /\ pc[w] = "claiming"
  /\ Strikes("database")
  /\ locked' = [locked EXCEPT ![w] = {}]
  /\ pc' = [pc EXCEPT ![w] = "polling"]
  /\ UNCHANGED <<rows, todo, inHand, stopping, executions, delivered>>

\* COMMIT takes effect but its answer is lost: the rows stay claimed.
ClaimAnswerLost(w) ==
  /\ pc[w] = "claiming"
  /\ Strikes("database")
  /\ ClaimTakesEffect(w)
  /\ pc' = [pc EXCEPT ![w] = "polling"]
  /\ UNCHANGED <<event, retryCount, age, todo, inHand, stopping,
                 executions, delivered>>

\* An error escapes the loop: what is left of the batch is forgotten.
LeaveBatch(w) ==
  /\ todo' = [todo EXCEPT ![w] = {}]
  /\ inHand' = [inHand EXCEPT ![w] = {}]
  /\ pc' = [pc EXCEPT ![w] = "polling"]
  /\ UNCHANGED <<event, age, locked, stopping, executions, delivered>>

\* The UPDATE that dead-letters a row passes $3 and $4, cast to no type, to
\* jsonb_build_object, whose arguments have none either.  A PostgreSQL that
\* cannot determine the type of a parameter refuses the statement.
DeadLetterRejected(w, r) ==
  /\ pc[w] = "failing"
  /\ LastTry(r)
  /\ DeadLetterRefused
  /\ LeaveBatch(w)
  /\ UNCHANGED <<status, retryCount, faultsLeft>>

ConnectFails(w) ==
  /\ pc[w] = "connecting"
  /\ Strikes("database")
  /\ LeaveBatch(w)
  /\ UNCHANGED <<status, retryCount>>

\* updateDone fails on the server; its error is handled like the handler's.
DoneFails(w) ==
  /\ pc[w] = "delivered"
  /\ Strikes("database")
  /\ pc' = [pc EXCEPT ![w] = "failing"]
  /\ UNCHANGED <<rows, locked, todo, inHand, stopping, executions,
                 delivered>>

\* The connection is lost during updateDone, before or after it took effect,
\* so updateFailure fails too and its error leaves the loop.
DoneAnswerLost(w, r) ==
  /\ pc[w] = "delivered"
  /\ Strikes("database")
  /\ MarkDone(r) \/ UNCHANGED status
  /\ LeaveBatch(w)
  /\ UNCHANGED retryCount

\* updateFailure throws, before or after it took effect.
FailureEscapes(w, r) ==
  /\ pc[w] = "failing"
  /\ Strikes("database")
  /\ \/ (LastTry(r) => DeadLetterAccepted) /\ MarkFailure(r)
     \/ UNCHANGED <<status, retryCount>>
  /\ LeaveBatch(w)

-----------------------------------------------------------------------------
HandlerEnds(w, r) ==
  HandlerReturns(w, r) \/ HandlerThrows(w, r) \/ HandlerTimesOut(w)

\* What the poll loop of a running process does by itself.
WorkerStep(w) ==
  \/ \E S \in SUBSET Messages : Claim(w, S)
  \/ CommitClaim(w) \/ Connect(w)
  \/ \E r \in todo[w] : StartHandler(w, r) \/ RejectUnknown(w, r)
  \/ \E r \in inHand[w] : HandlerEnds(w, r) \/ SettleDone(w, r)
                         \/ SettleFailure(w, r) \/ DeadLetterRejected(w, r)
  \/ EndBatch(w) \/ ExitLoop(w)

FaultStep(w) ==
  \/ Stop(w) \/ Crash(w) \/ ShutdownTimesOut(w)
  \/ ClaimFails(w) \/ ClaimAnswerLost(w) \/ ConnectFails(w)
  \/ DoneFails(w)
  \/ \E r \in inHand[w] : DoneAnswerLost(w, r) \/ FailureEscapes(w, r)

Next ==
  \/ \E m \in Messages, e \in ProducedEvents : Insert(m, e)
  \/ \E w \in Workers : WorkerStep(w) \/ Restart(w) \/ FaultStep(w)
  \/ \E e \in executions : LateReturn(e) \/ LateThrow(e)

Spec == Init /\ [][Next]_vars

\* The event loop runs the continuations of a live process, timers included,
\* and the deployment restarts a process that is down.
Fairness == \A w \in Workers : WF_vars(WorkerStep(w)) /\ WF_vars(Restart(w))

FairSpec == Spec /\ Fairness

-----------------------------------------------------------------------------
TypeOK ==
  /\ status \in [Messages -> Statuses]
  /\ event \in [Messages -> ProducedEvents \cup {"none"}]
  /\ retryCount \in [Messages -> 0 .. MaxRetries]
  /\ age \in [Messages -> Nat]
  /\ pc \in [Workers -> {"polling", "claiming", "down"} \cup InLoop]
  /\ locked \in [Workers -> SUBSET Messages]
  /\ todo \in [Workers -> SUBSET RowCopies]
  /\ inHand \in [Workers -> SUBSET RowCopies]
  /\ stopping \subseteq Workers
  /\ executions \subseteq Executions
  /\ delivered \in [Messages -> SUBSET Attempts]
  /\ faultsLeft \in 0 .. FaultBudget

Batch(w) == todo[w] \cup inHand[w]
Held(w)  == {r.msg : r \in Batch(w)}
InSomeBatch(m) == \E w \in Workers : m \in Held(w)

(* A row is worked on by one worker at a time: no two claims overlap, a row *)
(* in a batch is 'processing' and a row under claim is still 'pending'      *)
(* (claimPendingBatch against updateFailure of another process).            *)
ClaimsExclusive ==
  \A w \in Workers :
    /\ \A m \in Held(w) : status[m] = "processing"
    /\ \A m \in locked[w] : status[m] = "pending"
    /\ \A v \in Workers \ {w} : /\ Held(w) \cap Held(v) = {}
                                /\ locked[w] \cap locked[v] = {}

(* The retry_count a worker read when it claimed a row is still the row's   *)
(* when it settles the row, so that writing retryCount + 1 loses no attempt *)
(* although the UPDATE does not re-read it.                                 *)
SnapshotCurrent ==
  \A w \in Workers : \A r \in Batch(w) : r.retryCount = retryCount[r.msg]

(* Every attempt of a row runs the handler at most once: timed out handlers *)
(* still running, retries, crashes and other processes included.            *)
AttemptRunsOnce ==
  \A e \in executions :
    /\ e.attempt \notin delivered[e.msg]
    /\ \A f \in executions :
         f.msg = e.msg /\ f.attempt = e.attempt => f = e

(* A row is marked 'done' only if the handler of its last attempt took      *)
(* effect; it is 'failed' if and only if it used up all its retries.        *)
OutcomeJustified ==
  \A m \in Messages :
    /\ status[m] = "done" => retryCount[m] \in delivered[m]
    /\ status[m] = "failed" <=> retryCount[m] = MaxRetries

(* A settled row is never touched again: not by a late handler, nor by a    *)
(* worker holding an old copy of it.                                        *)
SettledForGood ==
  [][\A m \in Messages :
       status[m] \in {"done", "failed"} =>
         status'[m] = status[m] /\ retryCount'[m] = retryCount[m]]_vars

\* Rows nobody will settle: nothing in the program looks for them.
Orphans ==
  {m \in Messages : status[m] = "processing" /\ ~InSomeBatch(m)}

(* A worker leaves a row 'processing' only by a crash, an error of the      *)
(* database, a shutdown that timed out or a refused dead-letter UPDATE:     *)
(* never by a retry, a late handler, or a stop in the middle of its batch.  *)
OrphansOnlyByFailure ==
  [][\/ Orphans' \subseteq Orphans
     \/ faultsLeft' < faultsLeft /\ stopping' = stopping
     \/ \E w \in stopping : ShutdownTimesOut(w)
     \/ \E w \in Workers : \E r \in inHand[w] : DeadLetterRejected(w, r)]_vars

(* Every row is settled in the end or is one of those: whatever its handler *)
(* does, however workers stop, and although they skip each other's rows.    *)
EverySettled ==
  \A m \in Messages :
    status[m] = "pending" ~> status[m] \in {"done", "failed"} \/ m \in Orphans

-----------------------------------------------------------------------------
(* The outbox as an EventQueue: a row's status is the event's, and its      *)
(* retry_count the number of tries.                                         *)

Entry(s) == CASE s = "absent"     -> "none"
              [] s = "pending"    -> "waiting"
              [] s = "processing" -> "taken"
              [] s = "done"       -> "done"
              [] s = "failed"     -> "dead"

Queue == INSTANCE EventQueue WITH
           Events <- Messages, MaxTries <- MaxRetries,
           entry <- [m \in Messages |-> Entry(status[m])],
           tries <- retryCount

(* The poll loops, crashes and database errors of Outbox never break the    *)
(* promises of EventQueue: at-least-once delivery, bounded, for 'done' rows.*)
ImplementsQueue == Queue!Spec
=============================================================================
