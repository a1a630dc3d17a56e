----------------------------- MODULE ShopLookups -----------------------------
(***************************************************************************)
(* What checkouts and shop lookups share: the pool of connections, and the *)
(* row of a shop's service hub in Redis.                                   *)
(*                                                                         *)
(* A checkout keeps the connection of its transaction while it asks for    *)
(* the hub, which on a miss needs a second one.  A lookup of a shop by its *)
(* domain gives its connection back before its last statements have run.   *)
(* A connection runs the statements it was sent in that order.             *)
(***************************************************************************)
EXTENDS Naturals, FiniteSets, Sequences, SequencesExt

CONSTANTS
  Checkouts,     (* POST checkout: a transaction that needs the hub twice    *)
  Lookups,       (* service-area checks: the hub alone                       *)
  Resolvers,     (* lookups of a shop by its domain                          *)
  Connections,   (* DATABASE_POOL_MAX of them                                *)
  TimesOut,      (* DATABASE_CONNECTION_TIMEOUT_MS is not zero               *)
  MaxWrites,     (* bound on the changes of the shop's row                   *)
  MaxLapses,     (* bound on the keys of Redis that reach their end          *)
  FaultBudget    (* bound on the calls to Redis and PostgreSQL that fail     *)

Handlers == Checkouts \cup Lookups \cup Resolvers

ASSUME ShopLookupsAssumption ==
  /\ IsFiniteSet(Checkouts) /\ IsFiniteSet(Connections)
  /\ Checkouts \cap Lookups = {} /\ Checkouts \cap Resolvers = {}
  /\ Lookups \cap Resolvers = {}
  /\ TimesOut \in BOOLEAN
  /\ {MaxWrites, MaxLapses, FaultBudget} \subseteq Nat

VARIABLES
  runs,        (* the handlers                                               *)
  conns,       (* the connections                                            *)
  free,        (* the connections nobody has, the last given back last       *)
  waiting,     (* handlers the pool owes a connection, the first to ask first *)
  row,         (* version of the shop's row                                  *)
  entry,       (* Redis: the cached row, {} or one                           *)
  lock,        (* Redis: the key that says somebody fills                    *)
  pending,     (* changes whose invalidation has not been called yet         *)
  dropped,     (* version of the row when the entry was last deleted         *)
  deletions,   (* history: how often that was                                *)
  lapsesLeft, faultsLeft

cache == <<entry, lock>>
shop  == <<row, pending, dropped, deletions>>
pool  == <<conns, free, waiting>>
vars  == <<runs, pool, cache, shop, lapsesLeft, faultsLeft>>

Ends == {"answered", "failed"}

\* has: the connection of the handler's own; extra: the one to fill the cache
\* with; round: which need of the hub; seen: the row a fill has read, and after
\* how many deletions; locks: it set the lock; good: nothing has failed.
NoRun == [pc |-> "idle", has |-> {}, extra |-> {}, round |-> 1, seen |-> 0,
          at |-> 0, locks |-> FALSE, good |-> TRUE]

\* open: a transaction is; tenant: whose app.current_shop_id it has; sent: the
\* statements to run.
NewConnection == [open |-> FALSE, tenant |-> {}, sent |-> <<>>]

Init ==
  /\ runs = [h \in Handlers |-> NoRun]
  /\ conns = [c \in Connections |-> NewConnection]
  /\ free = SetToSeq(Connections) /\ waiting = <<>>
  /\ row = 0 /\ pending = 0 /\ dropped = 0 /\ deletions = 0
  /\ entry = {} /\ lock = FALSE
  /\ lapsesLeft = MaxLapses /\ faultsLeft = FaultBudget

Strikes == faultsLeft > 0 /\ faultsLeft' = faultsLeft - 1
Calm == UNCHANGED <<lapsesLeft, faultsLeft>>

-----------------------------------------------------------------------------
(* The pool.                                                                *)

\* What a handler has once the pool gives it c.
WithConnection(run, c) ==
  IF run.pc = "wanting" THEN [run EXCEPT !.pc = "querying", !.extra = {c}]
  ELSE [run EXCEPT !.pc = "begun", !.has = {c}]

\* pool.connect(): a free connection, or a place in the queue.
Connect(h) ==
  /\ runs[h].pc \in {"arrived", "wanting"}
  /\ ~Contains(waiting, h)
  /\ IF free = <<>>
     THEN waiting' = Append(waiting, h) /\ UNCHANGED <<runs, free>>
     ELSE /\ free' = Front(free)
          /\ runs' = [runs EXCEPT ![h] = WithConnection(@, Last(free))]
          /\ UNCHANGED waiting
  /\ UNCHANGED <<conns, cache, shop>> /\ Calm

\* client.release() by h, whose record becomes run: to the first who waits.
Release(h, run, c) ==
  IF waiting = <<>>
  THEN /\ free' = Append(free, c)
       /\ runs' = [runs EXCEPT ![h] = run]
       /\ UNCHANGED waiting
  ELSE /\ runs' = [runs EXCEPT ![h] = run, ![Head(waiting)] = WithConnection(@, c)]
       /\ waiting' = Tail(waiting)
       /\ UNCHANGED free

\* A handler that got no connection or no answer: a checkout rolls back.
Failing(h, run) ==
  [run EXCEPT !.pc = IF run.has # {} THEN "ending" ELSE "failed", !.good = FALSE,
              !.locks = FALSE]

\* A fill that fails deletes its lock on the way out.
Unlocked(run) == IF run.locks THEN FALSE ELSE lock

ConnectTimesOut(h) ==
  /\ TimesOut
  /\ \E i \in 1 .. Len(waiting) : waiting[i] = h /\ waiting' = RemoveAt(waiting, i)
  /\ runs' = [runs EXCEPT ![h] = Failing(h, @)]
  /\ lock' = Unlocked(runs[h])
  /\ UNCHANGED <<conns, free, entry, shop>> /\ Calm

-----------------------------------------------------------------------------
(* The service hub: redisJsonCache.wrap.                                    *)

\* What follows an answer about the hub.
AfterHub(h, run) ==
  [run EXCEPT !.pc = IF h \in Lookups THEN "answered"
                     ELSE IF run.round = 1 THEN "setting" ELSE "working",
              !.round = 2, !.seen = 0, !.at = 0, !.locks = FALSE]

Goes(h, pc) == runs' = [runs EXCEPT ![h].pc = pc]

\* GET.
Ask(h) ==
  /\ runs[h].pc = "asking"
  /\ IF entry # {} THEN runs' = [runs EXCEPT ![h] = AfterHub(h, @)]
     ELSE Goes(h, "locking")
  /\ UNCHANGED <<pool, cache, shop>> /\ Calm

\* SET NX: who has the lock fills, the others look again a few times.
Lock(h) ==
  /\ runs[h].pc = "locking"
  /\ lock' = TRUE
  /\ runs' = [runs EXCEPT ![h].pc = IF lock THEN "polling" ELSE "wanting",
                          ![h].locks = ~lock]
  /\ UNCHANGED <<pool, entry, shop>> /\ Calm

Poll(h) ==
  /\ runs[h].pc = "polling"
  /\ \/ entry # {} /\ runs' = [runs EXCEPT ![h] = AfterHub(h, @)]
     \/ entry = {} /\ Goes(h, "wanting")
  /\ UNCHANGED <<pool, cache, shop>> /\ Calm

\* Mutant: a failed query does not give its connection back.
KeptOnFailure(h, run, c) ==
  runs' = [runs EXCEPT ![h] = [run EXCEPT !.extra = {}]] /\ UNCHANGED <<free, waiting>>

ReleasedOnFailure(h, run, c) == Release(h, [run EXCEPT !.extra = {}], c)

\* getShopHubForServiceCheck.
Query(h) ==
  /\ runs[h].pc = "querying"
  /\ \E c \in runs[h].extra :
       Release(h, [runs[h] EXCEPT !.pc = "storing", !.extra = {}, !.seen = row,
                                  !.at = deletions], c)
  /\ UNCHANGED <<conns, cache, shop>> /\ Calm

QueryFails(h) ==
  /\ runs[h].pc = "querying"
  /\ Strikes
  /\ \E c \in runs[h].extra : ReleasedOnFailure(h, Failing(h, runs[h]), c)
  /\ lock' = Unlocked(runs[h])
  /\ UNCHANGED <<conns, entry, shop, lapsesLeft>>

Stored(h) == [version |-> runs[h].seen, read |-> runs[h].at, set |-> deletions]

\* SET of the row, then DEL of the lock: of the key, whoever has set it since.
Store(h) ==
  /\ runs[h].pc = "storing"
  /\ entry' = {Stored(h)}
  /\ lock' = Unlocked(runs[h])
  /\ runs' = [runs EXCEPT ![h] = AfterHub(h, @)]
  /\ UNCHANGED <<pool, shop>> /\ Calm

\* A call to Redis fails: a miss, no lock, or nothing stored, or a lock left.
RedisFails(h) ==
  /\ Strikes
  /\ \/ runs[h].pc = "asking" /\ Goes(h, "locking") /\ UNCHANGED cache
     \/ runs[h].pc = "locking" /\ Goes(h, "polling") /\ UNCHANGED cache
     \/ /\ runs[h].pc = "storing"
        /\ runs' = [runs EXCEPT ![h] = AfterHub(h, @)]
        /\ \/ lock' = Unlocked(runs[h]) /\ UNCHANGED entry
           \/ entry' = {Stored(h)} /\ UNCHANGED lock
  /\ UNCHANGED <<pool, shop, lapsesLeft>>

-----------------------------------------------------------------------------
(* Statements on a connection.                                              *)

Arrive(h) ==
  /\ runs[h].pc = "idle"
  /\ Goes(h, IF h \in Lookups THEN "asking" ELSE "arrived")
  /\ UNCHANGED <<pool, cache, shop>> /\ Calm

Send(c, h, what) == conns' = [conns EXCEPT ![c].sent = Append(@, <<h, what>>)]

\* The handler whose turn it is to send sends, and awaits the answer.
Statement == [begun |-> "begin", setting |-> "set", working |-> "work",
              ending |-> "end"]

SendNext(h) ==
  /\ h \in Checkouts
  /\ runs[h].pc \in DOMAIN Statement
  /\ \E c \in runs[h].has : Send(c, h, Statement[runs[h].pc])
  /\ Goes(h, "awaiting")
  /\ UNCHANGED <<free, waiting, cache, shop>> /\ Calm

\* findShopByDomain: the shop's row, then set_config, sent by the call whose
\* promise is returned without an await; "finally" releases the connection.
Resolve(h) ==
  /\ h \in Resolvers
  /\ runs[h].pc = "begun"
  /\ \E c \in runs[h].has :
       /\ Release(h, [runs[h] EXCEPT !.pc = "awaiting"], c)
       /\ Send(c, h, "set")
  /\ UNCHANGED <<cache, shop>> /\ Calm

\* The images are asked for on a connection that may be another's by now.
SendLate(h) ==
  /\ runs[h].pc = "late"
  /\ \E c \in runs[h].has : Send(c, h, "images")
  /\ Goes(h, "awaiting")
  /\ UNCHANGED <<free, waiting, cache, shop>> /\ Calm

\* Mutant: app.current_shop_id is set for the session.
ForSession(conn) == TRUE

\* set_config(..., true) is gone with its transaction, or at once without one.
Lasts(conn) == conn.open
\* What a statement leaves of a connection.
After(conn, h, what) ==
  LET rest == [conn EXCEPT !.sent = Tail(@)]
  IN CASE what = "begin" -> [rest EXCEPT !.open = TRUE]
       [] what = "set" /\ Lasts(conn) -> [rest EXCEPT !.tenant = {h}]
       [] what = "end" -> [rest EXCEPT !.open = FALSE, !.tenant = {}]
       [] OTHER -> rest

\* Where its answer leads the handler that sent it.
Answer(h, what) ==
  CASE what = "begin" -> "asking"
    [] what = "set" -> IF h \in Checkouts THEN "asking" ELSE "late"
    [] what = "work" -> "ending"
    [] what = "images" -> "answered"
    [] OTHER -> "releasing"

Execute(c) ==
  /\ conns[c].sent # <<>>
  /\ LET h == Head(conns[c].sent)[1]
         what == Head(conns[c].sent)[2]
     IN /\ conns' = [conns EXCEPT ![c] = After(@, h, what)]
        /\ Goes(h, Answer(h, what))
  /\ UNCHANGED <<free, waiting, cache, shop>> /\ Calm

\* withTx's finally.
Finish(h) ==
  /\ runs[h].pc = "releasing"
  /\ \E c \in runs[h].has :
       Release(h, [runs[h] EXCEPT !.pc = IF runs[h].good THEN "answered" ELSE "failed",
                                  !.has = {}], c)
  /\ UNCHANGED <<conns, cache, shop>> /\ Calm

-----------------------------------------------------------------------------
(* The shop's backend, and time.                                            *)

\* The row changes; the caller then posts the invalidation.
Write ==
  /\ row < MaxWrites
  /\ row' = row + 1 /\ pending' = pending + 1
  /\ UNCHANGED <<runs, pool, cache, dropped, deletions>> /\ Calm

\* Mutant: the other key of the shop is deleted.
MissedKey == entry

DeletedKey == {}

\* invalidateShop.
Invalidate ==
  /\ pending > 0
  /\ entry' = DeletedKey
  /\ pending' = pending - 1
  /\ dropped' = row /\ deletions' = deletions + 1
  /\ UNCHANGED <<runs, pool, lock, row>> /\ Calm

InvalidateFails ==
  /\ pending > 0 /\ Strikes
  /\ pending' = pending - 1
  /\ UNCHANGED <<runs, pool, cache, row, dropped, deletions, lapsesLeft>>

Lapse ==
  /\ lapsesLeft > 0 /\ lapsesLeft' = lapsesLeft - 1
  /\ \/ entry # {} /\ entry' = {} /\ UNCHANGED lock
     \/ lock /\ lock' = FALSE /\ UNCHANGED entry
  /\ UNCHANGED <<runs, pool, shop, faultsLeft>>

Step(h) == \/ Connect(h) \/ Ask(h) \/ Lock(h) \/ Poll(h) \/ Query(h) \/ Store(h)
           \/ SendNext(h) \/ Resolve(h) \/ SendLate(h)
           \/ Finish(h)

Next ==
  \/ \E h \in Handlers : \/ Arrive(h) \/ Step(h) \/ ConnectTimesOut(h)
                         \/ QueryFails(h) \/ RedisFails(h)
  \/ \E c \in Connections : Execute(c)
  \/ Write \/ Invalidate \/ InvalidateFails \/ Lapse

Spec == Init /\ [][Next]_vars

\* Every call is answered: by Redis, by PostgreSQL, by the pool when it can.
FairSpec == /\ Spec
            /\ \A h \in Handlers : WF_vars(Step(h))
            /\ \A c \in Connections : WF_vars(Execute(c))

-----------------------------------------------------------------------------
(* Properties.                                                              *)

Pcs == {"idle", "arrived", "begun", "asking", "locking", "polling", "wanting",
        "querying", "storing", "setting", "working", "ending",
        "awaiting", "releasing", "late"} \cup Ends

Statements == {"begin", "set", "work", "end", "images"}

\* Every variable has its shape.
TypeOK ==
  /\ runs \in [Handlers -> [pc : Pcs, has : SUBSET Connections,
                            extra : SUBSET Connections, round : {1, 2}, seen : Nat,
                            at : Nat, locks : BOOLEAN, good : BOOLEAN]]
  /\ conns \in [Connections -> [open : BOOLEAN, tenant : SUBSET Handlers,
                                sent : Seq(Handlers \X Statements)]]
  /\ free \in Seq(Connections) /\ waiting \in Seq(Handlers)
  /\ {row, pending, dropped, deletions, lapsesLeft, faultsLeft} \subseteq Nat
  /\ entry \subseteq [version : Nat, read : Nat, set : Nat] /\ lock \in BOOLEAN

\* A transaction is under no shop but its own, whatever statements were sent on
\* its connection before it was given it and after (setTenantContext).
TenantOfTransaction ==
  \A h \in Checkouts : \A c \in runs[h].has :
    /\ conns[c].open => conns[c].tenant \subseteq {h}
    /\ runs[h].pc = "working" => conns[c].tenant = {h}

\* The cached row is older than the last invalidation only if it was read
\* before that and written after: a fill was under way (invalidateShop).
StaleByLateFill ==
  \A e \in entry : e.version < dropped => e.read < e.set

\* With fewer checkouts than connections the pool never comes to a standstill:
\* every handler that has begun is answered or fails (checkoutStorefront,
\* getShopHubForServiceCheck).
AllAnswered ==
  Cardinality(Checkouts) < Cardinality(Connections) =>
    \A h \in Handlers : runs[h].pc \notin {"idle"} \cup Ends ~> runs[h].pc \in Ends
=============================================================================
