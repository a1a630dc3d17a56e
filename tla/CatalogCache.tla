---------------------------- MODULE CatalogCache ----------------------------
(***************************************************************************)
(* The catalog and promotion caches in Redis (createCatalogCache).         *)
(*                                                                         *)
(* A key carries the generations of the tables its data depends on: an     *)
(* invalidation only bumps generations, and what was cached under older    *)
(* ones runs out.  A reader builds its key from the generations, looks it  *)
(* up and, on a miss, fills it, under a lock that one reader takes and the *)
(* others wait for, a bounded time.  swr also serves an entry past its     *)
(* time and refreshes it behind the answer: a reader here is a request     *)
(* with the refresh it leaves behind, of which its caller hears nothing.   *)
(* A failed command is a miss, a generation 0 or a swallowed invalidation. *)
(***************************************************************************)
EXTENDS Naturals, FiniteSets

CONSTANTS
  Readers,        (* requests that may be under way at the same time       *)
  Tables,         (* "catalog" and "promo", which lists do without         *)
  Items,          (* what they read, of AllItems                           *)
  MaxVersion,     (* bound on how often a table is written                 *)
  MaxBumps,       (* bound on how often a generation is bumped             *)
  MaxPolls,       (* LOCK_WAIT_ATTEMPTS                                    *)
  EntryFaultBudget, (* bound on failing queries and commands on entries    *)
  GenFaultBudget, (* bound on failing commands on generations              *)
  LapseBudget     (* bound on fills that outlive their lock                *)

AllItems == {"products", "categories", "bundles", "revision"}

ASSUME CatalogCacheAssumption ==
  /\ {"catalog"} \subseteq Tables /\ Tables \subseteq {"catalog", "promo"}
  /\ Items \subseteq AllItems /\ Items # {}
  /\ MaxVersion \in Nat /\ MaxBumps \in Nat /\ MaxPolls \in Nat
  /\ MaxPolls > 0
  /\ EntryFaultBudget \in Nat /\ GenFaultBudget \in Nat /\ LapseBudget \in Nat

VARIABLES
  version,    (* how often a table was written: the data it holds          *)
  gen,        (* catalogGen and promoGen                                   *)
  since,      (* since[t][n]: the version of t when its generation got n   *)
  todo,       (* generations the invalidation under way still has to bump  *)
  mark,       (* the versions that invalidation is about                   *)
  announced,  (* the versions invalidations that have ended were about     *)
  cache,      (* the entry under each key                                  *)
  locks,      (* the locks that are set                                    *)
  stage,      (* where a reader is                                         *)
  item, gens, (* the key a reader builds                                   *)
  asked,      (* generations it waits for                                  *)
  floor,      (* announced, when it began                                  *)
  polls,      (* how often it looked for another reader's fill             *)
  held,       (* the lock it believes to hold                              *)
  data,       (* what it answers, or fills the entry with                  *)
  revision,   (* the last revision each poller was given                   *)
  entryFaults, genFaultsLeft, lapsesLeft

admin == <<version, gen, since, todo, mark, announced>>
budgets == <<entryFaults, genFaultsLeft, lapsesLeft>>
cacheVars == <<admin, cache, locks, stage, item, asked, gens, floor, polls, held, data,
               revision, budgets>>

-----------------------------------------------------------------------------
\* shopKeyPrefix; shopPromoKeyPrefix has both generations.
Deps(i) == IF i = "products" THEN {"catalog"} ELSE Tables

\* Items read with swr; bundles are read with wrap.
SWR == {"products", "categories"}

Versions == [Tables -> 0 .. MaxVersion]
Generations == [Tables -> 0 .. MaxBumps]
Zero == [t \in Tables |-> 0]
Keys == Items \X Generations
LockNames == {"fill", "refresh"} \X Keys
AnItem == CHOOSE i \in Items : TRUE
NoEntry == [age |-> "none", data |-> Zero]

Key(r) == <<item[r], gens[r]>>
Entry(r) == cache[Key(r)]

CacheInit ==
  /\ version = Zero /\ gen = Zero /\ mark = Zero /\ announced = Zero
  /\ since = [t \in Tables |-> [n \in 0 .. MaxBumps |-> 0]]
  /\ todo = {}
  /\ cache = [k \in Keys |-> NoEntry]
  /\ locks = {}
  /\ stage = [r \in Readers |-> "idle"]
  /\ item = [r \in Readers |-> AnItem]
  /\ asked = [r \in Readers |-> {}]
  /\ gens = [r \in Readers |-> Zero]
  /\ floor = [r \in Readers |-> Zero]
  /\ polls = [r \in Readers |-> 0]
  /\ held = [r \in Readers |-> "none"]
  /\ data = [r \in Readers |-> Zero]
  /\ revision = [r \in Readers |-> Zero]
  /\ entryFaults = EntryFaultBudget
  /\ genFaultsLeft = GenFaultBudget
  /\ lapsesLeft = LapseBudget

EntryStrikes == /\ entryFaults > 0 /\ entryFaults' = entryFaults - 1
                /\ UNCHANGED <<genFaultsLeft, lapsesLeft>>
GenStrikes == /\ genFaultsLeft > 0 /\ genFaultsLeft' = genFaultsLeft - 1
              /\ UNCHANGED <<entryFaults, lapsesLeft>>

Goto(r, p) == stage' = [stage EXCEPT ![r] = p]

-----------------------------------------------------------------------------
(* The admin's backend: writes, and invalidations through the API.          *)

Write(t) ==
  /\ version[t] < MaxVersion
  /\ version' = [version EXCEPT ![t] = @ + 1]
  /\ UNCHANGED <<gen, since, todo, mark, announced, cache, locks, stage, item, asked,
                 gens, floor, polls, held, data, revision, budgets>>

\* Mutant: the answer does not wait for the bumps.
StartAnswered(scope) ==
  /\ todo = {}
  /\ scope \in {Tables, {"promo"} \cap Tables} \ {{}}
  /\ \A t \in scope : gen[t] < MaxBumps
  /\ todo' = scope
  /\ mark' = [t \in Tables |-> IF t \in scope THEN version[t] ELSE announced[t]]
  /\ announced' = mark'
  /\ UNCHANGED <<version, gen, since, cache, locks, stage, item, asked,
                 gens, floor, polls, held, data, revision, budgets>>

\* invalidateShopCatalog bumps both, invalidateShopPromotions the second.
StartInvalidation(scope) ==
  /\ todo = {}
  /\ scope \in {Tables, {"promo"} \cap Tables} \ {{}}
  /\ \A t \in scope : gen[t] < MaxBumps
  /\ todo' = scope
  /\ mark' = [t \in Tables |-> IF t \in scope THEN version[t] ELSE announced[t]]
  /\ UNCHANGED <<version, gen, since, announced, cache, locks, stage, item, asked,
                 gens, floor, polls, held, data, revision, budgets>>

\* The invalidation is answered when its last command is.
BumpDone(t) ==
  /\ todo' = todo \ {t}
  /\ announced' = IF todo = {t} THEN mark ELSE announced
  /\ UNCHANGED <<version, mark, cache, locks, stage, item, asked, gens, floor, polls,
                 held, data, revision>>

Bump(t) ==
  /\ t \in todo
  /\ gen' = [gen EXCEPT ![t] = @ + 1]
  /\ since' = [since EXCEPT ![t][gen[t] + 1] = version[t]]
  /\ BumpDone(t)
  /\ UNCHANGED budgets

\* "best-effort; callers should not fail"
BumpFails(t) ==
  /\ t \in todo
  /\ GenStrikes
  /\ BumpDone(t)
  /\ UNCHANGED <<gen, since>>

-----------------------------------------------------------------------------
(* A reader: its key, the lookup.                                           *)

shared == <<admin, revision, lapsesLeft, genFaultsLeft>>

StartRead(r, i) ==
  /\ stage[r] = "idle"
  /\ Goto(r, "prefix")
  /\ item' = [item EXCEPT ![r] = i]
  /\ asked' = [asked EXCEPT ![r] = Deps(i)]
  /\ floor' = [floor EXCEPT ![r] = announced]
  /\ UNCHANGED <<shared, cache, locks, gens, polls, held, data, entryFaults>>

GenerationAsked(r, t) ==
  /\ stage[r] = "prefix" /\ t \in asked[r]
  /\ asked' = [asked EXCEPT ![r] = @ \ {t}]
  /\ IF asked[r] = {t} THEN Goto(r, "lookup") ELSE UNCHANGED stage
  /\ UNCHANGED <<admin, revision, cache, locks, item, floor, polls, held, data>>

\* readGeneration; shopPromoKeyPrefix sends both GETs at once.
ReadGeneration(r, t) ==
  /\ GenerationAsked(r, t)
  /\ gens' = [gens EXCEPT ![r][t] = gen[t]]
  /\ UNCHANGED budgets

\* ... which returns 0 when the command fails.
GenerationFails(r, t) ==
  /\ GenerationAsked(r, t)
  /\ GenStrikes
  /\ UNCHANGED gens

\* getStorefrontRevision.
AnswerRevision(r) ==
  /\ stage[r] = "lookup" /\ item[r] = "revision"
  /\ revision' = [revision EXCEPT ![r] = gens[r]]
  /\ Goto(r, "answered")
  /\ UNCHANGED <<admin, cache, locks, item, asked, gens, floor, polls, held, data,
                 budgets>>

\* What a reader does when an entry, or no entry, is found.
Found(r, p) ==
  /\ Entry(r).age # "none"
  /\ data' = [data EXCEPT ![r] = Entry(r).data]
  /\ Goto(r, p)
  /\ UNCHANGED <<shared, cache, locks, item, asked, gens, floor, polls, held, entryFaults>>

Missed(r, p) ==
  /\ Goto(r, p)
  /\ UNCHANGED <<shared, cache, locks, item, asked, gens, floor, polls, held, data>>

NoneThere(r) == Entry(r).age = "none" /\ UNCHANGED entryFaults

LookingUp(r) == stage[r] = "lookup" /\ item[r] # "revision"

Lookup(r) ==
  /\ LookingUp(r)
  /\ \/ Found(r, IF Entry(r).age = "fresh" THEN "answered" ELSE "refresh")
     \/ Missed(r, "lock") /\ NoneThere(r)

LookupFails(r) == LookingUp(r) /\ Missed(r, "lock") /\ EntryStrikes

-----------------------------------------------------------------------------
(* Filling an entry, alone or while others wait.                            *)

\* Mutant: SET without NX.
SetLock(r, kind, p) ==
  /\ locks' = locks \cup {<<kind, Key(r)>>}
  /\ held' = [held EXCEPT ![r] = kind]
  /\ Goto(r, p)
  /\ UNCHANGED <<shared, cache, item, asked, gens, floor, polls, data, entryFaults>>

\* SET lock 1 EX 30 NX.
TakeLock(r, kind, p) ==
  /\ <<kind, Key(r)>> \notin locks
  /\ locks' = locks \cup {<<kind, Key(r)>>}
  /\ held' = [held EXCEPT ![r] = kind]
  /\ Goto(r, p)
  /\ UNCHANGED <<shared, cache, item, asked, gens, floor, polls, data, entryFaults>>

Taken(r, kind) == <<kind, Key(r)>> \in locks /\ UNCHANGED entryFaults

Lock(r) ==
  /\ stage[r] = "lock"
  /\ \/ TakeLock(r, "fill", "recheck")
     \/ Missed(r, "wait") /\ (Taken(r, "fill") \/ EntryStrikes)

\* The caller of a stale entry is answered with it at once; whoever gets the
\* lock goes on behind the answer.
LockRefresh(r) ==
  /\ stage[r] = "refresh"
  /\ \/ TakeLock(r, "refresh", "served")
     \/ Missed(r, "answered") /\ (Taken(r, "refresh") \/ EntryStrikes)

Recheck(r) ==
  /\ stage[r] = "recheck"
  /\ \/ Found(r, "unlock")
     \/ Missed(r, "fill") /\ (NoneThere(r) \/ EntryStrikes)

\* Mutant: a waiter waits for the holder, whatever happened to it.
PollForEver(r) ==
  /\ stage[r] = "wait"
  /\ Found(r, "answered")

Poll(r) ==
  /\ stage[r] = "wait" /\ polls[r] < MaxPolls
  /\ \/ Found(r, "answered")
     \/ /\ polls' = [polls EXCEPT ![r] = @ + 1]
        /\ NoneThere(r) \/ EntryStrikes
        /\ UNCHANGED <<shared, stage, cache, locks, item, asked, gens, floor, held, data>>

GiveUp(r) ==
  /\ stage[r] = "wait" /\ polls[r] = MaxPolls
  /\ Missed(r, "fill") /\ UNCHANGED entryFaults

\* Mutant: the background refresh stores what it has just served.
RefillStale(r) ==
  /\ stage[r] \in {"fill", "served"}
  /\ data' = IF held[r] = "refresh" THEN data
             ELSE [data EXCEPT ![r] =
                     [t \in Tables |-> IF t \in Deps(item[r]) THEN version[t] ELSE 0]]
  /\ Goto(r, "set")
  /\ UNCHANGED <<shared, cache, locks, item, asked, gens, floor, polls, held, entryFaults>>

\* fn(): the queries behind the item.
Fill(r) ==
  /\ stage[r] \in {"fill", "served"}
  /\ data' = [data EXCEPT ![r] =
                [t \in Tables |-> IF t \in Deps(item[r]) THEN version[t] ELSE 0]]
  /\ Goto(r, "set")
  /\ UNCHANGED <<shared, cache, locks, item, asked, gens, floor, polls, held, entryFaults>>

FillFails(r) ==
  stage[r] \in {"fill", "served"} /\ Missed(r, "failed") /\ EntryStrikes

\* Mutant: the key is built again when the entry is stored.
SetUnderNewest(r) ==
  /\ stage[r] = "set"
  /\ LET newest == [t \in Tables |-> IF t \in Deps(item[r]) THEN gen[t] ELSE 0]
     IN cache' = [cache EXCEPT ![<<item[r], newest>>] = [age |-> "fresh", data |-> data[r]]]
  /\ Goto(r, IF held[r] = "none" THEN "answered" ELSE "unlock")
  /\ UNCHANGED <<shared, locks, item, asked, gens, floor, polls, held, data, entryFaults>>

Set(r) ==
  /\ stage[r] = "set"
  /\ \/ /\ cache' = [cache EXCEPT ![Key(r)] = [age |-> "fresh", data |-> data[r]]]
        /\ UNCHANGED entryFaults
     \/ EntryStrikes /\ UNCHANGED cache
  /\ Goto(r, IF held[r] = "none" THEN "answered" ELSE "unlock")
  /\ UNCHANGED <<shared, locks, item, asked, gens, floor, polls, held, data>>

\* finally { DEL lock }, whoever holds it by now.
Unlock(r) ==
  /\ stage[r] \in {"unlock", "failed"}
  /\ \/ locks' = locks \ {<<held[r], Key(r)>>} /\ UNCHANGED entryFaults
     \/ held[r] # "none" /\ EntryStrikes /\ UNCHANGED locks
  /\ held' = [held EXCEPT ![r] = "none"]
  /\ Goto(r, CASE held[r] = "refresh" -> "ended"
               [] held[r] # "refresh" /\ stage[r] = "failed" -> "error"
               [] OTHER -> "answered")
  /\ UNCHANGED <<shared, cache, item, asked, gens, floor, polls, data>>

End(r) ==
  /\ stage[r] \in {"answered", "error", "ended"}
  /\ Goto(r, "idle")
  /\ item' = [item EXCEPT ![r] = AnItem]
  /\ gens' = [gens EXCEPT ![r] = Zero]
  /\ floor' = [floor EXCEPT ![r] = Zero]
  /\ polls' = [polls EXCEPT ![r] = 0]
  /\ data' = [data EXCEPT ![r] = Zero]
  /\ UNCHANGED <<shared, cache, locks, asked, held, entryFaults>>

-----------------------------------------------------------------------------
(* Redis: entries and locks run out.                                        *)

\* EX ttlSec, or 2 * ttlSec for swr, which serves the second half as stale.
Expire(k) ==
  /\ cache[k].age # "none"
  /\ cache' = IF cache[k].age = "fresh" /\ k[1] \in SWR
              THEN [cache EXCEPT ![k].age = "stale"]
              ELSE [cache EXCEPT ![k] = NoEntry]
  /\ UNCHANGED <<admin, locks, stage, item, asked, gens, floor, polls, held, data,
                 revision, budgets>>

Holders(l) == {r \in Readers : held[r] = l[1] /\ Key(r) = l[2]}

\* EX LOCK_TTL_SEC of a lock nobody is left to release, or of a slow fill.
Lapse(l) ==
  /\ l \in locks
  /\ locks' = locks \ {l}
  /\ lapsesLeft' = IF Holders(l) = {} THEN lapsesLeft ELSE lapsesLeft - 1
  /\ Holders(l) # {} => lapsesLeft > 0
  /\ UNCHANGED <<admin, cache, stage, item, asked, gens, floor, polls, held, data,
                 revision, entryFaults, genFaultsLeft>>

-----------------------------------------------------------------------------
ReaderStep(r) ==
  \/ \E t \in Tables : ReadGeneration(r, t) \/ GenerationFails(r, t)
  \/ AnswerRevision(r)
  \/ Lookup(r) \/ LookupFails(r)
  \/ Lock(r) \/ LockRefresh(r) \/ Recheck(r)
  \/ Poll(r) \/ GiveUp(r)
  \/ Fill(r) \/ FillFails(r) \/ Set(r) \/ Unlock(r)
  \/ End(r)

CacheNext ==
  \/ \E r \in Readers : ReaderStep(r) \/ \E i \in Items : StartRead(r, i)
  \/ \E t \in Tables : Write(t) \/ Bump(t) \/ BumpFails(t)
  \/ \E scope \in SUBSET Tables : StartInvalidation(scope)
  \/ \E k \in Keys : Expire(k)
  \/ \E l \in LockNames : Lapse(l)

CacheSpec == CacheInit /\ [][CacheNext]_cacheVars

\* Requests go on, and Redis drops what has run out.
CacheFairness ==
  /\ \A r \in Readers : WF_cacheVars(ReaderStep(r))
  /\ \A k \in Keys : WF_cacheVars(Expire(k))

CacheFairSpec == CacheSpec /\ CacheFairness

-----------------------------------------------------------------------------
CacheTypeOK ==
  /\ version \in Versions /\ mark \in Versions /\ announced \in Versions
  /\ gen \in Generations
  /\ since \in [Tables -> [0 .. MaxBumps -> 0 .. MaxVersion]]
  /\ todo \subseteq Tables
  /\ cache \in [Keys -> [age : {"none", "fresh", "stale"}, data : Versions]]
  /\ locks \subseteq LockNames
  /\ stage \in [Readers -> {"idle", "prefix", "lookup", "refresh", "lock", "recheck",
                            "wait", "served", "fill", "set", "unlock", "failed",
                            "answered", "error", "ended"}]
  /\ item \in [Readers -> Items] /\ gens \in [Readers -> Generations]
  /\ asked \in [Readers -> SUBSET Tables]
  /\ floor \in [Readers -> Versions] /\ data \in [Readers -> Versions]
  /\ polls \in [Readers -> 0 .. MaxPolls]
  /\ held \in [Readers -> {"none", "fill", "refresh"}]
  /\ revision \in [Readers -> Generations]
  /\ entryFaults \in 0 .. EntryFaultBudget /\ genFaultsLeft \in 0 .. GenFaultBudget
  /\ lapsesLeft \in 0 .. LapseBudget

(* What is cached under a generation was read after the bump that started   *)
(* the generation: a slow fill never puts old data before new readers, even *)
(* when commands fail and locks lapse (the keys of wrap and swr are built   *)
(* before the queries).                                                     *)
EntriesOfTheirGeneration ==
  \A k \in Keys : cache[k].age # "none" =>
    \A t \in Deps(k[1]) : cache[k].data[t] >= since[t][k[2][t]]

(* A request that begins after an invalidation was answered is not answered *)
(* with data from before it.                                                *)
InvalidatedNeverServed ==
  \A r \in Readers : stage[r] \in {"answered", "served"} /\ item[r] # "revision" =>
    \A t \in Deps(item[r]) : data[r][t] >= floor[r][t]

GenerationsServed == genFaultsLeft = GenFaultBudget

(* ... as long as no command on a generation has failed: failing fills and  *)
(* lookups and lapsing locks do not matter.                                 *)
FreshAfterInvalidation == GenerationsServed => InvalidatedNeverServed

\* The readers at work on the queries of an entry nobody has yet, or of one
\* that is past its time.
Fetching(k, kind) ==
  {r \in Readers : /\ stage[r] \in {"served", "fill", "set"} /\ Key(r) = k
                   /\ kind = "refresh" <=> held[r] = "refresh"}

(* At any time an entry is fetched by the reader that set its lock, and one *)
(* more for every lock that lapsed under a slow one: that one then deletes  *)
(* the lock of the next and lets in a third, but is done itself by then, so *)
(* of those at work while the lock is free there are no more than lapsed.   *)
(* Besides them it is fetched only by readers that have waited for another  *)
(* one's fill their whole time: they go without a lock, as many as waited.  *)
SingleFlight ==
  \A k \in Keys, kind \in {"fill", "refresh"} :
    Cardinality({r \in Fetching(k, kind) : polls[r] < MaxPolls})
      <= (LapseBudget - lapsesLeft) + (IF <<kind, k>> \in locks THEN 1 ELSE 0)

(* Every request is answered, also when the reader it waits for fails.      *)
ReadsEnd == \A r \in Readers : stage[r] # "idle" ~> stage[r] = "idle"

(* Once the tables are no longer written, the entries catch up with them,   *)
(* invalidated or not.                                                      *)
CacheCatchesUp ==
  <>[](\A k \in Keys : cache[k].age # "none" =>
         \A t \in Deps(k[1]) : cache[k].data[t] = version[t])
=============================================================================
