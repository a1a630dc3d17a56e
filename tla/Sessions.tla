------------------------------ MODULE Sessions ------------------------------
(***************************************************************************)
(* The sessions of one customer: access ids in Redis, refresh tokens in    *)
(* PostgreSQL.                                                             *)
(*                                                                         *)
(* Redis keeps a set of the customer's access ids, with a cap, and a key   *)
(* for each id that lives as long as the access token.  Login, refresh and *)
(* logout are each one transaction, and what they do to Redis is done when *)
(* they do it, before the COMMIT and whatever becomes of it.  A handler is *)
(* named by its id; so are the access id and the refresh token it issues.  *)
(***************************************************************************)
EXTENDS Naturals, FiniteSets, Sequences

CONSTANTS
  Handlers,      (* logins, refreshes, logouts and requests with a session   *)
  MaxSessions,   (* MAX_CUSTOMER_SESSIONS                                    *)
  Required,      (* a login fails when its access id cannot be registered    *)
  Fallback,      (* ACCESS_JTI_DB_FALLBACK_ENABLED                           *)
  MaxLapses,     (* bound on the access tokens that reach their end          *)
  FaultBudget    (* bound on the calls to Redis and PostgreSQL that fail     *)

ASSUME SessionsAssumption ==
  /\ IsFiniteSet(Handlers)
  /\ MaxSessions \in Nat \ {0}
  /\ {Required, Fallback} \subseteq BOOLEAN
  /\ {MaxLapses, FaultBudget} \subseteq Nat

VARIABLES
  runs,        (* the handlers                                               *)
  tokens,      (* the refresh token of each handler, as committed            *)
  spends,      (* tokens a transaction has consumed and not yet committed    *)
  sids,        (* Redis: the set of the customer's access ids                *)
  keys,        (* Redis: the ids whose own key is there                      *)
  aging,       (* registered ids that have not lapsed, the oldest first      *)
  active,      (* the user and the customer are active                       *)
  lapsesLeft, faultsLeft,
  ended,       (* history: ids somebody asked Redis to delete                *)
  strays,      (* history: ids registered between a revocation's two calls   *)
  since,       (* history: ids registered since the set was last empty       *)
  before       (* history: who had been answered when a handler began        *)

redis   == <<sids, keys, aging>>
history == <<ended, strays, since, before>>
vars == <<runs, tokens, spends, redis, active, lapsesLeft, faultsLeft, history>>

Kinds == {"login", "refresh", "logout", "check"}
Ends  == {"answered", "refused"}

\* token: the refresh token presented; access: the access id presented; rows:
\* the unconsumed tokens an UPDATE found; seen: the ids SMEMBERS returned;
\* kept: every call to Redis succeeded.
NoRun == [pc |-> "idle", kind |-> "check", token |-> {}, access |-> {},
          rows |-> {}, seen |-> {}, kept |-> TRUE]

Init ==
  /\ runs = [h \in Handlers |-> NoRun]
  /\ tokens = [h \in Handlers |-> "none"]
  /\ spends = [h \in Handlers |-> {}]
  /\ sids = {} /\ keys = {} /\ aging = <<>>
  /\ active = TRUE
  /\ lapsesLeft = MaxLapses /\ faultsLeft = FaultBudget
  /\ ended = {} /\ strays = {} /\ since = {}
  /\ before = [h \in Handlers |-> {}]

Strikes == faultsLeft > 0 /\ faultsLeft' = faultsLeft - 1

Answered(kinds) == {h \in Handlers : /\ runs[h].kind \in kinds
                                     /\ runs[h].pc = "answered"}
\* The handlers that gave the customer tokens.
Issuers == Answered({"login", "refresh"})

Live == {t \in Handlers : tokens[t] = "live"}

LockedFor(h) == UNION {spends[g] : g \in Handlers \ {h}}

\* Ids whose access token has come to its end, or was never registered.
Lapsed(h) == ~\E i \in 1 .. Len(aging) : aging[i] = h

Moves(h, pc) == runs' = [runs EXCEPT ![h].pc = pc]

-----------------------------------------------------------------------------
(* A handler begins.                                                        *)

\* A client presents tokens it was given; one that has lapsed is no token.
Begin(h, kind, token, access) ==
  /\ runs[h].pc = "idle"
  /\ token \cup access \subseteq Issuers
  /\ kind \in {"login", "check"} => token = {}
  /\ kind \in {"login", "refresh"} => access = {}
  /\ kind = "refresh" => token # {}
  /\ kind = "check" => access # {}
  /\ kind = "logout" => token \cup access # {}
  /\ \A a \in access : ~Lapsed(a)
  /\ runs' = [runs EXCEPT ![h] =
       [NoRun EXCEPT !.kind = kind, !.token = token, !.access = access,
          !.pc = CASE kind = "login" -> IF active THEN "registering" ELSE "refused"
                   [] kind = "refresh" -> "consuming"
                   [] kind = "logout" -> IF access = {} THEN "revoking"
                                         ELSE "unregistering"
                   [] kind = "check" -> "asking"]]
  /\ before' = [before EXCEPT ![h] = Answered(Kinds)]
  /\ UNCHANGED <<tokens, spends, redis, active, lapsesLeft, faultsLeft, ended,
                 strays, since>>

\* What a transaction does when it ends without COMMIT.
RollBack(h) ==
  /\ Moves(h, "refused")
  /\ spends' = [spends EXCEPT ![h] = {}]

-----------------------------------------------------------------------------
(* Registering an access id.                                                *)

\* Mutant: SPOP drops an id of the set and forgets its key.
KeysLeft(S) == keys

KeysOf(S) == {k \in keys : k \in S \/ k \notin sids}

Kept(count, cap) == IF count > cap THEN cap ELSE count

\* Mutant: the cap is reached one id too early.
DropsEarly(S) == Cardinality(S) - Kept(Cardinality(S), MaxSessions - 1)

Drops(S) == Cardinality(S) - Kept(Cardinality(S), MaxSessions)

\* SADD, SET with a lifetime and, beyond the cap, SPOP, in one script.  SPOP
\* takes any member, the one just added included.
Added(h, S) == LET all == sids \cup {h}
               IN S \subseteq all /\ Cardinality(S) = Cardinality(all) - Drops(all)

\* A revocation has read the set and not yet deleted it.
BeingRevoked == \E g \in Handlers : runs[g].pc = "deleting"

Registered(h) ==
  \E S \in SUBSET (sids \cup {h}) :
    /\ Added(h, S)
    /\ sids' = S
    /\ keys' = KeysOf(S) \cup (S \cap {h})
    /\ aging' = Append(aging, h)
    /\ strays' = IF BeingRevoked THEN strays \cup {h} ELSE strays
    /\ since' = (IF sids = {} THEN {} ELSE since) \cup {h}
    /\ UNCHANGED <<ended, before>>

Register(h) ==
  /\ runs[h].pc = "registering"
  /\ Registered(h)
  /\ Moves(h, "committing")
  /\ UNCHANGED <<tokens, spends, active, lapsesLeft, faultsLeft>>

\* The call fails, after the script has run or not.  A refresh does not mind.
RegisterFails(h) ==
  /\ runs[h].pc = "registering"
  /\ Strikes
  /\ Registered(h) \/ UNCHANGED <<redis, history>>
  /\ IF Required /\ runs[h].kind = "login"
     THEN RollBack(h)
     ELSE /\ runs' = [runs EXCEPT ![h].pc = "committing", ![h].kept = FALSE]
          /\ UNCHANGED spends
  /\ UNCHANGED <<tokens, active, lapsesLeft>>

-----------------------------------------------------------------------------
(* Refresh tokens.                                                          *)

\* Mutant: the UPDATE takes a row whose consumed_at it read before it waited.
TakenAsRead(h) == tokens[CHOOSE t \in runs[h].token : TRUE] # "none"

StillLive(h) == runs[h].token \subseteq Live

\* UPDATE ... WHERE consumed_at IS NULL, once no other transaction has the row;
\* the next token is inserted.  A consumed token begins the revocation of all.
Consume(h) ==
  /\ runs[h].pc = "consuming"
  /\ runs[h].token \cap LockedFor(h) = {}
  /\ IF StillLive(h)
     THEN /\ spends' = [spends EXCEPT ![h] = runs[h].token]
          /\ Moves(h, "registering")
     ELSE /\ Moves(h, "revoking")
          /\ UNCHANGED spends
  /\ UNCHANGED <<tokens, redis, active, lapsesLeft, faultsLeft, history>>

\* Mutant: only the token that was presented is revoked.
Presented(h) == runs[h].token

Unconsumed(h) == Live

\* The UPDATE of all unconsumed tokens of the user: its snapshot ...
BeginRevoke(h) ==
  /\ runs[h].pc = "revoking"
  /\ runs' = [runs EXCEPT ![h].pc = "updating", ![h].rows = Unconsumed(h)]
  /\ UNCHANGED <<tokens, spends, redis, active, lapsesLeft, faultsLeft, history>>

\* ... and its end, when no other transaction holds one of them.
Revoke(h) ==
  /\ runs[h].pc = "updating"
  /\ runs[h].rows \cap LockedFor(h) = {}
  /\ spends' = [spends EXCEPT ![h] = runs[h].rows \cap Live]
  /\ Moves(h, "listing")
  /\ UNCHANGED <<tokens, redis, active, lapsesLeft, faultsLeft, history>>

\* COMMIT.
Commit(h) ==
  /\ runs[h].pc = "committing"
  /\ tokens' = [t \in Handlers |->
       IF t \in spends[h] THEN "spent"
       ELSE IF t = h /\ runs[h].kind # "logout" THEN "live" ELSE tokens[t]]
  /\ spends' = [spends EXCEPT ![h] = {}]
  /\ Moves(h, "answered")
  /\ UNCHANGED <<redis, active, lapsesLeft, faultsLeft, history>>

-----------------------------------------------------------------------------
(* Revoking access ids.                                                     *)

Deleted(S) ==
  /\ keys' = keys \ S
  /\ ended' = ended \cup S
  /\ UNCHANGED <<aging, strays, since, before>>

AfterUnregister(h) == IF runs[h].kind = "logout" THEN "revoking" ELSE "refused"

\* DEL of the id's key, SREM from the set.
Unregister(h) ==
  /\ runs[h].pc = "unregistering"
  /\ Deleted(runs[h].access)
  /\ sids' = sids \ runs[h].access
  /\ Moves(h, AfterUnregister(h))
  /\ UNCHANGED <<tokens, spends, active, lapsesLeft, faultsLeft>>

UnregisterFails(h) ==
  /\ runs[h].pc = "unregistering"
  /\ Strikes
  /\ runs' = [runs EXCEPT ![h].pc = AfterUnregister(h), ![h].kept = FALSE]
  /\ UNCHANGED <<tokens, spends, redis, active, lapsesLeft, history>>

\* SMEMBERS.
List(h) ==
  /\ runs[h].pc = "listing"
  /\ runs' = [runs EXCEPT ![h].pc = "deleting", ![h].seen = sids]
  /\ UNCHANGED <<tokens, spends, redis, active, lapsesLeft, faultsLeft, history>>

\* A logout commits; the reuse of a consumed token ends in an error.
Revoked(h, kept) ==
  IF runs[h].kind = "logout"
  THEN /\ runs' = [runs EXCEPT ![h].pc = "committing", ![h].kept = @ /\ kept]
       /\ UNCHANGED spends
  ELSE RollBack(h)

\* DEL of the keys of the ids that were listed, and of the set.
Delete(h) ==
  /\ runs[h].pc = "deleting"
  /\ Deleted(runs[h].seen)
  /\ sids' = {}
  /\ Revoked(h, TRUE)
  /\ UNCHANGED <<tokens, active, lapsesLeft, faultsLeft>>

\* Either call fails, and the failure is swallowed.
RevocationFails(h) ==
  /\ runs[h].pc \in {"listing", "deleting"}
  /\ Strikes
  /\ Revoked(h, FALSE)
  /\ UNCHANGED <<tokens, redis, active, lapsesLeft, history>>

-----------------------------------------------------------------------------
(* A request with an access token.                                          *)

\* Mutant: an id that is not there is looked up in the database.
MissingFallsBack(h) == Fallback /\ runs[h].access # {}

IsListed(h) == runs[h].access \subseteq keys

\* EXISTS of the id's key.
AskRedis(h) ==
  /\ runs[h].pc = "asking"
  /\ Moves(h, IF IsListed(h) THEN "validating" ELSE "refused")
  /\ UNCHANGED <<tokens, spends, redis, active, lapsesLeft, faultsLeft, history>>

\* Redis fails: without the obligation, or with the fallback, the database
\* alone decides.
AskFails(h) ==
  /\ runs[h].pc = "asking"
  /\ Strikes
  /\ runs' = [runs EXCEPT
       ![h].pc = IF ~Required \/ Fallback THEN "validating" ELSE "refused",
       ![h].kept = FALSE]
  /\ UNCHANGED <<tokens, spends, redis, active, lapsesLeft, history>>

\* The cache of valid sessions is switched off: every request asks.
Validate(h) ==
  /\ runs[h].pc = "validating"
  /\ Moves(h, IF active THEN "answered" ELSE "unregistering")
  /\ UNCHANGED <<tokens, spends, redis, active, lapsesLeft, faultsLeft, history>>

-----------------------------------------------------------------------------
(* The rest of the world.                                                   *)

\* A statement, or the COMMIT, fails; what was done to Redis stays.
DatabaseFails(h) ==
  /\ runs[h].pc \in {"consuming", "revoking", "updating", "committing", "validating"}
  /\ Strikes
  /\ RollBack(h)
  /\ UNCHANGED <<tokens, redis, active, lapsesLeft, history>>

\* The oldest access token comes to its end; its id stays in the set as long as
\* a younger one has pushed the set's own end.
Lapse ==
  /\ lapsesLeft > 0 /\ aging # <<>>
  /\ lapsesLeft' = lapsesLeft - 1
  /\ aging' = Tail(aging)
  /\ keys' = keys \ {Head(aging)}
  /\ sids' = IF Tail(aging) = <<>> THEN {} ELSE sids
  /\ UNCHANGED <<runs, tokens, spends, active, faultsLeft, history>>

Block ==
  /\ active
  /\ active' = FALSE
  /\ UNCHANGED <<runs, tokens, spends, redis, lapsesLeft, faultsLeft, history>>

Step(h) == \/ Register(h) \/ Consume(h) \/ BeginRevoke(h) \/ Revoke(h)
           \/ Commit(h) \/ Unregister(h) \/ List(h) \/ Delete(h)
           \/ AskRedis(h) \/ Validate(h)

Fails(h) == \/ RegisterFails(h) \/ UnregisterFails(h) \/ RevocationFails(h)
            \/ AskFails(h) \/ DatabaseFails(h)

\* Handlers differ in name alone: one is named when it begins.
NextUp == CHOOSE h \in Handlers : runs[h].pc = "idle"

Presentable == {{}} \cup {{i} : i \in Issuers}

Next ==
  \/ \E h \in Handlers :
       \/ /\ runs[h].pc = "idle" /\ h = NextUp
          /\ \E kind \in Kinds, token, access \in Presentable :
               Begin(h, kind, token, access)
       \/ Step(h) \/ Fails(h)
  \/ Lapse
  \/ Block

Spec == Init /\ [][Next]_vars

-----------------------------------------------------------------------------
(* Properties.                                                              *)

Pcs == {"idle", "registering", "consuming", "revoking", "updating", "listing",
        "deleting", "unregistering", "asking", "validating", "committing"} \cup Ends

\* Every variable has its shape.
TypeOK ==
  /\ runs \in [Handlers -> [pc : Pcs, kind : Kinds, token : SUBSET Handlers,
                            access : SUBSET Handlers, rows : SUBSET Handlers,
                            seen : SUBSET Handlers, kept : BOOLEAN]]
  /\ tokens \in [Handlers -> {"none", "live", "spent"}]
  /\ spends \in [Handlers -> SUBSET Handlers]
  /\ sids \subseteq Handlers /\ keys \subseteq Handlers
  /\ aging \in Seq(Handlers)
  /\ active \in BOOLEAN
  /\ lapsesLeft \in Nat /\ faultsLeft \in Nat
  /\ ended \subseteq Handlers /\ strays \subseteq Handlers
  /\ since \subseteq Handlers
  /\ before \in [Handlers -> SUBSET Handlers]

\* However refreshes, logouts and revocations overlap and fail, a refresh token
\* is exchanged for new tokens at most once (consumeRefreshToken).
RotationIsAChain ==
  \A g, h \in Answered({"refresh"}) :
    g # h => runs[g].token \cap runs[h].token = {}

\* Once a logout is answered, no refresh token that had been handed out when it
\* began can be used, nor, if Redis did its part, any access id: but for an id
\* registered while a revocation was between its two calls (logoutCustomer).  A
\* refresh still in flight may hand out new ones.
LogoutEnds ==
  \A l \in Answered({"logout"}) :
    /\ before[l] \cap Live = {}
    /\ runs[l].kept => before[l] \cap keys \subseteq strays

\* A request is refused when its access token had been handed out before a
\* logout that was answered before the request: unless Redis failed one of the
\* two, or the id was registered while a revocation was between its two calls.
LoggedOutIsOut ==
  \A c \in Answered({"check"}) :
    \A l \in before[c] \cap Answered({"logout"}) :
      runs[c].kept /\ runs[l].kept => runs[c].access \cap before[l] \subseteq strays

\* A session the cap has taken: its token was handed out and has not lapsed,
\* Redis did its part and was never asked to delete it, and yet its key is gone.
Taken(h) == /\ h \in Issuers /\ runs[h].kept
            /\ h \notin ended /\ ~Lapsed(h) /\ h \notin keys

\* A lapsed id counts for the cap as long as younger ones push the end of the
\* set, so a customer with one device may lose his session when he refreshes.
\* However logins, refreshes, logouts and lapses follow each other, of the ids
\* registered since the set was last empty the cap has taken no more sessions
\* than were registered beyond it: none up to then, and never two for one
\* (ADD_SESSION_WITH_CAP_LUA).
CapTakesTheSurplus ==
  LET taken == {h \in since : Taken(h)}
  IN taken # {} => Cardinality(taken) + MaxSessions <= Cardinality(since)
=============================================================================
