----------------------------- MODULE LoginCodes -----------------------------
(***************************************************************************)
(* One-time codes: login by phone or e-mail, and change of a phone number. *)
(*                                                                         *)
(* The module follows one number (or one e-mail address) of one shop: the  *)
(* challenges of different ones never meet.  A request checks the cooldown *)
(* and the count of the window, spends the challenges that are still open, *)
(* inserts its own and sends the code.  For a login each statement commits *)
(* by itself; for a change of number all of it is one transaction, whose   *)
(* row carries the time of its BEGIN.  A verification is one transaction:  *)
(* it spends the challenge, finds or creates the account and opens a       *)
(* session; whatever it did before it refuses is rolled back.              *)
(*                                                                         *)
(* A number is unique as it is written (users.phone), while it is looked   *)
(* up in any of its forms: with 91 or +91 before it, too                   *)
(* (phoneMatchesStorage); so is an address, in any case.  Codes write the  *)
(* plain form alone; rows with a legacy form are there from the beginning, *)
(* and several users may match.                                            *)
(***************************************************************************)
EXTENDS Naturals, FiniteSets

CONSTANTS
  Requests,       (* requests of a code; each inserts at most one row       *)
  Verifications,  (* verifications of a code                                *)
  Customers,      (* the users there are at first                           *)
  Movers,         (* those among them who have another number then          *)
  Leavers,        (* bound on the users who may be blocked or move on       *)
  Channels,       (* {"phone", "email"}: what the codes are sent by         *)
  Resend,         (* OTP_RESEND_SECONDS                                     *)
  Ttl,            (* OTP_TTL_SECONDS                                        *)
  Window,         (* OTP_REQUEST_WINDOW_SECONDS                             *)
  MaxPerWindow,   (* OTP_MAX_REQUESTS_PER_WINDOW                            *)
  MaxAttempts,    (* OTP_MAX_ATTEMPTS                                       *)
  Recent,         (* how many challenges a phone login looks at             *)
  MaxConcurrent,  (* bound on the requests in progress at one time          *)
  MaxTime,        (* bound on the clock                                     *)
  FaultBudget     (* bound on the statements and sends that fail            *)

ASSUME LoginAssumption ==
  /\ IsFiniteSet(Requests) /\ Channels \subseteq {"phone", "email"}
  /\ Requests \cap Verifications = {} /\ Customers \cap Verifications = {}
  /\ "nobody" \notin Customers \cup Verifications
  /\ {Resend, Ttl, Window, MaxTime, FaultBudget} \subseteq Nat
  /\ {MaxPerWindow, MaxAttempts, Recent, MaxConcurrent} \subseteq Nat \ {0}
  /\ Ttl <= Window

VARIABLES
  channel,     (* what this behaviour's codes are sent by                   *)
  clock,
  stamps,      (* how many created_at times were given: they are distinct   *)
  rows,        (* the challenge of each request, as committed               *)
  asks,        (* the requests                                              *)
  tries,       (* the verifications                                         *)
  held,        (* challenges a transaction has spent and not yet committed  *)
  sent,        (* requests whose code may have reached the customer         *)
  phone,       (* how each user's row has the number or address, if it does *)
  standing,    (* each user's customer and membership in the shop           *)
  faultsLeft

vars == <<channel, clock, stamps, rows, asks, tries, held, sent, phone,
          standing, faultsLeft>>

Handlers == Requests \cup Verifications
NoRow    == [state |-> "none", stamp |-> 0, made |-> 0, until |-> 0,
             attempts |-> 0]
NoAsk    == [pc |-> "idle", kind |-> "login", now |-> 0, stamp |-> 0,
             open |-> {}]
NoTry    == [pc |-> "idle", kind |-> "login", code |-> {}, target |-> {},
             user |-> "nobody", moved |-> FALSE, claims |-> FALSE,
             enrols |-> FALSE, used |-> {}]

\* The user a verification creates is called by its name.
Users == Customers \cup Verifications

Kinds   == IF channel = "phone" THEN {"login", "change"} ELSE {"login"}
AskEnds == {"sent", "refused", "failed"}
TryEnds == {"in", "refused"}
Busy    == {r \in Requests : asks[r].pc \notin {"idle"} \cup AskEnds}

Init ==
  /\ channel \in Channels
  /\ clock = 0 /\ stamps = 0
  /\ rows = [r \in Requests |-> NoRow]
  /\ asks = [r \in Requests |-> NoAsk]
  /\ tries = [v \in Verifications |-> NoTry]
  /\ held = [h \in Handlers |-> {}]
  /\ sent = {}
  /\ phone \in [Users -> {"other", "plain", "legacy"}]
  /\ standing \in [Users -> {"none", "good", "blocked"}]
  /\ \A t, u \in Users : phone[t] = "plain" /\ phone[u] = "plain" => t = u
  /\ \A v \in Verifications : phone[v] = "other" /\ standing[v] = "none"
  /\ \A u \in Movers \cap Customers : phone[u] = "other"
  \* Without the number and without an account a user plays no part.
  /\ \A u \in Customers : phone[u] = "other" => standing[u] = "good"
  /\ faultsLeft = FaultBudget

Strikes == faultsLeft > 0 /\ faultsLeft' = faultsLeft - 1

-----------------------------------------------------------------------------
(* Reading challenges.                                                      *)

Inserted   == {r \in Requests : rows[r].state # "none"}
Open       == {r \in Requests : rows[r].state = "open"}
Newer(q)   == {r \in Inserted : rows[r].stamp > rows[q].stamp}
Latest     == {q \in Inserted : Newer(q) = {}}

\* Mutant: a spent challenge still counts.
InTime(q) == Inserted # {} /\ rows[q].until > clock

Alive(q) == rows[q].state = "open" /\ rows[q].until > clock

\* Mutant: one challenge less than the window may hold.
FewerSeen == {q \in Inserted : Cardinality(Newer(q)) < Recent - 1}

RecentRows == {q \in Inserted : Cardinality(Newer(q)) < Recent}

\* A phone login accepts any open one of the recent challenges; the other
\* verifications look at the latest challenge alone.
Candidates(kind) ==
  {q \in IF channel = "phone" /\ kind = "login" THEN RecentRows ELSE Latest :
     Alive(q)}

LockedFor(h) == UNION {held[g] : g \in Handlers \ {h}}

Holders == {u \in Users : phone[u] # "other"}

\* The customer of another user has the number, in any form.
TakenByAnother(user) == \E u \in Holders \ {user} : standing[u] = "good"

\* Who asks: anyone for a login, a customer who is signed in for a change.
Askers(kind) == IF kind = "login" THEN {"nobody"}
                ELSE {u \in Users : standing[u] = "good"}

-----------------------------------------------------------------------------
(* Requests.                                                                *)

Cooling == \E q \in Latest : /\ rows[q].state = "open"
                             /\ rows[q].made + Resend > clock

\* Up to the first two checks; a change of number has begun its transaction.
Ask(r, kind) ==
  \E user \in Askers(kind) :
    LET allowed == /\ ~Cooling
                   /\ kind = "change" => user \notin Holders /\ ~TakenByAnother(user)
    IN /\ asks[r].pc = "idle"
       /\ kind \in Kinds
       /\ Cardinality(Busy) < MaxConcurrent
       /\ asks' = [asks EXCEPT ![r] =
            [pc |-> IF allowed THEN "counting" ELSE "refused", kind |-> kind,
             now |-> clock, stamp |-> stamps, open |-> {}]]
       /\ stamps' = IF allowed /\ kind = "change" THEN stamps + 1 ELSE stamps
       /\ UNCHANGED <<channel, clock, rows, tries, held, sent, phone, standing,
                      faultsLeft>>

InWindow(r) == {q \in Inserted : rows[q].made + Window >= asks[r].now}

\* Mutant: the limit is passed by one.
LimitPassed(r) == Cardinality(InWindow(r)) > MaxPerWindow

LimitReached(r) == Cardinality(InWindow(r)) >= MaxPerWindow

Count(r) ==
  /\ asks[r].pc = "counting"
  /\ asks' = [asks EXCEPT ![r].pc =
                IF LimitReached(r) THEN "refused" ELSE "hashing"]
  /\ UNCHANGED <<channel, clock, stamps, rows, tries, held, sent, phone,
                 standing, faultsLeft>>

\* The UPDATE of the open challenges: its snapshot, and its end, when no other
\* transaction holds one of them.
BeginSupersede(r) ==
  /\ asks[r].pc = "hashing"
  /\ asks' = [asks EXCEPT ![r].pc = "superseding", ![r].open = Open]
  /\ UNCHANGED <<channel, clock, stamps, rows, tries, held, sent, phone,
                 standing, faultsLeft>>

\* Mutant: changes share a lock first, and each waits for the others to let go.
SharesFirst(r) ==
  /\ asks[r].pc = "superseding"
  /\ \A q \in Requests \ {r} :
       asks[q].kind = "change" => asks[q].pc # "superseding"

CanSupersede(r) ==
  /\ asks[r].pc = "superseding"
  /\ asks[r].open \cap LockedFor(r) = {}

Spent(S) == [q \in Requests |-> IF q \in S
                                THEN [rows[q] EXCEPT !.state = "spent"]
                                ELSE rows[q]]

Supersede(r) ==
  /\ CanSupersede(r)
  /\ asks' = [asks EXCEPT ![r].pc = "inserting"]
  /\ IF asks[r].kind = "login"
     THEN rows' = Spent(asks[r].open) /\ UNCHANGED held
     ELSE held' = [held EXCEPT ![r] = asks[r].open \cap Open] /\ UNCHANGED rows
  /\ UNCHANGED <<channel, clock, stamps, tries, sent, phone, standing,
                 faultsLeft>>

Row(r, stamp, made) ==
  [state |-> "open", stamp |-> stamp, made |-> made,
   until |-> asks[r].now + Ttl, attempts |-> 0]

Insert(r) ==
  /\ asks[r].pc = "inserting"
  /\ asks' = [asks EXCEPT ![r].pc = "sending"]
  /\ IF asks[r].kind = "login"
     THEN /\ rows' = [rows EXCEPT ![r] = Row(r, stamps, clock)]
          /\ stamps' = stamps + 1
     ELSE UNCHANGED <<rows, stamps>>
  /\ UNCHANGED <<channel, clock, tries, held, sent, phone, standing,
                 faultsLeft>>

Send(r) ==
  /\ asks[r].pc = "sending"
  /\ sent' = sent \cup {r}
  /\ asks' = [asks EXCEPT ![r].pc =
                IF asks[r].kind = "login" THEN "sent" ELSE "committing"]
  /\ UNCHANGED <<channel, clock, stamps, rows, tries, held, phone, standing,
                 faultsLeft>>

CommitChange(r) ==
  /\ asks[r].pc = "committing"
  /\ rows' = [Spent(held[r]) EXCEPT ![r] = Row(r, asks[r].stamp, asks[r].now)]
  /\ held' = [held EXCEPT ![r] = {}]
  /\ asks' = [asks EXCEPT ![r].pc = "sent"]
  /\ UNCHANGED <<channel, clock, stamps, tries, sent, phone, standing,
                 faultsLeft>>

\* The sender throws; the code may have gone out all the same.  A login then
\* spends its challenge, a change of number is rolled back.
SendFails(r) ==
  /\ asks[r].pc = "sending"
  /\ Strikes
  /\ sent' \in {sent, sent \cup {r}}
  /\ IF asks[r].kind = "login"
     THEN asks' = [asks EXCEPT ![r].pc = "undoing"] /\ UNCHANGED held
     ELSE /\ asks' = [asks EXCEPT ![r].pc = "failed"]
          /\ held' = [held EXCEPT ![r] = {}]
  /\ UNCHANGED <<channel, clock, stamps, rows, tries, phone, standing>>

Undo(r) ==
  /\ asks[r].pc = "undoing"
  /\ r \notin LockedFor(r)
  /\ rows' = Spent({r})
  /\ asks' = [asks EXCEPT ![r].pc = "failed"]
  /\ UNCHANGED <<channel, clock, stamps, tries, held, sent, phone, standing,
                 faultsLeft>>

\* A statement fails: what a login's statements did stays.
AskFails(r) ==
  /\ r \in Busy
  /\ asks[r].pc # "sending"
  /\ Strikes
  /\ asks' = [asks EXCEPT ![r].pc = "failed"]
  /\ held' = [held EXCEPT ![r] = {}]
  /\ UNCHANGED <<channel, clock, stamps, rows, tries, sent, phone, standing>>

-----------------------------------------------------------------------------
(* Verifications.                                                           *)

\* The codes that have opened a session.
Used == UNION {tries[w].code : w \in {x \in Verifications :
                                        tries[x].pc = "in"}}

Newest(S) == {q \in S : Newer(q) \cap S = {}}

\* The challenge is chosen from the rows as committed.  code is {} for a code
\* nobody was sent.
Look(v, kind, code) ==
  \E user \in Askers(kind) :
    LET active  == Candidates(kind)
        barred  == \/ active = {}
                   \/ \E q \in Newest(active) : rows[q].attempts >= MaxAttempts
                   \/ kind = "change" /\ TakenByAnother(user)
        matches == code # {} /\ code \subseteq active
    IN /\ tries[v].pc = "idle"
       /\ kind \in Kinds
       /\ tries' = [tries EXCEPT ![v] =
            [NoTry EXCEPT !.pc = IF barred THEN "refused"
                                 ELSE IF matches THEN "matched" ELSE "missed",
                          !.kind = kind, !.code = code, !.used = Used, !.user = user,
                          !.target = IF matches THEN code ELSE Newest(active)]]
       /\ UNCHANGED <<channel, clock, stamps, rows, asks, held, sent, phone,
                      standing, faultsLeft>>

CanWrite(v) == tries[v].target \cap LockedFor(v) = {}

\* What a transaction leaves behind that ends without COMMIT.
RolledBack(v) ==
  /\ tries' = [tries EXCEPT ![v].pc = "refused", ![v].claims = FALSE,
                            ![v].enrols = FALSE]
  /\ held' = [held EXCEPT ![v] = {}]
  /\ UNCHANGED rows

\* The attempt is counted on the newest challenge, which is spent when that was
\* the last one; the error that follows rolls both back.
Miss(v) ==
  /\ tries[v].pc = "missed"
  /\ CanWrite(v)
  /\ RolledBack(v)
  /\ UNCHANGED <<channel, clock, stamps, asks, sent, phone, standing,
                 faultsLeft>>

\* UPDATE ... WHERE consumed_at IS NULL; whether it found the row is not asked.
Consume(v) ==
  /\ tries[v].pc = "matched"
  /\ CanWrite(v)
  /\ held' = [held EXCEPT ![v] = tries[v].target \cap Open]
  /\ tries' = [tries EXCEPT ![v].pc =
                 IF tries[v].kind = "login" THEN "resolving" ELSE "claiming"]
  /\ UNCHANGED <<channel, clock, stamps, rows, asks, sent, phone, standing,
                 faultsLeft>>

\* Any one user who matches (LIMIT 1): the order is not said.
Resolve(v) ==
  /\ tries[v].pc = "resolving"
  /\ tries' \in
       IF Holders = {} THEN {[tries EXCEPT ![v].pc = "claiming"]}
       ELSE {[tries EXCEPT ![v].user = u, ![v].pc = "enrolling"] : u \in Holders}
  /\ UNCHANGED <<channel, clock, stamps, rows, asks, held, sent, phone,
                 standing, faultsLeft>>

Claimer(v) == IF tries[v].kind = "login" THEN v ELSE tries[v].user

\* Mutant: the unique index is missed.
NeverTaken(v) == FALSE

\* The index compares what is written: a legacy form is not in the way.
AlreadyTaken(v) == \E u \in Users \ {Claimer(v)} : phone[u] = "plain"

NobodyClaims(v) == \A w \in Verifications \ {v} : ~tries[w].claims

\* INSERT of a user, or UPDATE of the user's phone: the unique index makes it
\* wait for a transaction that has claimed the number, and fail if the number
\* is another user's by then.  A failed INSERT has aborted the transaction, so
\* the second lookup fails too.
Claim(v) ==
  /\ tries[v].pc = "claiming"
  /\ NobodyClaims(v)
  /\ IF AlreadyTaken(v)
     THEN RolledBack(v)
     ELSE /\ tries' = [tries EXCEPT ![v].user = Claimer(v),
                         ![v].moved = FALSE, ![v].claims = TRUE,
                         ![v].pc = IF tries[v].kind = "login"
                                   THEN "enrolling" ELSE "granting"]
          /\ UNCHANGED <<held, rows>>
  /\ UNCHANGED <<channel, clock, stamps, asks, sent, phone, standing,
                 faultsLeft>>

Barred(v) == standing[tries[v].user] = "blocked"

\* The customer and the membership, each inserted or updated ON CONFLICT.
Enrol(v) ==
  /\ tries[v].pc = "enrolling"
  /\ \A w \in Verifications \ {v} : tries[w].enrols =>
       tries[w].user # tries[v].user
  /\ IF Barred(v)
     THEN RolledBack(v)
     ELSE /\ tries' = [tries EXCEPT ![v].enrols = TRUE, ![v].pc = "granting"]
          /\ UNCHANGED <<held, rows>>
  /\ UNCHANGED <<channel, clock, stamps, asks, sent, phone, standing,
                 faultsLeft>>

\* The session: the account is read once more, then the transaction commits.
Grant(v) ==
  /\ tries[v].pc = "granting"
  /\ IF Barred(v)
     THEN RolledBack(v) /\ UNCHANGED <<phone, standing>>
     ELSE /\ tries' = [tries EXCEPT ![v].pc = "in", ![v].claims = FALSE,
                                    ![v].enrols = FALSE]
          /\ rows' = Spent(held[v])
          /\ held' = [held EXCEPT ![v] = {}]
          /\ phone' = IF tries[v].claims
                      THEN [phone EXCEPT ![tries[v].user] = "plain"] ELSE phone
          /\ standing' = IF tries[v].enrols
                         THEN [standing EXCEPT ![tries[v].user] = "good"] ELSE standing
  /\ UNCHANGED <<channel, clock, stamps, asks, sent, faultsLeft>>

InTransaction(v) == tries[v].pc \notin {"idle"} \cup TryEnds

TryFails(v) ==
  /\ InTransaction(v)
  /\ Strikes
  /\ RolledBack(v)
  /\ UNCHANGED <<channel, clock, stamps, asks, sent, phone, standing>>

-----------------------------------------------------------------------------
(* The shop blocks a customer, a user moves on to another number, time      *)
(* passes.                                                                  *)

Block(u) ==
  /\ u \in Leavers /\ standing[u] = "good"
  /\ standing' = [standing EXCEPT ![u] = "blocked"]
  /\ UNCHANGED <<channel, clock, stamps, rows, asks, tries, held, sent, phone,
                 faultsLeft>>

\* The UPDATE waits for who has written the user's row, or inserted a customer
\* that refers to it.
RowFree(u) ==
  \A w \in Verifications : tries[w].user = u =>
    ~tries[w].claims /\ (tries[w].enrols => standing[u] # "none")

\* A change to another number is committed; moved is kept for the properties.
MoveOn(u) ==
  /\ u \in Leavers \cap Holders /\ RowFree(u)
  /\ phone' = [phone EXCEPT ![u] = "other"]
  /\ tries' = [w \in Verifications |->
       IF tries[w].user = u /\ tries[w].pc # "refused"
       THEN [tries[w] EXCEPT !.moved = TRUE] ELSE tries[w]]
  /\ UNCHANGED <<channel, clock, stamps, rows, asks, held, sent, standing,
                 faultsLeft>>

Tick ==
  /\ clock < MaxTime
  /\ clock' = clock + 1
  /\ UNCHANGED <<channel, stamps, rows, asks, tries, held, sent, phone,
                 standing, faultsLeft>>

AskStep(r) == \/ Count(r) \/ BeginSupersede(r) \/ Supersede(r) \/ Insert(r)
              \/ Send(r) \/ CommitChange(r) \/ Undo(r)

TryStep(v) == \/ Miss(v) \/ Consume(v) \/ Resolve(v) \/ Claim(v) \/ Enrol(v)
              \/ Grant(v)

Next ==
  \/ \E r \in Requests : \/ \E kind \in {"login", "change"} : Ask(r, kind)
                         \/ AskStep(r) \/ SendFails(r) \/ AskFails(r)
  \/ \E v \in Verifications :
       \/ \E kind \in {"login", "change"}, code \in {{}} \cup {{r} : r \in sent} :
            Look(v, kind, code)
       \/ TryStep(v) \/ TryFails(v)
  \/ \E u \in Users : Block(u) \/ MoveOn(u)
  \/ Tick

Spec == Init /\ [][Next]_vars

\* The database answers every statement; the sender answers or times out.
FairSpec ==
  /\ Spec
  /\ \A r \in Requests : WF_vars(AskStep(r))
  /\ \A v \in Verifications : WF_vars(TryStep(v))

-----------------------------------------------------------------------------
(* Properties.                                                              *)

\* The shape of every variable.
TypeOK ==
  /\ channel \in Channels
  /\ clock \in 0 .. MaxTime
  /\ stamps \in Nat
  /\ rows \in [Requests -> [state : {"none", "open", "spent"}, stamp : Nat,
                            made : Nat, until : Nat, attempts : Nat]]
  /\ asks \in [Requests ->
       [pc : {"idle", "counting", "hashing", "superseding", "inserting",
              "sending", "committing", "undoing"} \cup AskEnds,
        kind : {"login", "change"}, now : Nat, stamp : Nat,
        open : SUBSET Requests]]
  /\ tries \in [Verifications ->
       [pc : {"idle", "missed", "matched", "resolving", "claiming",
              "enrolling", "granting"} \cup TryEnds,
        kind : {"login", "change"}, code : SUBSET Requests,
        target : SUBSET Requests, user : Users \cup {"nobody"},
        moved : BOOLEAN, claims : BOOLEAN, enrols : BOOLEAN,
        used : SUBSET Requests]]
  /\ held \in [Handlers -> SUBSET Requests]
  /\ sent \subseteq Requests
  /\ phone \in [Users -> {"other", "plain", "legacy"}]
  /\ standing \in [Users -> {"none", "good", "blocked"}]
  /\ faultsLeft \in 0 .. FaultBudget

\* The limit of a window is checked and used in statements of their own: with
\* c requests at a time at most c - 1 rows more than the limit are written
\* within any stretch of time as long as the window.
SendsBounded ==
  \A t \in 0 .. MaxTime :
    Cardinality({r \in Inserted : rows[r].made \in t .. t + Window})
      <= MaxPerWindow + MaxConcurrent - 1

\* A phone login accepts every open challenge in time, however many requests,
\* superseded ones and late commits of changes of number lie between.
LiveCodeAccepted ==
  channel = "phone" =>
    \A q \in Requests : Alive(q) => q \in Candidates("login")

\* A code opens a second session only for a verification that began before the
\* first had committed: said of the codes used when it began.
ReplaysOverlap ==
  \A v \in Verifications : tries[v].pc = "in" =>
    tries[v].code \cap tries[v].used = {}

\* Whatever first logins and changes of number race for it: a code opens the
\* session of a user who has the number or has moved on since the verification
\* found him, and the codes of a number open sessions of two users only where
\* one has it in a legacy form or has moved on.
SessionsOfHolder ==
  LET opened == {v \in Verifications : tries[v].pc = "in"}
      form(v) == phone[tries[v].user]
  IN /\ \A v \in opened : form(v) = "other" => tries[v].moved
     /\ \A v, w \in opened : tries[v].user # tries[w].user =>
          \E x \in {v, w} : form(x) = "legacy" \/ tries[x].moved

\* Requests and verifications never wait for each other in a circle: whatever
\* the order they come in, the time comes when all that were begun have ended.
AllAnswered ==
  []<>(Busy = {} /\ \A v \in Verifications : ~InTransaction(v))
=============================================================================
