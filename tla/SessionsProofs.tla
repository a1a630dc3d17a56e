---------------------------- MODULE SessionsProofs ----------------------------
(* Proofs about Sessions: a refresh token is exchanged once, a logout ends     *)
(* what had been handed out before it, and the cap takes no more sessions than *)
(* were registered beyond it.                                                  *)
EXTENDS Sessions, SequenceTheorems, FiniteSetTheorems, TLAPS

RunType == [pc : Pcs, kind : Kinds, token : SUBSET Handlers,
            access : SUBSET Handlers, rows : SUBSET Handlers,
            seen : SUBSET Handlers, kept : BOOLEAN]

(* A handler does only what its kind does.                                     *)
KindsKept ==
  \A h \in Handlers :
    /\ runs[h].pc = "registering" => runs[h].kind \in {"login", "refresh"}
    /\ runs[h].pc = "consuming" => runs[h].kind = "refresh"
    /\ runs[h].pc \in {"asking", "validating"} => runs[h].kind = "check"
    /\ runs[h].pc = "committing" => runs[h].kind # "check"

(* Who is waited for has been answered, and a live token was handed out.       *)
Past ==
  /\ \A h \in Handlers : before[h] \subseteq Answered(Kinds)
  /\ \A h \in Handlers : tokens[h] # "none" => runs[h].pc = "answered"
  /\ \A h \in Handlers : runs[h].token \subseteq Issuers

(* Two transactions consume no token together, and none that is spent.         *)
SpendsApart ==
  /\ \A h \in Handlers : spends[h] \subseteq Live
  /\ \A g, h \in Handlers : g # h => spends[g] \cap spends[h] = {}

(* What a refresh presented is consumed by it, and then spent.                 *)
Exchanged ==
  \A h \in Handlers : runs[h].kind = "refresh" =>
    /\ runs[h].pc \in {"registering", "committing"} => spends[h] = runs[h].token
    /\ runs[h].pc = "answered" => \A t \in runs[h].token : tokens[t] = "spent"

(* The refresh tokens a logout has yet to revoke are among those it found.     *)
TokensEnding ==
  \A l \in Handlers : runs[l].kind = "logout" =>
    /\ runs[l].pc = "updating" => before[l] \cap Live \subseteq runs[l].rows
    /\ runs[l].pc \in {"listing", "deleting", "committing"} =>
         before[l] \cap Live \subseteq spends[l]
    /\ runs[l].pc = "answered" => before[l] \cap Live = {}

(* A key whose id is not in the set was registered during a revocation, and so *)
(* was one a revocation will not delete.                                       *)
KeysListed ==
  /\ keys \subseteq sids \cup strays
  /\ keys \subseteq {aging[i] : i \in 1 .. Len(aging)}
  /\ \A g \in Handlers : runs[g].pc = "deleting" => keys \subseteq runs[g].seen \cup strays

(* A logout that has done its part in Redis has left no key.                   *)
KeysEnding ==
  \A l \in Handlers :
    /\ runs[l].kind = "logout" /\ runs[l].pc \in {"committing", "answered"}
    /\ runs[l].kept
    => before[l] \cap keys \subseteq strays

(* A request that is let in had a key.                                         *)
LetIn ==
  \A c \in Handlers :
    /\ runs[c].kind = "check" /\ runs[c].pc \in {"validating", "answered"}
    /\ runs[c].kept
    => \A l \in before[c] \cap Answered({"logout"}) :
         runs[l].kept => runs[c].access \cap before[l] \subseteq strays

-----------------------------------------------------------------------------
(* Types.                                                                      *)

LEMMA InitType == Init => TypeOK
BY SessionsAssumption DEF Init, TypeOK, NoRun, Pcs, Kinds, Ends

RunsOK  == runs \in [Handlers -> RunType]
DbOK    == /\ tokens \in [Handlers -> {"none", "live", "spent"}]
           /\ spends \in [Handlers -> SUBSET Handlers]
           /\ active \in BOOLEAN /\ faultsLeft \in Nat /\ lapsesLeft \in Nat
RedisOK == /\ sids \subseteq Handlers /\ keys \subseteq Handlers
           /\ aging \in Seq(Handlers)
           /\ ended \subseteq Handlers /\ strays \subseteq Handlers
           /\ since \subseteq Handlers
           /\ before \in [Handlers -> SUBSET Handlers]

LEMMA TypeSplit == TypeOK <=> RunsOK /\ DbOK /\ RedisOK
BY DEF TypeOK, RunsOK, RunType, DbOK, RedisOK

LEMMA SetsTyped ==
  /\ \A kinds : Answered(kinds) \subseteq Handlers
  /\ Issuers \subseteq Handlers /\ Live \subseteq Handlers
BY DEF Answered, Issuers, Live

LEMMA RedisSame == ASSUME RedisOK, UNCHANGED <<redis, history>> PROVE RedisOK'
BY DEF RedisOK, redis, history

(* A handler that only goes on keeps its record.                               *)
LEMMA MovesType ==
  ASSUME RunsOK, NEW h \in Handlers, NEW pc \in Pcs, Moves(h, pc) PROVE RunsOK'
BY DEF RunsOK, RunType, Moves

LEMMA FlagType ==
  ASSUME RunsOK, NEW h \in Handlers, NEW pc \in Pcs, NEW kept \in BOOLEAN,
         runs' = [runs EXCEPT ![h].pc = pc, ![h].kept = kept]
  PROVE  RunsOK'
<1> DEFINE first == [runs EXCEPT ![h].pc = pc]
<1>1. first \in [Handlers -> RunType]
  BY DEF RunsOK, RunType
<1>2. runs' = [first EXCEPT ![h].kept = kept]
  OBVIOUS
<1>3. runs' = [first EXCEPT ![h] = [first[h] EXCEPT !.kept = kept]]
  BY <1>1, <1>2
<1>4. [first[h] EXCEPT !.kept = kept] \in RunType
  <2> first[h] \in RunType
    BY <1>1
  <2> HIDE DEF first
  <2> QED
    BY DEF RunType
<1> HIDE DEF first
<1> QED
  BY <1>1, <1>3, <1>4 DEF RunsOK

LEMMA SpendsType ==
  ASSUME DbOK, NEW h \in Handlers, NEW S, S \subseteq Handlers,
         spends' = [spends EXCEPT ![h] = S]
  PROVE  spends' \in [Handlers -> SUBSET Handlers]
BY DEF DbOK

LEMMA PcsAre ==
  /\ {"registering", "consuming", "revoking", "updating", "listing", "deleting",
      "unregistering", "asking", "validating", "committing", "answered",
      "refused"} \subseteq Pcs
BY DEF Pcs, Ends

LEMMA RollBackType ==
  ASSUME RunsOK, DbOK, NEW h \in Handlers, RollBack(h)
  PROVE  RunsOK' /\ spends' \in [Handlers -> SUBSET Handlers]
<1>1. RunsOK'
  BY MovesType, PcsAre DEF RollBack
<1>2. spends' \in [Handlers -> SUBSET Handlers]
  BY SpendsType DEF RollBack
<1> QED
  BY <1>1, <1>2

LEMMA BeginType ==
  ASSUME RunsOK, DbOK, RedisOK, NEW h \in Handlers, NEW kind \in Kinds,
         NEW token, NEW access, Begin(h, kind, token, access)
  PROVE  RunsOK' /\ DbOK' /\ RedisOK'
<1>1. token \subseteq Handlers /\ access \subseteq Handlers
  BY SetsTyped DEF Begin
<1>2. RedisOK'
  BY SetsTyped DEF Begin, RedisOK, redis
<1>3. RunsOK'
  <2> DEFINE pc == CASE kind = "login" -> IF active THEN "registering" ELSE "refused"
                     [] kind = "refresh" -> "consuming"
                     [] kind = "logout" -> IF access = {} THEN "revoking"
                                           ELSE "unregistering"
                     [] kind = "check" -> "asking"
             run == [NoRun EXCEPT !.kind = kind, !.token = token, !.access = access,
                       !.pc = pc]
  <2>1. pc \in Pcs
    BY PcsAre DEF Kinds
  <2>2. run \in RunType
    BY <1>1, <2>1 DEF NoRun, RunType
  <2>3. runs' = [runs EXCEPT ![h] = run]
    BY DEF Begin
  <2> QED
    BY <2>2, <2>3 DEF RunsOK
<1>4. DbOK'
  BY DEF Begin, DbOK
<1> QED
  BY <1>2, <1>3, <1>4

LEMMA RegisteredType ==
  ASSUME RedisOK, NEW h \in Handlers, Registered(h) PROVE RedisOK'
<1>1. sids' \subseteq Handlers /\ keys' \subseteq Handlers
  BY DEF Registered, RedisOK, KeysOf
<1>2. aging' \in Seq(Handlers)
  <2> aging' = Append(aging, h)
    BY DEF Registered
  <2> QED
    BY AppendProperties DEF RedisOK
<1> QED
  BY <1>1, <1>2 DEF Registered, RedisOK

LEMMA DeletedType ==
  ASSUME RedisOK, NEW S, S \subseteq Handlers, Deleted(S), sids' \subseteq Handlers
  PROVE  RedisOK'
BY DEF Deleted, RedisOK

LEMMA StepType ==
  ASSUME RunsOK, DbOK, RedisOK, NEW h \in Handlers, Step(h)
  PROVE  RunsOK' /\ DbOK' /\ RedisOK'
<1> runs[h] \in RunType
  BY DEF RunsOK
<1>1. CASE Register(h)
  BY <1>1, RegisteredType, MovesType, PcsAre DEF Register, DbOK
<1>2. CASE Consume(h)
  <2>1. RunsOK'
    BY <1>2, MovesType, PcsAre DEF Consume
  <2>2. spends' \in [Handlers -> SUBSET Handlers]
    BY <1>2 DEF Consume, DbOK, RunType
  <2> QED
    BY <1>2, <2>1, <2>2, RedisSame DEF Consume, DbOK
<1>3. CASE BeginRevoke(h)
  <2>1. RunsOK'
    BY <1>3, SetsTyped, PcsAre DEF BeginRevoke, RunsOK, RunType, Unconsumed
  <2> QED
    BY <1>3, <2>1, RedisSame DEF BeginRevoke, DbOK
<1>4. CASE Revoke(h)
  <2>1. RunsOK'
    BY <1>4, MovesType, PcsAre DEF Revoke
  <2>2. spends' \in [Handlers -> SUBSET Handlers]
    BY <1>4, SetsTyped DEF Revoke, DbOK
  <2> QED
    BY <1>4, <2>1, <2>2, RedisSame DEF Revoke, DbOK
<1>5. CASE Commit(h)
  <2>1. RunsOK'
    BY <1>5, MovesType, PcsAre DEF Commit
  <2>2. spends' \in [Handlers -> SUBSET Handlers]
    BY <1>5, SpendsType DEF Commit
  <2> QED
    BY <1>5, <2>1, <2>2, RedisSame DEF Commit, DbOK
<1>6. CASE Unregister(h)
  <2>1. RunsOK'
    BY <1>6, MovesType, PcsAre DEF Unregister, AfterUnregister
  <2>2. RedisOK'
    BY <1>6, DeletedType DEF Unregister, RedisOK, RunType
  <2> QED
    BY <1>6, <2>1, <2>2 DEF Unregister, DbOK
<1>7. CASE List(h)
  <2>1. RunsOK'
    BY <1>7, PcsAre DEF List, RunsOK, RunType, RedisOK
  <2> QED
    BY <1>7, <2>1, RedisSame DEF List, DbOK
<1>8. CASE Delete(h)
  <2>1. RunsOK' /\ spends' \in [Handlers -> SUBSET Handlers]
    <3>1. CASE runs[h].kind = "logout"
      <4> runs' = [runs EXCEPT ![h].pc = "committing", ![h].kept = runs[h].kept /\ TRUE]
        BY <1>8, <3>1 DEF Delete, Revoked
      <4>1. RunsOK'
        BY FlagType, PcsAre DEF RunType
      <4> QED
        BY <1>8, <3>1, <4>1 DEF Delete, Revoked, DbOK
    <3>2. CASE runs[h].kind # "logout"
      BY <1>8, <3>2, RollBackType DEF Delete, Revoked
    <3> QED
      BY <3>1, <3>2
  <2>2. RedisOK'
    BY <1>8, DeletedType DEF Delete, RunType
  <2> QED
    BY <1>8, <2>1, <2>2 DEF Delete, DbOK
<1>9. CASE AskRedis(h) \/ Validate(h)
  <2>1. RunsOK'
    BY <1>9, MovesType, PcsAre DEF AskRedis, Validate
  <2> QED
    BY <1>9, <2>1, RedisSame DEF AskRedis, Validate, DbOK
<1> QED
  BY <1>1, <1>2, <1>3, <1>4, <1>5, <1>6, <1>7, <1>8, <1>9 DEF Step

LEMMA FailsType ==
  ASSUME RunsOK, DbOK, RedisOK, NEW h \in Handlers, Fails(h)
  PROVE  RunsOK' /\ DbOK' /\ RedisOK'
<1> runs[h] \in RunType
  BY DEF RunsOK
<1>1. faultsLeft' \in Nat
  <2> Strikes
    BY DEF Fails, RegisterFails, UnregisterFails, RevocationFails, AskFails,
           DatabaseFails
  <2> QED
    BY DEF Strikes, DbOK
<1>2. CASE RegisterFails(h)
  <2>1. RedisOK'
    BY <1>2, RegisteredType, RedisSame DEF RegisterFails
  <2>2. RunsOK' /\ spends' \in [Handlers -> SUBSET Handlers]
    <3>1. CASE RollBack(h)
      BY <3>1, RollBackType
    <3>2. CASE /\ runs' = [runs EXCEPT ![h].pc = "committing", ![h].kept = FALSE]
               /\ UNCHANGED spends
      BY <3>2, FlagType, PcsAre DEF DbOK
    <3> QED
      BY <1>2, <3>1, <3>2 DEF RegisterFails
  <2> QED
    BY <1>1, <1>2, <2>1, <2>2 DEF RegisterFails, DbOK
<1>3. CASE UnregisterFails(h)
  <2>1. RunsOK'
    BY <1>3, FlagType, PcsAre DEF UnregisterFails, AfterUnregister
  <2> QED
    BY <1>1, <1>3, <2>1, RedisSame DEF UnregisterFails, DbOK
<1>4. CASE RevocationFails(h)
  <2>1. RunsOK' /\ spends' \in [Handlers -> SUBSET Handlers]
    <3>1. CASE RollBack(h)
      BY <3>1, RollBackType
    <3>2. CASE /\ runs' = [runs EXCEPT ![h].pc = "committing", ![h].kept = @ /\ FALSE]
               /\ UNCHANGED spends
      <4> runs' = [runs EXCEPT ![h].pc = "committing", ![h].kept = runs[h].kept /\ FALSE]
        BY <3>2
      <4> QED
        BY <3>2, FlagType, PcsAre DEF DbOK, RunType
    <3> QED
      BY <1>4, <3>1, <3>2 DEF RevocationFails, Revoked
  <2> QED
    BY <1>1, <1>4, <2>1, RedisSame DEF RevocationFails, DbOK
<1>5. CASE AskFails(h)
  <2>1. RunsOK'
    BY <1>5, FlagType, PcsAre DEF AskFails
  <2> QED
    BY <1>1, <1>5, <2>1, RedisSame DEF AskFails, DbOK
<1>6. CASE DatabaseFails(h)
  BY <1>1, <1>6, RollBackType, RedisSame DEF DatabaseFails, DbOK
<1> QED
  BY <1>2, <1>3, <1>4, <1>5, <1>6 DEF Fails

LEMMA NextType == ASSUME TypeOK, [Next]_vars PROVE TypeOK'
<1> RunsOK /\ DbOK /\ RedisOK
  BY TypeSplit
<1> SUFFICES RunsOK' /\ DbOK' /\ RedisOK'
  BY DEF TypeOK, RunsOK, RunType, DbOK, RedisOK
<1>1. CASE UNCHANGED vars
  BY <1>1, RedisSame DEF vars, RunsOK, DbOK
<1>2. CASE Block
  BY <1>2, RedisSame DEF Block, RunsOK, DbOK
<1>3. CASE Lapse
  <2>1. aging' \in Seq(Handlers)
    BY <1>3, HeadTailProperties DEF Lapse, RedisOK
  <2>2. RedisOK'
    BY <1>3, <2>1 DEF Lapse, RedisOK, history
  <2> QED
    BY <1>3, <2>2 DEF Lapse, RunsOK, DbOK
<1> QED
  BY <1>1, <1>2, <1>3, BeginType, StepType, FailsType DEF Next

-----------------------------------------------------------------------------
(* Refresh tokens.                                                             *)

TokenInv == KindsKept /\ Past /\ SpendsApart /\ Exchanged /\ TokensEnding

(* h goes on, as one of the others' transactions and as no transaction at all. *)
Onward(h) ==
  /\ runs[h].pc \notin Ends \cup {"idle"}
  /\ \A g \in Handlers : g # h => runs'[g] = runs[g]
  /\ runs'[h].kind = runs[h].kind /\ runs'[h].token = runs[h].token
  /\ runs'[h].rows = runs[h].rows
  /\ runs'[h].pc \notin {"registering", "consuming", "asking", "updating"}
  /\ runs'[h].pc = "validating" => runs[h].pc = "asking"
  /\ runs'[h].pc = "answered" => runs[h].pc = "validating"
  /\ runs'[h].pc \in {"listing", "deleting", "committing"} =>
       \/ runs[h].pc \in {"registering", "listing"}
       \/ runs[h].pc = "deleting" /\ runs[h].kind = "logout"
  /\ runs'[h].pc = "committing" /\ runs[h].pc = "listing" => runs[h].kind = "logout"
  /\ UNCHANGED <<tokens, before>>

LEMMA OnwardKeeps ==
  ASSUME TypeOK, TokenInv, NEW h \in Handlers, Onward(h),
         \/ UNCHANGED spends
         \/ runs'[h].pc = "refused" /\ spends' = [spends EXCEPT ![h] = {}]
  PROVE  TokenInv'
<1> USE DEF TokenInv
<1>1. KindsKept'
  BY DEF KindsKept, Onward
<1>2. \A kinds : Answered(kinds) \subseteq Answered(kinds)'
  BY DEF Answered, Onward, Ends
<1>3. Past'
  BY <1>2 DEF Past, Onward, Ends, Issuers
<1>4. Live' = Live
  BY DEF Live, Onward
<1>5. \A g \in Handlers : spends'[g] = spends[g] \/ (g = h /\ spends'[g] = {})
  BY DEF TypeOK
<1>6. SpendsApart'
  <2> \A g \in Handlers : spends'[g] \subseteq spends[g]
    BY <1>5
  <2> QED
    BY <1>4 DEF SpendsApart
<1>7. \A g \in Handlers : g # h \/ runs'[h].pc # "refused" => spends'[g] = spends[g]
  BY DEF TypeOK
<1>8. Exchanged'
  BY <1>7 DEF Exchanged, Onward, KindsKept
<1>9. TokensEnding'
  BY <1>4, <1>7 DEF TokensEnding, Onward, KindsKept
<1> QED
  BY <1>1, <1>3, <1>6, <1>8, <1>9

LEMMA InitTokens == Init => TokenInv
BY DEF Init, NoRun, TokenInv, KindsKept, Past, SpendsApart, Exchanged, TokensEnding

LEMMA BeginTokens ==
  ASSUME TypeOK, TokenInv, NEW h \in Handlers, NEW kind \in Kinds,
         NEW token, NEW access, Begin(h, kind, token, access)
  PROVE  TokenInv'
<1> USE DEF TokenInv
<1>1. /\ runs[h].pc = "idle"
      /\ runs'[h].pc \in {"registering", "refused", "consuming", "revoking",
                          "unregistering", "asking"}
      /\ runs'[h].pc = "registering" => runs'[h].kind = "login"
      /\ runs'[h].pc = "consuming" => runs'[h].kind = "refresh"
      /\ runs'[h].pc = "asking" => runs'[h].kind = "check"
      /\ runs'[h].token = token /\ token \subseteq Issuers
      /\ \A g \in Handlers : g # h => runs'[g] = runs[g]
  BY DEF Begin, NoRun, TypeOK, Kinds
<1>2. /\ UNCHANGED <<tokens, spends>>
      /\ before' = [before EXCEPT ![h] = Answered(Kinds)]
  BY DEF Begin
<1>3. KindsKept'
  BY <1>1 DEF KindsKept
<1>4. \A kinds : Answered(kinds) \subseteq Answered(kinds)'
  BY <1>1 DEF Answered
<1>5. Past'
  BY <1>1, <1>2, <1>4 DEF Past, Issuers, TypeOK
<1>6. SpendsApart'
  BY <1>2 DEF SpendsApart, Live
<1>7. Exchanged'
  BY <1>1, <1>2 DEF Exchanged
<1>8. TokensEnding'
  BY <1>1, <1>2 DEF TokensEnding, Live, TypeOK
<1> QED
  BY <1>3, <1>5, <1>6, <1>7, <1>8

LEMMA ConsumeTokens ==
  ASSUME TypeOK, TokenInv, NEW h \in Handlers, Consume(h) PROVE TokenInv'
<1> USE DEF TokenInv
<1>1. /\ \A g \in Handlers : g # h => runs'[g] = runs[g]
      /\ runs[h].pc = "consuming" /\ runs[h].kind = "refresh"
      /\ runs'[h].kind = runs[h].kind /\ runs'[h].token = runs[h].token
      /\ UNCHANGED <<tokens, before>>
  BY DEF Consume, Moves, TypeOK, history, KindsKept
<1>2. \/ /\ runs'[h].pc = "registering" /\ runs[h].token \subseteq Live
         /\ spends' = [spends EXCEPT ![h] = runs[h].token]
      \/ runs'[h].pc = "revoking" /\ UNCHANGED spends
  BY DEF Consume, Moves, TypeOK, StillLive
<1>3. KindsKept'
  BY <1>1, <1>2 DEF KindsKept
<1>4. \A kinds : Answered(kinds) \subseteq Answered(kinds)'
  BY <1>1 DEF Answered
<1>5. Past'
  BY <1>1, <1>4 DEF Past, Issuers
<1>6. Live' = Live
  BY <1>1 DEF Live
<1>7. SpendsApart'
  <2> \A g \in Handlers : g # h => runs[h].token \cap spends[g] = {}
    BY DEF Consume, LockedFor
  <2> QED
    BY <1>2, <1>6 DEF SpendsApart, TypeOK
<1>8. Exchanged'
  BY <1>1, <1>2 DEF Exchanged, TypeOK
<1>9. TokensEnding'
  BY <1>1, <1>2, <1>6 DEF TokensEnding, TypeOK
<1> QED
  BY <1>3, <1>5, <1>7, <1>8, <1>9

LEMMA RevokeTokens ==
  ASSUME TypeOK, TokenInv, NEW h \in Handlers, BeginRevoke(h) \/ Revoke(h)
  PROVE  TokenInv'
<1> USE DEF TokenInv
<1>1. /\ \A g \in Handlers : g # h => runs'[g] = runs[g]
      /\ runs'[h].kind = runs[h].kind /\ runs'[h].token = runs[h].token
      /\ UNCHANGED <<tokens, before>>
  BY DEF BeginRevoke, Revoke, Moves, TypeOK, history
<1>2. \/ /\ runs[h].pc = "revoking" /\ runs'[h].pc = "updating"
         /\ runs'[h].rows = Live /\ UNCHANGED spends
      \/ /\ runs[h].pc = "updating" /\ runs'[h].pc = "listing"
         /\ spends' = [spends EXCEPT ![h] = runs[h].rows \cap Live]
         /\ runs[h].rows \cap LockedFor(h) = {}
  BY DEF BeginRevoke, Revoke, Moves, TypeOK, Unconsumed
<1>3. KindsKept'
  BY <1>1, <1>2 DEF KindsKept
<1>4. \A kinds : Answered(kinds) \subseteq Answered(kinds)'
  BY <1>1, <1>2 DEF Answered
<1>5. Past'
  BY <1>1, <1>2, <1>4 DEF Past, Issuers
<1>6. Live' = Live
  BY <1>1 DEF Live
<1>7. SpendsApart'
  <2>1. CASE UNCHANGED spends
    BY <1>6, <2>1 DEF SpendsApart
  <2>2. CASE /\ spends' = [spends EXCEPT ![h] = runs[h].rows \cap Live]
             /\ runs[h].rows \cap LockedFor(h) = {}
    <3> \A g \in Handlers : g # h => runs[h].rows \cap spends[g] = {}
      BY <2>2 DEF LockedFor
    <3> QED
      BY <1>6, <2>2 DEF SpendsApart, TypeOK
  <2> QED
    BY <1>2, <2>1, <2>2
<1>8. Exchanged'
  BY <1>1, <1>2, ZenonT(30) DEF Exchanged, TypeOK
<1>9. TokensEnding'
  BY <1>1, <1>2, <1>6 DEF TokensEnding, TypeOK
<1> QED
  BY <1>3, <1>5, <1>7, <1>8, <1>9

LEMMA CommitTokens ==
  ASSUME TypeOK, TokenInv, NEW h \in Handlers, Commit(h) PROVE TokenInv'
<1> USE DEF TokenInv
<1>1. /\ \A g \in Handlers : g # h => runs'[g] = runs[g]
      /\ runs[h].pc = "committing" /\ runs'[h].pc = "answered"
      /\ runs'[h].kind = runs[h].kind /\ runs'[h].token = runs[h].token
      /\ UNCHANGED before
      /\ spends' = [spends EXCEPT ![h] = {}]
  BY DEF Commit, Moves, TypeOK, history
<1>2. \A t \in Handlers : tokens'[t] =
        IF t \in spends[h] THEN "spent"
        ELSE IF t = h /\ runs[h].kind # "logout" THEN "live" ELSE tokens[t]
  BY DEF Commit
<1>3. KindsKept'
  BY <1>1 DEF KindsKept
<1>4. \A kinds : Answered(kinds) \subseteq Answered(kinds)'
  BY <1>1 DEF Answered
<1>5. \A g \in Handlers : spends[g] \subseteq Live
  BY DEF SpendsApart
<1>6. Past'
  BY <1>1, <1>2, <1>4, <1>5 DEF Past, Issuers, Live
<1>7. Live \ spends[h] \subseteq Live' /\ Live' \subseteq (Live \ spends[h]) \cup {h}
  BY <1>2 DEF Live
<1>8. SpendsApart'
  BY <1>1, <1>7 DEF SpendsApart, TypeOK
<1>9. Exchanged'
  <2> SUFFICES ASSUME NEW g \in Handlers, runs'[g].kind = "refresh"
               PROVE  /\ runs'[g].pc \in {"registering", "committing"} =>
                           spends'[g] = runs'[g].token
                      /\ runs'[g].pc = "answered" =>
                           \A t \in runs'[g].token : tokens'[t] = "spent"
    BY DEF Exchanged
  <2>1. CASE g = h
    <3> spends[h] = runs[h].token /\ runs[h].token \subseteq Handlers
      BY <1>1, <2>1 DEF Exchanged, TypeOK
    <3> QED
      BY <1>1, <1>2, <2>1
  <2>2. CASE g # h
    <3>1. runs[g].token \subseteq Handlers /\ h \notin runs[g].token
      BY <1>1 DEF Past, Issuers, Answered, TypeOK
    <3> QED
      BY <1>1, <1>2, <2>2, <3>1 DEF Exchanged, TypeOK
  <2> QED
    BY <2>1, <2>2
<1>10. TokensEnding'
  <2> \A l \in Handlers : h \notin before[l]
    BY <1>1 DEF Past, Answered
  <2> QED
    BY <1>1, <1>7 DEF TokensEnding, SpendsApart, TypeOK
<1> QED
  BY <1>3, <1>6, <1>8, <1>9, <1>10

(* The steps that are no matter of refresh tokens.                             *)
LEMMA PlainSteps ==
  ASSUME TypeOK, TokenInv, NEW h \in Handlers,
         \/ Register(h) \/ Unregister(h) \/ List(h) \/ Delete(h)
         \/ AskRedis(h) \/ Validate(h) \/ Fails(h)
  PROVE  TokenInv'
<1> SUFFICES /\ Onward(h)
             /\ \/ UNCHANGED spends
                \/ runs'[h].pc = "refused" /\ spends' = [spends EXCEPT ![h] = {}]
  BY OnwardKeeps
<1> USE DEF TypeOK, TokenInv, Onward, Ends, history
<1>1. CASE Register(h)
  BY <1>1 DEF Register, Moves, Registered
<1>2. CASE Unregister(h)
  BY <1>2 DEF Unregister, Moves, AfterUnregister, Deleted
<1>3. CASE List(h)
  BY <1>3 DEF List
<1>4. CASE Delete(h)
  BY <1>4 DEF Delete, Revoked, RollBack, Moves, Deleted
<1>5. CASE AskRedis(h) \/ Validate(h)
  BY <1>5 DEF AskRedis, Validate, Moves
<1>6. CASE RegisterFails(h)
  BY <1>6 DEF RegisterFails, RollBack, Moves, Registered
<1>7. CASE UnregisterFails(h)
  BY <1>7 DEF UnregisterFails, AfterUnregister
<1>8. CASE RevocationFails(h)
  BY <1>8 DEF RevocationFails, Revoked, RollBack, Moves
<1>9. CASE AskFails(h)
  BY <1>9 DEF AskFails
<1>10. CASE DatabaseFails(h)
  BY <1>10 DEF DatabaseFails, RollBack, Moves
<1> QED
  BY <1>1, <1>2, <1>3, <1>4, <1>5, <1>6, <1>7, <1>8, <1>9, <1>10 DEF Fails

LEMMA NextTokens == ASSUME TypeOK, TokenInv, [Next]_vars PROVE TokenInv'
<1>1. CASE UNCHANGED <<runs, tokens, spends, before>>
  BY <1>1 DEF TokenInv, KindsKept, Past, SpendsApart, Exchanged, TokensEnding,
              Answered, Issuers, Live
<1>2. CASE UNCHANGED vars \/ Block \/ Lapse
  BY <1>1, <1>2 DEF vars, Block, Lapse, history
<1> QED
  BY <1>2, BeginTokens, ConsumeTokens, RevokeTokens, CommitTokens, PlainSteps
     DEF Next, Step

(* Who commits has consumed live tokens; who has committed presented spent ones. *)
LEMMA NextChain ==
  ASSUME TypeOK, TokenInv, RotationIsAChain, [Next]_vars PROVE RotationIsAChain'
<1> USE DEF TokenInv
<1>1. ASSUME \A g \in Answered({"refresh"})' :
                g \in Answered({"refresh"}) /\ runs'[g] = runs[g]
      PROVE  RotationIsAChain'
  BY <1>1 DEF RotationIsAChain
<1>2. CASE UNCHANGED vars \/ Block \/ Lapse
  BY <1>1, <1>2 DEF vars, Block, Lapse, Answered
<1>3. ASSUME NEW h \in Handlers, NEW kind \in Kinds, NEW token, NEW access,
             Begin(h, kind, token, access)
      PROVE  RotationIsAChain'
  <2> /\ runs'[h].pc # "answered"
      /\ \A g \in Handlers : g # h => runs'[g] = runs[g]
    BY <1>3 DEF Begin, NoRun, TypeOK, Kinds
  <2> QED
    BY <1>1 DEF Answered
<1>4. ASSUME NEW h \in Handlers, Commit(h) PROVE RotationIsAChain'
  <2>1. /\ runs[h].pc = "committing" /\ runs'[h].kind = runs[h].kind
        /\ runs'[h].token = runs[h].token
        /\ \A g \in Handlers : g # h => runs'[g] = runs[g]
    BY <1>4 DEF Commit, Moves, TypeOK
  <2>2. ASSUME NEW g \in Answered({"refresh"}), g # h, runs[h].kind = "refresh"
        PROVE  runs[g].token \cap runs[h].token = {}
    BY <2>1, <2>2 DEF Exchanged, SpendsApart, Live, Answered, TypeOK
  <2> QED
    BY <2>1, <2>2 DEF RotationIsAChain, Answered
<1>5. ASSUME NEW h \in Handlers, Step(h) \/ Fails(h), ~Commit(h)
      PROVE  RotationIsAChain'
  <2>1. \A g \in Handlers : g # h => runs'[g] = runs[g]
    BY <1>5 DEF Step, Fails, Register, Consume, BeginRevoke, Revoke, Unregister,
       List, Delete, AskRedis, Validate, RegisterFails, UnregisterFails,
       RevocationFails, AskFails, DatabaseFails, Revoked, RollBack, Moves, TypeOK
  <2>2. runs'[h].pc = "answered" => runs'[h].kind = "check"
    <3>1. CASE Validate(h)
      BY <3>1 DEF Validate, Moves, TypeOK, KindsKept
    <3>2. CASE ~Validate(h)
      BY <1>5, <3>2 DEF Step, Fails, Register, Consume, BeginRevoke, Revoke,
         Unregister, List, Delete, AskRedis, RegisterFails, UnregisterFails,
         RevocationFails, AskFails, DatabaseFails, Revoked, RollBack, Moves,
         AfterUnregister, TypeOK
    <3> QED
      BY <3>1, <3>2
  <2> QED
    BY <1>1, <2>1, <2>2 DEF Answered
<1> QED
  BY <1>2, <1>3, <1>4, <1>5 DEF Next

-----------------------------------------------------------------------------
(* Access ids.                                                                 *)

KeysInv == KeysListed /\ KeysEnding /\ LetIn

LEMMA InitKeys == Init => KeysInv
BY DEF Init, NoRun, KeysInv, KeysListed, KeysEnding, LetIn

(* What a step does to the ids in Redis.                                       *)
Shrinks == /\ keys' \subseteq keys /\ keys' \subseteq sids' \cup strays'
           /\ strays \subseteq strays'
           /\ keys' \subseteq {aging'[i] : i \in 1 .. Len(aging')}

LEMMA RegisteredKeys ==
  ASSUME TypeOK, KeysListed, NEW h \in Handlers, Registered(h)
  PROVE  /\ keys' \subseteq keys \cup {h} /\ strays \subseteq strays'
         /\ BeingRevoked => h \in strays'
         /\ keys' \subseteq sids' \cup strays'
         /\ keys' \subseteq {aging'[i] : i \in 1 .. Len(aging')}
<1>1. /\ keys' = KeysOf(sids') \cup (sids' \cap {h})
      /\ aging' = Append(aging, h)
      /\ strays' = IF BeingRevoked THEN strays \cup {h} ELSE strays
  BY DEF Registered
<1>2. keys' \subseteq keys \cup {h}
  BY <1>1 DEF KeysOf
<1>3. keys' \subseteq sids' \cup strays'
  BY <1>1 DEF KeysOf, KeysListed
<1>4. keys' \subseteq {aging'[i] : i \in 1 .. Len(aging')}
  <2>1. /\ Len(aging') = Len(aging) + 1 /\ aging'[Len(aging) + 1] = h
        /\ \A i \in 1 .. Len(aging) : aging'[i] = aging[i]
        /\ Len(aging) \in Nat
    BY <1>1, AppendProperties, LenProperties DEF TypeOK
  <2> SUFFICES ASSUME NEW k \in keys'
               PROVE  \E i \in 1 .. Len(aging') : aging'[i] = k
    OBVIOUS
  <2>2. CASE k = h
    BY <2>1, <2>2
  <2>3. CASE k # h
    <3> PICK i \in 1 .. Len(aging) : aging[i] = k
      BY <1>2, <2>3 DEF KeysListed
    <3> QED
      BY <2>1
  <2> QED
    BY <2>2, <2>3
<1> QED
  BY <1>1, <1>2, <1>3, <1>4

LEMMA LapseKeys == ASSUME TypeOK, KeysListed, Lapse PROVE Shrinks
<1>1. /\ aging # <<>> /\ aging' = Tail(aging) /\ keys' = keys \ {Head(aging)}
      /\ sids' = (IF Tail(aging) = <<>> THEN {} ELSE sids) /\ strays' = strays
  BY DEF Lapse, history
<1>2. /\ Len(aging) \in Nat \ {0} /\ Head(aging) = aging[1]
      /\ Len(aging') = Len(aging) - 1 /\ aging' \in Seq(Handlers)
      /\ \A i \in 1 .. Len(aging') : aging'[i] = aging[i + 1]
  BY <1>1, HeadTailProperties, EmptySeq, LenProperties DEF TypeOK
<1>3. keys' \subseteq {aging'[i] : i \in 1 .. Len(aging')}
  <2> SUFFICES ASSUME NEW k \in keys'
               PROVE  \E i \in 1 .. Len(aging') : aging'[i] = k
    OBVIOUS
  <2> PICK i \in 1 .. Len(aging) : aging[i] = k
    BY <1>1 DEF KeysListed
  <2> i # 1 /\ i - 1 \in 1 .. Len(aging')
    BY <1>1, <1>2
  <2> aging'[i - 1] = k
    BY <1>2
  <2> QED
    OBVIOUS
<1>4. keys' \subseteq sids' \cup strays'
  <2>1. CASE Tail(aging) = <<>>
    <3> Len(aging') = 0
      BY <1>1, <2>1
    <3> QED
      BY <1>3
  <2>2. CASE Tail(aging) # <<>>
    BY <1>1, <2>2 DEF KeysListed
  <2> QED
    BY <2>1, <2>2
<1> QED
  BY <1>1, <1>3, <1>4 DEF Shrinks

(* Keys that only become fewer, while no logout gets past its revocation and   *)
(* no request is let in.                                                       *)
LEMMA ShrinkKeeps ==
  ASSUME TypeOK, TokenInv, KeysInv, Shrinks, NEW h \in Handlers,
         \A g \in Handlers : g # h => runs'[g] = runs[g] /\ before'[g] = before[g],
         runs[h].pc \notin Ends,
         runs'[h].pc # "deleting",
         runs'[h].pc = "answered" =>
           runs[h].pc \in {"committing", "validating"} /\ before'[h] = before[h]
             /\ runs'[h].access = runs[h].access
             /\ runs'[h].kind = runs[h].kind /\ runs'[h].kept = runs[h].kept,
         runs'[h].pc = "committing" /\ runs'[h].kind = "logout" => ~runs'[h].kept,
         runs'[h].pc = "validating" => ~runs'[h].kept
  PROVE  KeysInv'
<1> USE DEF KeysInv
<1>1. \A g \in Handlers : h \notin before[g]
  BY DEF TokenInv, Past, Answered, Ends
<1>2. KeysListed'
  BY DEF KeysListed, Shrinks
<1>3. KeysEnding'
  BY DEF KeysEnding, Shrinks, TokenInv, KindsKept
<1>4. \A kinds : Answered(kinds)' \subseteq Answered(kinds) \cup {h}
  BY DEF Answered
<1>5. LetIn'
  <2> SUFFICES ASSUME NEW c \in Handlers, runs'[c].kind = "check",
                      runs'[c].pc \in {"validating", "answered"}, runs'[c].kept,
                      NEW l \in before'[c] \cap Answered({"logout"})', runs'[l].kept
               PROVE  runs'[c].access \cap before'[l] \subseteq strays'
    BY DEF LetIn
  <2>1. /\ runs[c].kind = "check" /\ runs[c].pc \in {"validating", "answered"}
        /\ runs[c].kept /\ before'[c] = before[c] /\ runs'[c].access = runs[c].access
    BY DEF TokenInv, KindsKept
  <2> QED
    BY <1>1, <1>4, <2>1 DEF LetIn, Shrinks, Answered
<1> QED
  BY <1>2, <1>3, <1>5

LEMMA StepKeys ==
  ASSUME TypeOK, TokenInv, KeysInv, NEW h \in Handlers, Step(h) \/ Fails(h)
  PROVE  KeysInv'
<1> USE DEF KeysInv
<1>1. ASSUME UNCHANGED <<redis, strays>> PROVE Shrinks
  BY <1>1 DEF Shrinks, redis, KeysListed
<1>2. ASSUME NEW S, Deleted(S), sids' = sids \ S PROVE Shrinks
  BY <1>2 DEF Shrinks, Deleted, KeysListed
<1>3. \A g \in Handlers : h \notin before[g] \/ runs[h].pc = "answered"
  BY DEF TokenInv, Past, Answered
<1>4. CASE Register(h) \/ (RegisterFails(h) /\ Registered(h))
  <2>1. Registered(h) /\ UNCHANGED before
    BY <1>4 DEF Register, Registered
  <2>2. /\ runs[h].pc = "registering" /\ runs[h].kind \in {"login", "refresh"}
        /\ \A g \in Handlers : g # h => runs'[g] = runs[g]
        /\ runs'[h].kind = runs[h].kind
        /\ runs'[h].pc \in {"committing", "refused"}
    BY <1>4 DEF Register, RegisterFails, RollBack, Moves, TypeOK, TokenInv, KindsKept
  <2>3. KeysListed'
    BY <2>1, <2>2, RegisteredKeys DEF KeysListed, BeingRevoked
  <2>4. KeysEnding'
    BY <1>3, <2>1, <2>2, RegisteredKeys DEF KeysEnding
  <2>5. LetIn'
    BY <1>3, <2>1, <2>2, RegisteredKeys DEF LetIn, Answered
  <2> QED
    BY <2>3, <2>4, <2>5
<1>5. CASE \/ Consume(h) \/ BeginRevoke(h) \/ Revoke(h)
           \/ RegisterFails(h) /\ UNCHANGED <<redis, history>>
           \/ UnregisterFails(h) \/ RevocationFails(h) \/ AskFails(h)
           \/ DatabaseFails(h)
  <2>1. Shrinks /\ UNCHANGED before
    BY <1>1, <1>5 DEF Consume, BeginRevoke, Revoke, RegisterFails, UnregisterFails,
       RevocationFails, AskFails, DatabaseFails, history
  <2>2. /\ \A g \in Handlers : g # h => runs'[g] = runs[g]
        /\ runs[h].pc \notin Ends
        /\ runs'[h].pc \notin {"deleting", "answered"}
        /\ runs'[h].pc = "committing" => ~runs'[h].kept
        /\ runs'[h].pc = "validating" => ~runs'[h].kept
    BY <1>5 DEF Consume, BeginRevoke, Revoke, RegisterFails, UnregisterFails,
       RevocationFails, AskFails, DatabaseFails, Revoked, RollBack, Moves,
       AfterUnregister, Ends, TypeOK
  <2> QED
    BY <2>1, <2>2, ShrinkKeeps
<1>6. CASE Commit(h)
  <2>1. UNCHANGED <<redis, strays, before>>
    BY <1>6 DEF Commit, history
  <2>2. /\ runs[h].pc = "committing" /\ runs' = [runs EXCEPT ![h].pc = "answered"]
    BY <1>6 DEF Commit, Moves
  <2>3. Shrinks
    BY <1>1, <2>1
  <2> QED
    BY <2>1, <2>2, <2>3, ShrinkKeeps, SMTT(20) DEF TypeOK, Ends
<1>7. CASE Unregister(h)
  <2>1. Shrinks /\ UNCHANGED before
    BY <1>2, <1>7 DEF Unregister, Deleted
  <2>2. /\ runs[h].pc = "unregistering"
        /\ runs' = [runs EXCEPT ![h].pc = AfterUnregister(h)]
        /\ AfterUnregister(h) \in {"revoking", "refused"}
    BY <1>7 DEF Unregister, AfterUnregister, Moves
  <2>3. /\ \A g \in Handlers : g # h => runs'[g] = runs[g]
        /\ runs'[h].pc \in {"revoking", "refused"}
    BY <2>2 DEF TypeOK
  <2>4. runs[h].pc \notin Ends
    BY <2>2 DEF Ends
  <2> QED
    BY <2>1, <2>3, <2>4, ShrinkKeeps
<1>8. CASE List(h)
  <2>1. /\ UNCHANGED <<keys, sids, aging, strays, before>>
        /\ \A g \in Handlers : g # h => runs'[g] = runs[g]
        /\ runs'[h].pc = "deleting" /\ runs'[h].seen = sids
        /\ runs[h].pc = "listing"
    BY <1>8 DEF List, redis, history, TypeOK
  <2>2. KeysListed'
    BY <2>1 DEF KeysListed
  <2>3. KeysEnding' /\ LetIn'
    BY <2>1 DEF KeysEnding, LetIn, Answered
  <2> QED
    BY <2>2, <2>3
<1>9. CASE Delete(h)
  <2>1. /\ keys' = keys \ runs[h].seen /\ UNCHANGED <<aging, strays, before>>
        /\ sids' = {} /\ runs[h].pc = "deleting"
        /\ \A g \in Handlers : g # h => runs'[g] = runs[g]
        /\ runs'[h].pc \in {"committing", "refused"}
    BY <1>9 DEF Delete, Deleted, Revoked, RollBack, Moves, TypeOK
  <2>2. keys' \subseteq strays'
    BY <2>1 DEF KeysListed
  <2>3. KeysListed'
    BY <2>1, <2>2 DEF KeysListed
  <2>4. KeysEnding'
    BY <2>2 DEF KeysEnding
  <2>5. LetIn'
    BY <2>1 DEF LetIn, Answered
  <2> QED
    BY <2>3, <2>4, <2>5
<1>10. CASE AskRedis(h)
  <2>1. /\ UNCHANGED <<keys, sids, aging, strays, before>>
        /\ \A g \in Handlers : g # h => runs'[g] = runs[g]
        /\ runs[h].pc = "asking" /\ runs[h].kind = "check"
        /\ runs'[h].kind = "check" /\ runs'[h].access = runs[h].access
        /\ \/ runs'[h].pc = "refused"
           \/ runs'[h].pc = "validating" /\ runs[h].access \subseteq keys
    BY <1>10 DEF AskRedis, IsListed, Moves, redis, history, TypeOK, TokenInv, KindsKept
  <2>2. KeysListed' /\ KeysEnding'
    BY <2>1 DEF KeysListed, KeysEnding
  <2>3. LetIn'
    <3> SUFFICES ASSUME NEW c \in Handlers, runs'[c].kind = "check",
                        runs'[c].pc \in {"validating", "answered"}, runs'[c].kept,
                        NEW l \in before[c] \cap Answered({"logout"}), runs[l].kept
                 PROVE  runs'[c].access \cap before[l] \subseteq strays
      BY <2>1 DEF LetIn, Answered
    <3>1. CASE c = h
      BY <2>1, <3>1 DEF KeysEnding, Answered
    <3>2. CASE c # h
      BY <2>1, <3>2 DEF LetIn
    <3> QED
      BY <3>1, <3>2
  <2> QED
    BY <2>2, <2>3
<1>11. CASE Validate(h)
  <2>1. UNCHANGED <<redis, strays, before>> /\ runs[h].pc = "validating"
    BY <1>11 DEF Validate, history
  <2>2. Shrinks
    BY <1>1, <2>1
  <2>3. \/ runs' = [runs EXCEPT ![h].pc = "answered"]
        \/ runs' = [runs EXCEPT ![h].pc = "unregistering"]
    BY <1>11 DEF Validate, Moves
  <2> QED
    BY <2>1, <2>2, <2>3, ShrinkKeeps, SMTT(20) DEF TypeOK, Ends
<1> QED
  BY <1>4, <1>5, <1>6, <1>7, <1>8, <1>9, <1>10, <1>11 DEF Step, Fails, RegisterFails

LEMMA NextKeys ==
  ASSUME TypeOK, TokenInv, KeysInv, [Next]_vars PROVE KeysInv'
<1> USE DEF KeysInv
<1>1. ASSUME Shrinks, UNCHANGED <<runs, before>> PROVE KeysInv'
  BY <1>1 DEF Shrinks, KeysListed, KeysEnding, LetIn, Answered
<1>2. CASE UNCHANGED vars \/ Block
  BY <1>1, <1>2 DEF vars, Block, redis, history, Shrinks, KeysListed
<1>3. CASE Lapse
  BY <1>1, <1>3, LapseKeys DEF Lapse, history
<1>4. ASSUME NEW h \in Handlers, NEW kind \in Kinds, NEW token, NEW access,
             Begin(h, kind, token, access)
      PROVE  KeysInv'
  <2>1. /\ UNCHANGED <<redis, strays>> /\ runs[h].pc = "idle"
        /\ \A g \in Handlers : g # h => runs'[g] = runs[g] /\ before'[g] = before[g]
        /\ runs'[h].pc \notin {"deleting", "answered", "committing", "validating"}
    BY <1>4 DEF Begin, NoRun, TypeOK, Kinds
  <2>2. Shrinks
    BY <2>1 DEF Shrinks, redis, KeysListed
  <2> QED
    BY <2>1, <2>2, ShrinkKeeps DEF Ends
<1> QED
  BY <1>2, <1>3, <1>4, StepKeys DEF Next

-----------------------------------------------------------------------------
(* The cap on sessions.                                                        *)

(* Handlers that may have registered an access id.                             *)
Registrants == {h \in Handlers : /\ runs[h].kind \in {"login", "refresh"}
                                 /\ runs[h].pc \in {"committing"} \cup Ends}

(* Ids are registered by handlers that have got that far, and once; the set    *)
(* holds some of those registered since it was last empty, up to the cap.      *)
RegisteredOnce ==
  /\ since \subseteq Registrants
  /\ \A i \in 1 .. Len(aging) : aging[i] \in Registrants
  /\ \A i, j \in 1 .. Len(aging) : aging[i] = aging[j] => i = j
  /\ sids \subseteq since /\ Cardinality(sids) <= MaxSessions

(* Those of them whose key is gone though nobody ended them and none lapsed.   *)
Lost == {h \in since : ~Lapsed(h) /\ h \notin ended /\ h \notin keys}

Surplus == Lost # {} => Cardinality(Lost) + MaxSessions <= Cardinality(since)

RoomInv == RegisteredOnce /\ Surplus

LEMMA InitRoom == Init => RoomInv
<1> SUFFICES ASSUME Init PROVE RoomInv
  OBVIOUS
<1>1. since = {} /\ sids = {} /\ aging = <<>> /\ Lost = {}
  BY DEF Init, Lost
<1> QED
  BY <1>1, FS_EmptySet, SessionsAssumption DEF RoomInv, RegisteredOnce, Surplus

(* Who may have registered an id has done so for good.                         *)
LEMMA RegistrantsGrow ==
  ASSUME TypeOK, [Next]_vars PROVE Registrants \subseteq Registrants'
<1> SUFFICES ASSUME NEW r \in Registrants PROVE r \in Registrants'
  OBVIOUS
<1>1. /\ r \in Handlers /\ runs[r].kind \in {"login", "refresh"}
      /\ runs[r].pc \in {"committing", "answered", "refused"}
  BY DEF Registrants, Ends
<1>2. CASE UNCHANGED runs
  BY <1>1, <1>2 DEF Registrants, Ends
<1>3. CASE Lapse \/ Block \/ UNCHANGED vars
  BY <1>2, <1>3 DEF Lapse, Block, vars
<1>4. ASSUME NEW h \in Handlers, NEW kind \in Kinds, NEW token, NEW access,
             Begin(h, kind, token, access)
      PROVE  r \in Registrants'
  <2> h # r /\ runs'[r] = runs[r]
    BY <1>1, <1>4 DEF Begin, TypeOK
  <2> QED
    BY <1>1 DEF Registrants, Ends
<1>5. ASSUME NEW h \in Handlers, Step(h) \/ Fails(h) PROVE r \in Registrants'
  <2>1. CASE h # r
    <3> USE <1>1, <2>1 DEF Moves, RollBack, Revoked
    <3>1. Step(h) => runs'[r] = runs[r]
      BY DEF Step, Register, Consume, BeginRevoke, Revoke, Commit, Unregister, List,
         Delete, AskRedis, Validate, TypeOK
    <3>2. RegisterFails(h) \/ UnregisterFails(h) \/ RevocationFails(h) =>
            runs'[r] = runs[r]
      BY DEF RegisterFails, UnregisterFails, RevocationFails, TypeOK
    <3>3. AskFails(h) \/ DatabaseFails(h) => runs'[r] = runs[r]
      BY DEF AskFails, DatabaseFails, TypeOK
    <3> QED
      BY <1>1, <1>5, <3>1, <3>2, <3>3 DEF Registrants, Ends, Fails
  <2>2. CASE h = r
    <3> Commit(h) \/ DatabaseFails(h)
      BY <1>1, <1>5, <2>2 DEF Step, Fails, Register, Consume, BeginRevoke, Revoke,
         Unregister, List, Delete, AskRedis, Validate, RegisterFails, UnregisterFails,
         RevocationFails, AskFails
    <3> runs'[r].kind = runs[r].kind /\ runs'[r].pc \in {"answered", "refused"}
      BY <1>1, <2>2 DEF Commit, DatabaseFails, Moves, RollBack, TypeOK
    <3> QED
      BY <1>1 DEF Registrants, Ends
  <2> QED
    BY <2>1, <2>2
<1> QED
  BY <1>3, <1>4, <1>5 DEF Next

LEMMA CountsOf ==
  ASSUME NEW S \in SUBSET Handlers
  PROVE  /\ IsFiniteSet(S) /\ Cardinality(S) \in Nat
         /\ \A T \in SUBSET S : /\ IsFiniteSet(T) /\ Cardinality(T) \in Nat
                                /\ Cardinality(T) <= Cardinality(S)
                                /\ Cardinality(T) = Cardinality(S) => T = S
<1>1. IsFiniteSet(S) /\ Cardinality(S) \in Nat
  BY SessionsAssumption, FS_Subset, FS_CardinalityType
<1> QED
  BY <1>1, FS_Subset, FS_CardinalityType

(* While nothing is registered, what is lost only shrinks.                     *)
LEMMA LostShrinks ==
  ASSUME TypeOK, Surplus, Lost' \subseteq Lost, since' = since
  PROVE  Surplus'
<1>1. Lost \in SUBSET Handlers
  BY DEF Lost, TypeOK
<1>2. /\ Cardinality(Lost') <= Cardinality(Lost)
      /\ Cardinality(Lost') \in Nat /\ Cardinality(Lost) \in Nat
  BY <1>1, CountsOf
<1>3. Cardinality(since) \in Nat
  BY CountsOf DEF TypeOK
<1> HIDE DEF Lost
<1> QED
  BY <1>2, <1>3, SessionsAssumption DEF Surplus

(* The script leaves the set within the cap and drops one id at most.          *)
LEMMA OneDropped ==
  ASSUME TypeOK, RegisteredOnce, NEW h \in Handlers, h \notin sids,
         NEW S \in SUBSET (sids \cup {h}), Added(h, S)
  PROVE  /\ Cardinality(S) <= MaxSessions
         /\ \/ S = sids \cup {h}
            \/ /\ Cardinality(sids) = MaxSessions
               /\ \E d : (sids \cup {h}) \ S = {d}
<1> DEFINE all == sids \cup {h}
<1> all \in SUBSET Handlers /\ sids \in SUBSET Handlers
  BY DEF TypeOK
<1>1. /\ IsFiniteSet(sids) /\ Cardinality(sids) \in Nat
      /\ IsFiniteSet(all) /\ Cardinality(all) = Cardinality(sids) + 1
  BY CountsOf, FS_AddElement
<1>2. Cardinality(S) = IF Cardinality(all) > MaxSessions THEN MaxSessions
                       ELSE Cardinality(all)
  BY <1>1, SessionsAssumption DEF Added, Drops, Kept
<1>3. CASE Cardinality(all) <= MaxSessions
  <2>1. Cardinality(S) = Cardinality(all)
    BY <1>1, <1>2, <1>3, SessionsAssumption
  <2>2. S = all
    BY <2>1, CountsOf
  <2> QED
    BY <1>3, <2>2
<1>4. CASE ~(Cardinality(all) <= MaxSessions)
  <2>1. Cardinality(sids) = MaxSessions /\ Cardinality(S) = MaxSessions
    BY <1>1, <1>2, <1>4, SessionsAssumption DEF RegisteredOnce
  <2>2. Cardinality(all \ S) = 1
    <3>1. all \cap S = S
      OBVIOUS
    <3>2. Cardinality(all \ S) = Cardinality(all) - Cardinality(S)
      BY <1>1, <3>1, FS_Difference
    <3> QED
      BY <1>1, <2>1, <3>2, SessionsAssumption
  <2>3. \E d : all \ S = {d}
    <3>1. IsFiniteSet(all \ S)
      BY <1>1, FS_Difference
    <3> QED
      BY <2>2, <3>1, FS_Singleton
  <2>4. Cardinality(S) <= MaxSessions
    BY <2>1, SessionsAssumption
  <2> QED
    BY <2>1, <2>3, <2>4
<1> QED
  BY <1>3, <1>4

(* A registration loses one id at most, and that only when the set is full.    *)
LEMMA RegisteredRoom ==
  ASSUME TypeOK, RoomInv, [Next]_vars, NEW h \in Handlers, Registered(h),
         h \notin Registrants, h \in Registrants'
  PROVE  RoomInv'
<1> USE DEF RoomInv
<1> h \notin sids /\ h \notin since
  BY DEF RegisteredOnce
<1>1. PICK S \in SUBSET (sids \cup {h}) :
        /\ Added(h, S) /\ sids' = S /\ keys' = KeysOf(S) \cup (S \cap {h})
        /\ aging' = Append(aging, h) /\ ended' = ended
        /\ since' = (IF sids = {} THEN {} ELSE since) \cup {h}
  BY DEF Registered
<1>2. /\ Len(aging') = Len(aging) + 1 /\ aging'[Len(aging) + 1] = h
      /\ \A i \in 1 .. Len(aging) : aging'[i] = aging[i]
      /\ Len(aging) \in Nat
  BY <1>1, AppendProperties, LenProperties DEF TypeOK
<1>3. \A i \in 1 .. Len(aging') : \/ i \in 1 .. Len(aging) /\ aging'[i] = aging[i]
                                  \/ i = Len(aging) + 1 /\ aging'[i] = h
  BY <1>2
<1>4. /\ Cardinality(S) <= MaxSessions
      /\ \/ S = sids \cup {h}
         \/ Cardinality(sids) = MaxSessions /\ \E d : (sids \cup {h}) \ S = {d}
  BY <1>1, OneDropped
<1>5. RegisteredOnce'
  <2>1. since' \subseteq Registrants' /\ sids' \subseteq since'
    BY <1>1, RegistrantsGrow DEF RegisteredOnce
  <2>2. \A i \in 1 .. Len(aging') : aging'[i] \in Registrants'
    BY <1>3, RegistrantsGrow DEF RegisteredOnce
  <2>3. \A i, j \in 1 .. Len(aging') : aging'[i] = aging'[j] => i = j
    BY <1>3 DEF RegisteredOnce
  <2> QED
    BY <1>1, <1>4, <2>1, <2>2, <2>3 DEF RegisteredOnce
<1>6. \A x \in Lost' : x \in Lost \/ x \in (sids \cup {h}) \ S
  <2> SUFFICES ASSUME NEW x \in Lost', x \notin (sids \cup {h}) \ S PROVE x \in Lost
    OBVIOUS
  <2>1. x \in since' /\ x \notin ended /\ x \notin keys' /\ ~Lapsed(x)'
    BY <1>1 DEF Lost
  <2>2. x # h
    BY <1>1, <2>1
  <2>3. x \in since
    BY <1>1, <2>1, <2>2
  <2>4. x \notin keys
    BY <1>1, <2>1 DEF KeysOf
  <2>5. ~Lapsed(x)
    BY <1>3, <2>1, <2>2 DEF Lapsed
  <2> QED
    BY <2>1, <2>3, <2>4, <2>5 DEF Lost
<1>7. Lost \in SUBSET Handlers /\ since \in SUBSET Handlers /\ Lost' \in SUBSET Handlers
      /\ sids \in SUBSET since
  BY <1>1 DEF Lost, TypeOK, RegisteredOnce
<1>8. /\ Cardinality(Lost) \in Nat /\ Cardinality(since) \in Nat /\ Cardinality(Lost') \in Nat
      /\ IsFiniteSet(Lost) /\ IsFiniteSet(since)
      /\ Cardinality(sids) \in Nat /\ Cardinality(sids) <= Cardinality(since)
  BY <1>7, CountsOf
<1>9. Surplus'
  <2>1. CASE sids = {}
    <3>1. S = {h}
      <4>1. Cardinality(sids) = 0
        BY <2>1, FS_EmptySet
      <4>2. S = sids \cup {h}
        BY <1>4, <4>1, SessionsAssumption
      <4> QED
        BY <2>1, <4>2
    <3>2. Lost' = {}
      BY <1>1, <2>1, <3>1 DEF Lost
    <3> QED
      BY <3>2 DEF Surplus
  <2>2. CASE sids # {}
    <3>1. since' = since \cup {h} /\ Cardinality(since') = Cardinality(since) + 1
      BY <1>1, <1>8, <2>2, FS_AddElement
    <3>2. CASE S = sids \cup {h}
      <4>1. Lost' \subseteq Lost
        BY <1>6, <3>2
      <4>2. Cardinality(Lost') <= Cardinality(Lost)
        BY <1>7, <4>1, CountsOf
      <4> HIDE DEF Lost
      <4> QED
        BY <1>8, <3>1, <4>1, <4>2, SessionsAssumption DEF Surplus
    <3>3. ASSUME NEW d, (sids \cup {h}) \ S = {d}, Cardinality(sids) = MaxSessions
          PROVE  Surplus'
      <4>1. Lost' \subseteq Lost \cup {d} /\ d \in Handlers
        BY <1>6, <1>7, <3>3
      <4>2. Cardinality(Lost') <= Cardinality(Lost \cup {d})
        <5> Lost \cup {d} \in SUBSET Handlers
          BY <1>7, <4>1
        <5> QED
          BY <4>1, CountsOf
      <4>3. /\ Cardinality(Lost \cup {d}) <= Cardinality(Lost) + 1
            /\ Cardinality(Lost \cup {d}) \in Nat
        <5> HIDE DEF Lost
        <5>1. Cardinality(Lost \cup {d}) =
                IF d \in Lost THEN Cardinality(Lost) ELSE Cardinality(Lost) + 1
          BY <1>8, FS_AddElement
        <5> QED
          BY <1>8, <5>1
      <4>4. Cardinality(Lost') <= Cardinality(Lost) + 1
        BY <1>8, <4>2, <4>3
      <4>5. CASE Lost = {}
        <5>1. Cardinality(Lost) = 0
          BY <4>5, FS_EmptySet
        <5> HIDE DEF Lost
        <5> QED
          BY <1>8, <3>1, <3>3, <4>4, <5>1, SessionsAssumption DEF Surplus
      <4>6. CASE Lost # {}
        <5> HIDE DEF Lost
        <5> QED
          BY <1>8, <3>1, <4>4, <4>6, SessionsAssumption DEF Surplus
      <4> QED
        BY <4>5, <4>6
    <3> QED
      BY <1>4, <3>2, <3>3
  <2> QED
    BY <2>1, <2>2
<1> QED
  BY <1>5, <1>9

LEMMA SetShrinks ==
  ASSUME TypeOK, RegisteredOnce, sids' \subseteq sids
  PROVE  Cardinality(sids') <= MaxSessions
<1>1. sids \in SUBSET Handlers
  BY DEF TypeOK
<1>2. /\ Cardinality(sids') <= Cardinality(sids)
      /\ Cardinality(sids') \in Nat /\ Cardinality(sids) \in Nat
  BY <1>1, CountsOf
<1> QED
  BY <1>2, SessionsAssumption DEF RegisteredOnce

LEMMA LapseRoom == ASSUME TypeOK, RoomInv, [Next]_vars, Lapse PROVE RoomInv'
<1> USE DEF RoomInv
<1>1. /\ aging # <<>> /\ aging' = Tail(aging) /\ keys' = keys \ {Head(aging)}
      /\ sids' \subseteq sids /\ ended' = ended /\ since' = since
  BY DEF Lapse, history
<1>2. /\ Len(aging) \in Nat \ {0} /\ Head(aging) = aging[1]
      /\ Len(aging') = Len(aging) - 1
      /\ \A i \in 1 .. Len(aging') : aging'[i] = aging[i + 1]
  BY <1>1, HeadTailProperties, EmptySeq, LenProperties DEF TypeOK
<1>3. \A i \in 1 .. Len(aging') : i + 1 \in 1 .. Len(aging) /\ i + 1 # 1
  BY <1>2
<1>4. RegisteredOnce'
  <2>1. \A i, j \in 1 .. Len(aging') : aging'[i] = aging'[j] => i = j
    BY <1>2, <1>3 DEF RegisteredOnce
  <2>2. \A i \in 1 .. Len(aging') : aging'[i] \in Registrants'
    BY <1>2, <1>3, RegistrantsGrow DEF RegisteredOnce
  <2>3. Cardinality(sids') <= MaxSessions
    BY <1>1, SetShrinks
  <2> QED
    BY <1>1, <2>1, <2>2, <2>3, RegistrantsGrow DEF RegisteredOnce
<1>5. Lost' \subseteq Lost
  <2> SUFFICES ASSUME NEW x \in Lost' PROVE x \in Lost
    OBVIOUS
  <2>1. PICK i \in 1 .. Len(aging') : aging'[i] = x
    BY DEF Lost, Lapsed
  <2>2. aging[i + 1] = x /\ x # aging[1]
    BY <1>2, <1>3, <2>1 DEF RegisteredOnce
  <2>3. ~Lapsed(x)
    BY <1>3, <2>2 DEF Lapsed
  <2>4. x \in since /\ x \notin ended /\ x \notin keys
    BY <1>1, <1>2, <2>2 DEF Lost
  <2> QED
    BY <2>3, <2>4 DEF Lost
<1> QED
  BY <1>1, <1>4, <1>5, LostShrinks

(* A step that registers nothing takes no key but of an id it ends.            *)
LEMMA EndsOnly ==
  ASSUME TypeOK, RoomInv, [Next]_vars, aging' = aging, sids' \subseteq sids,
         since' = since, keys \subseteq keys' \cup ended', ended \subseteq ended'
  PROVE  RoomInv'
<1>1. RegisteredOnce'
  BY RegistrantsGrow, SetShrinks DEF RoomInv, RegisteredOnce
<1>2. Lost' \subseteq Lost
  BY DEF Lost, Lapsed
<1> QED
  BY <1>1, <1>2, LostShrinks DEF RoomInv

LEMMA NextRoom ==
  ASSUME TypeOK, TokenInv, RoomInv, [Next]_vars PROVE RoomInv'
<1>1. CASE UNCHANGED <<redis, ended, since>>
  BY <1>1, EndsOnly DEF redis
<1>2. ASSUME NEW h \in Handlers, Step(h) \/ Fails(h) PROVE RoomInv'
  <2>1. CASE Register(h) \/ (RegisterFails(h) /\ Registered(h))
    <3>1. h \notin Registrants /\ h \in Registrants' /\ Registered(h)
      <4>1. runs[h].pc = "registering" /\ Registered(h)
        BY <2>1 DEF Register, RegisterFails
      <4>2. runs[h].kind \in {"login", "refresh"}
        BY <4>1 DEF TokenInv, KindsKept
      <4>3. /\ runs'[h].kind = runs[h].kind
            /\ runs'[h].pc \in {"committing", "refused"}
        BY <2>1 DEF Register, RegisterFails, RollBack, Moves, TypeOK
      <4> QED
        BY <4>1, <4>2, <4>3 DEF Registrants, Ends
    <3> QED
      BY <3>1, RegisteredRoom
  <2>2. CASE Unregister(h)
    BY <2>2, EndsOnly DEF Unregister, Deleted
  <2>3. CASE Delete(h)
    BY <2>3, EndsOnly DEF Delete, Deleted
  <2>4. CASE \/ Consume(h) \/ BeginRevoke(h) \/ Revoke(h) \/ Commit(h) \/ List(h)
             \/ AskRedis(h) \/ Validate(h)
             \/ RegisterFails(h) /\ UNCHANGED <<redis, history>>
             \/ UnregisterFails(h) \/ RevocationFails(h) \/ AskFails(h)
             \/ DatabaseFails(h)
    BY <1>1, <2>4 DEF Consume, BeginRevoke, Revoke, Commit, List, AskRedis, Validate,
       UnregisterFails, RevocationFails, AskFails, DatabaseFails, history
  <2> QED
    BY <1>2, <2>1, <2>2, <2>3, <2>4 DEF Step, Fails, RegisterFails
<1>3. CASE Lapse
  BY <1>3, LapseRoom
<1>4. ASSUME NEW h \in Handlers, NEW kind \in Kinds, NEW token, NEW access,
             Begin(h, kind, token, access)
      PROVE  RoomInv'
  BY <1>1, <1>4 DEF Begin
<1>5. CASE Block \/ UNCHANGED vars
  BY <1>1, <1>5 DEF Block, vars, history
<1> QED
  BY <1>2, <1>3, <1>4, <1>5 DEF Next

-----------------------------------------------------------------------------
(* Theorems.                                                                   *)

LEMMA InvHolds == Spec => [](TypeOK /\ TokenInv /\ KeysInv /\ RoomInv)
<1> DEFINE IInv == TypeOK /\ TokenInv /\ KeysInv /\ RoomInv
<1>1. Init => IInv
  BY InitType, InitTokens, InitKeys, InitRoom
<1>2. IInv /\ [Next]_vars => IInv'
  BY NextType, NextTokens, NextKeys, NextRoom
<1> QED
  BY <1>1, <1>2, PTL DEF Spec

(* Every variable of Sessions keeps its shape.                                 *)
THEOREM TypeCorrect == Spec => []TypeOK
BY InvHolds, PTL

(* However many sessions a customer opens, refreshes and ends at the same      *)
(* time, no refresh token is exchanged twice.                                  *)
THEOREM RotationAlways == Spec => []RotationIsAChain
<1>1. Init => RotationIsAChain
  BY DEF Init, NoRun, RotationIsAChain, Answered
<1> QED
  BY <1>1, NextChain, InvHolds, PTL DEF Spec

(* A logout leaves no refresh token and, unless Redis failed it or an id was   *)
(* registered within a revocation, no access id of those handed out before.    *)
THEOREM LogoutEndsAlways == Spec => []LogoutEnds
<1>1. TokenInv /\ KeysInv => LogoutEnds
  BY DEF TokenInv, KeysInv, TokensEnding, KeysEnding, LogoutEnds, Answered
<1> QED
  BY <1>1, InvHolds, PTL

(* No request is let in with an access token that a logout before it ended.    *)
THEOREM LoggedOutAlways == Spec => []LoggedOutIsOut
<1>1. KeysInv => LoggedOutIsOut
  BY DEF KeysInv, LetIn, LoggedOutIsOut, Answered
<1> QED
  BY <1>1, InvHolds, PTL

(* Of the ids registered since the set was last empty the cap takes no more    *)
(* sessions than were registered beyond it, lapsed ids included: none before,  *)
(* and one at most for each after.                                             *)
THEOREM CapTakesTheSurplusAlways == Spec => []CapTakesTheSurplus
<1>1. ASSUME TypeOK, RoomInv PROVE CapTakesTheSurplus
  <2> DEFINE taken == {h \in since : Taken(h)}
  <2>1. taken \subseteq Lost
    BY DEF Lost, Taken
  <2>2. Lost \in SUBSET Handlers /\ since \in SUBSET Handlers
    BY <1>1 DEF Lost, TypeOK
  <2>3. /\ Cardinality(taken) <= Cardinality(Lost)
        /\ Cardinality(taken) \in Nat /\ Cardinality(Lost) \in Nat
        /\ Cardinality(since) \in Nat
    BY <2>1, <2>2, CountsOf
  <2>4. taken # {} => Cardinality(taken) + MaxSessions <= Cardinality(since)
    <3> HIDE DEF taken, Lost
    <3> QED
      BY <1>1, <2>1, <2>3, SessionsAssumption DEF RoomInv, Surplus
  <2> QED
    BY <2>4 DEF CapTakesTheSurplus
<1>2. TypeOK /\ RoomInv => CapTakesTheSurplus
  BY <1>1
<1> QED
  BY <1>2, InvHolds, PTL
=============================================================================
