--------------------------- MODULE PlatformProofs ---------------------------
(***************************************************************************)
(* Proofs about the parts of the server that share no state: accounts,     *)
(* sessions kept in memory, keys, webhooks sent and ordered, health, the   *)
(* classification of Stellar failures, the rate limiters, the metrics and  *)
(* the migrations with their monitoring.  Each part has its inductive      *)
(* invariant, for any number of requests.                                  *)
(***************************************************************************)
EXTENDS Accounts, SessionStore, JwtKeys, WebhookDelivery, EventOrdering, Health,
        StellarFailures, RateLimits, Metrics, Migrations, MigrationMonitor, SequenceTheorems, Sums

(***************************************************************************)
(* Accounts: an address has one, and a reset token is spent once.          *)
(*                                                                         *)
(* The first rests on the unique index alone.  The second on the row lock: *)
(* a reset that has read its token under FOR UPDATE is the only one that   *)
(* has, so the token is not used when it commits.                          *)
(***************************************************************************)

\* A reset between its SELECT ... FOR UPDATE and the end of its transaction.
Holding(r) == reset[r].at \in {"locked", "changed", "marked"}

\* A token that is read under its lock is not used, and is read by one reset.
TokenLocked ==
    \A r \in Resets : Holding(r) =>
        /\ tokenRow[reset[r].token] # "used"
        /\ \A q \in Resets : Holding(q) /\ reset[q].token = reset[r].token => q = r

AtMostOne(S) == \A x, y \in S : x = y

\* The two properties, without the cardinalities.
OneAccount ==
    /\ AtMostOne(account)
    /\ \A s \in Signups : signup[s].at = "created" => account = {s}

SpentOnce ==
    \A t \in Tokens : AtMostOne(spent[t]) /\ (spent[t] # {} => tokenRow[t] = "used")

AccountsIInv == AccountsTypeOK /\ OneAccount /\ TokenLocked /\ SpentOnce

-----------------------------------------------------------------------------
\* A set whose members are all the same has at most one.
LEMMA AtMostOneMember ==
    ASSUME NEW S, AtMostOne(S)
    PROVE  Cardinality(S) <= 1
<1>1. CASE S = {}
  BY <1>1, FS_EmptySet
<1>2. CASE S # {}
  <2>1. PICK x \in S : TRUE
    BY <1>2
  <2>2. S = {x}
    BY <2>1 DEF AtMostOne
  <2>3. Cardinality({x}) = 1
    BY FS_Singleton
  <2> QED
    BY <2>2, <2>3
<1> QED
  BY <1>1, <1>2

-----------------------------------------------------------------------------
(* Type correctness.                                                       *)

\* Every step of a registration, a request or a reset keeps the types.
LEMMA AccountsTypeStep == AccountsTypeOK /\ [AccountsNext]_accountVars => AccountsTypeOK'
<1> SUFFICES ASSUME AccountsTypeOK, [AccountsNext]_accountVars PROVE AccountsTypeOK'
  OBVIOUS
<1> USE DEF AccountsTypeOK
<1>1. ASSUME NEW s \in Signups, NEW k \in Kinds, NEW p \in Passwords, Register(s, k, p)
      PROVE  AccountsTypeOK'
  BY <1>1 DEF Register, Kinds
<1>2. ASSUME NEW s \in Signups, FindByEmail(s) \/ SignupFails(s)
      PROVE  AccountsTypeOK'
  <2>1. CASE FindByEmail(s)
    BY <2>1 DEF FindByEmail, Step
  <2>2. CASE SignupFails(s)
    BY <2>2 DEF SignupFails, Step, Fault
  <2> QED
    BY <1>2, <2>1, <2>2
<1>3. ASSUME NEW s \in Signups, CreateUser(s) \/ SignupReplyLost(s)
      PROVE  AccountsTypeOK'
  <2>1. HashOf(signup[s].kind) \in {"none", "sha256", "scrypt"}
    BY DEF HashOf
  <2>2. CASE CreateUser(s)
    BY <2>1, <2>2 DEF CreateUser, Step
  <2>3. CASE SignupReplyLost(s)
    BY <2>1, <2>3 DEF SignupReplyLost, Step, Fault
  <2> QED
    BY <1>3, <2>2, <2>3
<1>4. ASSUME NEW t \in Tokens, RequestPasswordReset(t)
      PROVE  AccountsTypeOK'
  <2>1. limitRow' \in {"none", "recent", "old", "blocked"}
    BY <1>4 DEF RequestPasswordReset, CheckRateLimit
  <2> QED
    BY <1>4, <2>1 DEF RequestPasswordReset
<1>5. ASSUME NEW t \in Tokens, TokenExpires(t)
      PROVE  AccountsTypeOK'
  BY <1>5 DEF TokenExpires
<1>6. CASE LimitAges \/ ResetRateLimit
  BY <1>6 DEF LimitAges, ResetRateLimit
<1>7. ASSUME NEW r \in Resets, NEW t \in Tokens, StartReset(r, t)
      PROVE  AccountsTypeOK'
  BY <1>7 DEF StartReset
<1>8. ASSUME NEW r \in Resets,
             SelectForUpdate(r) \/ UpdateUser(r) \/ MarkUsed(r) \/ ResetFails(r)
      PROVE  AccountsTypeOK'
  BY <1>8 DEF SelectForUpdate, UpdateUser, MarkUsed, ResetFails, ResetStep, Fault
<1>9. ASSUME NEW r \in Resets, CommitReset(r) \/ CommitReplyLost(r)
      PROVE  AccountsTypeOK'
  <2>1. reset[r].token \in Tokens
    BY <1>9 DEF CommitReset, CommitReplyLost
  <2>2. /\ password' \in [by : {"nobody"} \union Signups \union Resets, hash : {"none", "sha256", "scrypt"}]
        /\ tokenRow' \in [Tokens -> {"none", "live", "expired", "used"}]
        /\ spent' \in [Tokens -> SUBSET Resets]
    BY <1>9, <2>1 DEF CommitReset, CommitReplyLost, Commits
  <2>3. reset' \in {[reset EXCEPT ![r].at = "done"], [reset EXCEPT ![r].at = "error"]}
    BY <1>9 DEF CommitReset, CommitReplyLost, ResetStep
  <2>4. /\ reset' \in [Resets -> [at : {"idle", "begun", "locked", "changed", "marked", "refused",
             "done", "error"}, token : Tokens \union {"none"}]]
        /\ \A q \in Resets : reset'[q].at # "idle" => reset'[q].token \in Tokens
    BY <2>1, <2>3
  <2>5. UNCHANGED <<account, signup, limitRow>> /\ faults' \in Nat
    BY <1>9 DEF CommitReset, CommitReplyLost, Fault
  <2> QED
    BY <2>2, <2>4, <2>5
<1>10. CASE UNCHANGED accountVars
  BY <1>10 DEF accountVars
<1> QED
  BY <1>1, <1>2, <1>3, <1>4, <1>5, <1>6, <1>7, <1>8, <1>9, <1>10 DEF AccountsNext

-----------------------------------------------------------------------------
(* One account per address.                                                *)

\* A row is inserted only where there is none.
LEMMA OneAccountStep ==
    AccountsTypeOK /\ OneAccount /\ [AccountsNext]_accountVars => OneAccount'
<1> SUFFICES ASSUME AccountsTypeOK, OneAccount, [AccountsNext]_accountVars PROVE OneAccount'
  OBVIOUS
<1> USE DEF AccountsTypeOK, OneAccount, AtMostOne
<1>1. ASSUME NEW s \in Signups,
             (\E k \in Kinds, p \in Passwords : Register(s, k, p)) \/ FindByEmail(s) \/ SignupFails(s)
      PROVE  OneAccount'
  BY <1>1 DEF Register, FindByEmail, SignupFails, Step
<1>2. ASSUME NEW s \in Signups, CreateUser(s) \/ SignupReplyLost(s)
      PROVE  OneAccount'
  <2>1. CASE account # {}
    <3>1. UNCHANGED account /\ signup' = [signup EXCEPT ![s].at = "conflict"]
      BY <1>2, <2>1 DEF CreateUser, SignupReplyLost, Step
    <3> QED
      BY <3>1
  <2>2. CASE account = {}
    <3>1. account' = {s}
      BY <1>2, <2>2 DEF CreateUser, SignupReplyLost
    <3>2. \A q \in Signups : q # s => signup'[q].at # "created"
      BY <1>2, <2>2 DEF CreateUser, SignupReplyLost, Step
    <3> QED
      BY <3>1, <3>2
  <2> QED
    BY <2>1, <2>2
<1>3. CASE UNCHANGED <<account, signup>>
  BY <1>3
<1>4. CASE \/ \E t \in Tokens : RequestPasswordReset(t) \/ TokenExpires(t)
           \/ LimitAges \/ ResetRateLimit \/ UNCHANGED accountVars
  BY <1>3, <1>4
     DEF RequestPasswordReset, TokenExpires, LimitAges, ResetRateLimit, accountVars
<1>5. ASSUME NEW r \in Resets,
             \/ \E t \in Tokens : StartReset(r, t)
             \/ SelectForUpdate(r) \/ UpdateUser(r) \/ MarkUsed(r) \/ CommitReset(r)
             \/ ResetFails(r) \/ CommitReplyLost(r)
      PROVE  UNCHANGED <<account, signup>>
  BY <1>5 DEF StartReset, SelectForUpdate, UpdateUser, MarkUsed, CommitReset, ResetFails,
              CommitReplyLost
<1> QED
  BY <1>1, <1>2, <1>3, <1>4, <1>5 DEF AccountsNext

-----------------------------------------------------------------------------
(* Tokens are spent once.                                                  *)

\* The lock keeps a token from being used between the SELECT and the COMMIT.
LEMMA TokenStep ==
    AccountsTypeOK /\ TokenLocked /\ SpentOnce /\ [AccountsNext]_accountVars
        => TokenLocked' /\ SpentOnce'
<1> SUFFICES ASSUME AccountsTypeOK, TokenLocked, SpentOnce, [AccountsNext]_accountVars
             PROVE  TokenLocked' /\ SpentOnce'
  OBVIOUS
<1> USE DEF AccountsTypeOK, TokenLocked, SpentOnce, Holding, AtMostOne
<1>1. CASE UNCHANGED <<tokenRow, reset, spent>>
  BY <1>1
<1>2. ASSUME NEW s \in Signups,
             \/ \E k \in Kinds, p \in Passwords : Register(s, k, p)
             \/ FindByEmail(s) \/ CreateUser(s) \/ SignupFails(s) \/ SignupReplyLost(s)
      PROVE  UNCHANGED <<tokenRow, reset, spent>>
  BY <1>2 DEF Register, FindByEmail, CreateUser, SignupFails, SignupReplyLost
<1>3. CASE LimitAges \/ ResetRateLimit \/ UNCHANGED accountVars
  BY <1>1, <1>3 DEF LimitAges, ResetRateLimit, accountVars
<1>4. ASSUME NEW t \in Tokens, RequestPasswordReset(t) \/ TokenExpires(t)
      PROVE  TokenLocked' /\ SpentOnce'
  BY <1>4 DEF RequestPasswordReset, TokenExpires
<1>5. ASSUME NEW r \in Resets, NEW t \in Tokens, StartReset(r, t)
      PROVE  TokenLocked' /\ SpentOnce'
  BY <1>5 DEF StartReset
<1>6. ASSUME NEW r \in Resets, SelectForUpdate(r)
      PROVE  TokenLocked' /\ SpentOnce'
  BY <1>6 DEF SelectForUpdate, ResetStep, Holds
<1>7. ASSUME NEW r \in Resets, UpdateUser(r) \/ MarkUsed(r) \/ ResetFails(r)
      PROVE  TokenLocked' /\ SpentOnce'
  <2>1. UNCHANGED <<tokenRow, spent>>
    BY <1>7 DEF UpdateUser, MarkUsed, ResetFails
  <2>2. \A q \in Resets : Holding(q)' => Holding(q) /\ reset'[q].token = reset[q].token
    BY <1>7 DEF UpdateUser, MarkUsed, ResetFails, ResetStep
  <2> QED
    BY <2>1, <2>2
<1>8. ASSUME NEW r \in Resets, CommitReset(r) \/ CommitReplyLost(r)
      PROVE  TokenLocked' /\ SpentOnce'
  <2>1. Holding(r) /\ reset[r].token \in Tokens /\ Commits(r)
    BY <1>8 DEF CommitReset, CommitReplyLost
  <2>2. spent[reset[r].token] = {}
    BY <2>1
  <2>3. reset' \in {[reset EXCEPT ![r].at = "done"], [reset EXCEPT ![r].at = "error"]}
    BY <1>8 DEF CommitReset, CommitReplyLost, ResetStep
  <2>4. TokenLocked'
    <3> SUFFICES ASSUME NEW q \in Resets, Holding(q)'
                 PROVE  /\ tokenRow'[reset'[q].token] # "used"
                        /\ \A p \in Resets : Holding(p)' /\ reset'[p].token = reset'[q].token => p = q
      BY DEF TokenLocked, Holding
    <3>1. \A p \in Resets : Holding(p)' => p # r /\ Holding(p) /\ reset'[p].token = reset[p].token
      BY <2>3
    <3>2. reset[q].token # reset[r].token /\ reset[q].token \in Tokens
      BY <2>1, <3>1
    <3> QED
      BY <2>1, <3>1, <3>2 DEF Commits
  <2>5. SpentOnce'
    BY <2>1, <2>2 DEF Commits
  <2> QED
    BY <2>4, <2>5
<1> QED
  BY <1>1, <1>2, <1>3, <1>4, <1>5, <1>6, <1>7, <1>8 DEF AccountsNext

-----------------------------------------------------------------------------
\* The invariant holds initially and is kept by every step.
THEOREM AccountsInductive == AccountsSpec => []AccountsIInv
<1>1. AccountsInit => AccountsIInv
  BY DEF AccountsInit, AccountsIInv, AccountsTypeOK, OneAccount, TokenLocked, Holding, SpentOnce,
         AtMostOne, Kinds
<1>2. AccountsIInv /\ [AccountsNext]_accountVars => AccountsIInv'
  BY AccountsTypeStep, OneAccountStep, TokenStep DEF AccountsIInv
<1> QED
  BY <1>1, <1>2, PTL DEF AccountsSpec

\* Every variable stays in its type.
THEOREM AccountsAreTyped == AccountsSpec => []AccountsTypeOK
<1>1. AccountsIInv => AccountsTypeOK
  BY DEF AccountsIInv
<1> QED
  BY <1>1, AccountsInductive, PTL

\* However registrations of both kinds overlap, fail or lose their replies, there
\* is one account per address (UserRepository.createUser under its unique index).
THEOREM AddressesAreUnique == AccountsSpec => []OneAccountPerEmail
<1>1. AccountsIInv => OneAccountPerEmail
  BY AtMostOneMember DEF AccountsIInv, OneAccount, OneAccountPerEmail
<1> QED
  BY <1>1, AccountsInductive, PTL

\* However many resets present a token at the same time, it changes the password
\* once (PasswordResetService.resetPassword).
THEOREM ResetTokensAreSpentOnce == AccountsSpec => []TokensAreSpentOnce
<1>1. AccountsIInv => TokensAreSpentOnce
  BY AtMostOneMember DEF AccountsIInv, SpentOnce, TokensAreSpentOnce
<1> QED
  BY <1>1, AccountsInductive, PTL

-----------------------------------------------------------------------------
(***************************************************************************)
(* Sessions: what ended them holds for good, because a token is drawn once *)
(* and only a live session is extended.                                    *)
(***************************************************************************)

SessionVisits == [at : {"idle", "authenticated", "unauthorized", "answered"}, route : Routes, token : Opaque]

SessionTypes ==
    /\ {ssClock, totalCreated, expiredCleaned, removed} \subseteq Nat
    /\ expiresAt \in [Opaque -> Nat] /\ visit \in [Visits -> SessionVisits]
    /\ drawn \subseteq Opaque /\ IsFiniteSet(stored)

SessionsEnd ==
    /\ stored \union ended \subseteq drawn
    /\ \A v \in Visits : visit[v].at = "authenticated" => visit[v].token \in drawn
    /\ \A t \in ended : t \in stored => Expired(t)

SessionsAddUp == totalCreated = Cardinality(stored) + expiredCleaned + removed

StoreIInv == SessionTypes /\ SessionsEnd /\ SessionsAddUp

\* What is evicted is counted.
LEMMA EvictCounts ==
    ASSUME StoreIInv, NEW S, Evict(S)
    PROVE  /\ stored' \subseteq stored /\ IsFiniteSet(stored') /\ expiredCleaned' \in Nat
           /\ Cardinality(stored') + expiredCleaned' = Cardinality(stored) + expiredCleaned
<1> DEFINE gone == {t \in S \intersect stored : Expired(t)}
<1>1. stored' = stored \ gone /\ expiredCleaned' = expiredCleaned + Cardinality(gone)
  BY DEF Evict
<1>2. gone \in SUBSET stored /\ stored \intersect gone = gone
  OBVIOUS
<1>3. IsFiniteSet(stored) /\ expiredCleaned \in Nat
  BY DEF StoreIInv, SessionTypes
<1> HIDE DEF gone
<1>4. IsFiniteSet(gone) /\ Cardinality(gone) \in Nat /\ Cardinality(stored) \in Nat
  BY <1>2, <1>3, FS_Subset, FS_CardinalityType
<1>5. IsFiniteSet(stored \ gone) /\ Cardinality(stored \ gone) = Cardinality(stored) - Cardinality(gone)
  BY <1>2, <1>3, FS_Difference
<1> QED
  BY <1>1, <1>3, <1>4, <1>5

LEMMA StoreInductive == StoreIInv /\ [StoreNext]_storeVars => StoreIInv'
<1> SUFFICES ASSUME StoreIInv, [StoreNext]_storeVars PROVE StoreIInv'
  OBVIOUS
<1> USE DEF StoreIInv, SessionTypes
<1>0. Cardinality(stored) \in Nat
  BY FS_CardinalityType
<1>1. ASSUME NEW t \in Opaque, Create(t) PROVE StoreIInv'
  <2>1. /\ t \notin stored /\ stored' = stored \union {t} /\ totalCreated' = totalCreated + 1
        /\ drawn' = drawn \union {t} /\ expiresAt' = [expiresAt EXCEPT ![t] = ssClock + Ttl]
        /\ UNCHANGED <<ssClock, expiredCleaned, visit, ended, removed>>
    BY <1>1 DEF Create, SessionsEnd
  <2>2. IsFiniteSet(stored') /\ Cardinality(stored') = Cardinality(stored) + 1
    BY <2>1, FS_AddElement
  <2>3. SessionTypes'
    BY <2>1, <2>2, TokensAssumption
  <2>4. SessionsEnd'
    BY <1>1, <2>1 DEF SessionsEnd, Expired, Create
  <2>5. SessionsAddUp'
    BY <1>0, <2>1, <2>2 DEF SessionsAddUp
  <2> QED
    BY <2>3, <2>4, <2>5
<1>2. ASSUME NEW v \in Visits, NEW r \in Routes, NEW t \in Opaque, Authenticate(v, r, t) PROVE StoreIInv'
  <2>1. /\ visit' = [visit EXCEPT ![v] = [at |-> IF t \in stored /\ ~Expired(t) THEN "authenticated" ELSE "unauthorized",
                                          route |-> r, token |-> t]]
        /\ Evict({t}) /\ UNCHANGED <<ssClock, expiresAt, totalCreated, drawn, ended, removed>>
    BY <1>2 DEF Authenticate
  <2>2. /\ stored' \subseteq stored /\ IsFiniteSet(stored') /\ expiredCleaned' \in Nat
        /\ Cardinality(stored') + expiredCleaned' = Cardinality(stored) + expiredCleaned
    BY <2>1, EvictCounts
  <2>3. Cardinality(stored') \in Nat
    BY <2>2, FS_CardinalityType
  <2>4. SessionTypes'
    BY <2>1, <2>2 DEF SessionVisits
  <2>5. SessionsEnd'
    BY <2>1, <2>2 DEF SessionsEnd, Expired
  <2>6. SessionsAddUp'
    BY <1>0, <2>1, <2>2, <2>3 DEF SessionsAddUp
  <2> QED
    BY <2>4, <2>5, <2>6
<1>3. ASSUME NEW v \in Visits, ReadMe(v) PROVE StoreIInv'
  BY <1>3 DEF ReadMe, Goes, SessionVisits, SessionsEnd, SessionsAddUp, Expired
<1>4. ASSUME NEW v \in Visits, Logout(v) PROVE StoreIInv'
  <2> DEFINE t == visit[v].token
  <2>1. /\ visit[v].at = "authenticated" /\ visit' = [visit EXCEPT ![v].at = "answered"]
        /\ stored' = stored \ {t} /\ removed' = removed + Cardinality(stored \intersect {t})
        /\ ended' = ended \union {t}
        /\ UNCHANGED <<ssClock, expiresAt, totalCreated, expiredCleaned, drawn>>
    BY <1>4 DEF Logout, Goes
  <2>2. t \in drawn
    BY <2>1 DEF SessionsEnd
  <2> HIDE DEF t
  <2>3. IsFiniteSet(stored \ {t}) /\ Cardinality(stored \ {t}) = Cardinality(stored) - Cardinality(stored \intersect {t})
    BY FS_Difference
  <2>4. Cardinality(stored \intersect {t}) \in Nat /\ Cardinality(stored \ {t}) \in Nat
    BY <2>3, FS_Intersection, FS_CardinalityType
  <2>5. SessionTypes'
    BY <2>1, <2>3, <2>4 DEF SessionVisits
  <2>6. SessionsEnd'
    BY <2>1, <2>2 DEF SessionsEnd, SessionVisits, Expired
  <2>7. SessionsAddUp'
    BY <1>0, <2>1, <2>3, <2>4 DEF SessionsAddUp
  <2> QED
    BY <2>5, <2>6, <2>7
<1>5. ASSUME NEW v \in Visits, Touch(v) PROVE StoreIInv'
  <2> DEFINE t == visit[v].token
  <2>1. /\ visit' = [visit EXCEPT ![v].at = "answered"] /\ Evict({t})
        /\ UNCHANGED <<ssClock, totalCreated, drawn, ended, removed>>
    BY <1>5 DEF Touch, Goes
  <2>2. \/ t \in stored /\ ~Expired(t) /\ expiresAt' = [expiresAt EXCEPT ![t] = ssClock + Ttl]
        \/ expiresAt' = expiresAt
    BY <1>5 DEF Touch, Extend
  <2> HIDE DEF t
  <2>3. /\ stored' \subseteq stored /\ IsFiniteSet(stored') /\ expiredCleaned' \in Nat
        /\ Cardinality(stored') + expiredCleaned' = Cardinality(stored) + expiredCleaned
    BY <2>1, EvictCounts
  <2>4. Cardinality(stored') \in Nat
    BY <2>3, FS_CardinalityType
  <2>5. SessionTypes'
    BY <2>1, <2>2, <2>3, TokensAssumption DEF SessionVisits
  <2>6. \A e \in ended : e \in stored => expiresAt'[e] = expiresAt[e]
    BY <2>2 DEF SessionsEnd
  <2>7. SessionsEnd'
    BY <2>1, <2>3, <2>6 DEF SessionsEnd, SessionVisits, Expired
  <2>8. SessionsAddUp'
    BY <1>0, <2>1, <2>3, <2>4 DEF SessionsAddUp
  <2> QED
    BY <2>5, <2>7, <2>8
<1>6. CASE Sweep
  <2>1. Evict(Opaque) /\ UNCHANGED <<ssClock, expiresAt, totalCreated, visit, drawn, ended, removed>>
    BY <1>6 DEF Sweep
  <2>2. /\ stored' \subseteq stored /\ IsFiniteSet(stored') /\ expiredCleaned' \in Nat
        /\ Cardinality(stored') + expiredCleaned' = Cardinality(stored) + expiredCleaned
    BY <2>1, EvictCounts
  <2>3. Cardinality(stored') \in Nat
    BY <2>2, FS_CardinalityType
  <2> QED
    BY <1>0, <2>1, <2>2, <2>3 DEF SessionsEnd, SessionsAddUp, Expired
<1>7. CASE StopStore
  <2>1. /\ stored' = {} /\ removed' = removed + Cardinality(stored) /\ ended' = ended \union stored
        /\ UNCHANGED <<ssClock, expiresAt, totalCreated, expiredCleaned, visit, drawn>>
    BY <1>7 DEF StopStore
  <2>2. IsFiniteSet({}) /\ Cardinality({}) = 0
    BY FS_EmptySet
  <2> QED
    BY <1>0, <2>1, <2>2 DEF SessionsEnd, SessionsAddUp, Expired
<1>8. CASE PassTime
  <2>1. /\ ssClock' = ssClock + 1 /\ ended' = ended \union {t \in drawn : ssClock' >= expiresAt[t]}
        /\ UNCHANGED <<stored, expiresAt, totalCreated, expiredCleaned, visit, drawn, removed>>
    BY <1>8 DEF PassTime
  <2> QED
    BY <2>1 DEF SessionsEnd, SessionsAddUp, Expired
<1>9. CASE UNCHANGED storeVars
  BY <1>9 DEF storeVars, SessionsEnd, SessionsAddUp, Expired
<1> QED
  BY <1>1, <1>2, <1>3, <1>4, <1>5, <1>6, <1>7, <1>8, <1>9 DEF StoreNext

\* For any sessions and requests: a session that was logged out or whose time was
\* over is never live again, and every session created is accounted for.
THEOREM EndedSessionsStay == StoreSpec => []EndedSessionsStayEnded
<1>1. StoreInit => StoreIInv
  BY TokensAssumption, FS_EmptySet
     DEF StoreInit, StoreIInv, SessionTypes, SessionVisits, SessionsEnd, SessionsAddUp, Routes
<1>2. StoreIInv => EndedSessionsStayEnded
  BY DEF StoreIInv, SessionsEnd, SessionsAddUp, EndedSessionsStayEnded
<1> QED
  BY <1>1, <1>2, StoreInductive, PTL DEF StoreSpec

-----------------------------------------------------------------------------
(***************************************************************************)
(* Health: what a check came to was witnessed, and an answer comes after   *)
(* the checks that its route asks, or after one that failed.               *)
(***************************************************************************)

Results == {"unknown", "up", "degraded", "down"}
HealthProbes == [at : {"idle", "checking", "answered"}, route : HealthRoutes,
                 check : [Dependencies -> Results], code : {0, 200, 503}]

\* Only what the route asks is checked, and the check tells what was there.
CheckedTruly(p) ==
    \A d \in Dependencies :
        /\ probe[p].check[d] # "unknown" => d \in Asks(probe[p].route)
        /\ probe[p].check[d] \in {"up", "degraded"} => <<d, "up">> \in witnessed[p]
        /\ probe[p].check[d] = "down" => <<d, "down">> \in witnessed[p]

AnsweredTruly(p) ==
    probe[p].at = "answered" =>
        \/ probe[p].code = 503 /\ Found(p, "down")
        \/ /\ probe[p].code = 200 /\ ~Found(p, "down")
           /\ \A d \in Asks(probe[p].route) : probe[p].check[d] # "unknown"

HealthIInv ==
    /\ probe \in [Probes -> HealthProbes] /\ witnessed \in [Probes -> SUBSET (Dependencies \X {"up", "down"})]
    /\ postgres \in {"up", "busy", "down"}
    /\ \A p \in Probes : probe[p].at = "idle" => probe[p].check = NoChecks
    /\ \A p \in Probes : CheckedTruly(p) /\ AnsweredTruly(p)

LEMMA AsksDependencies == \A r \in HealthRoutes : Asks(r) \subseteq Dependencies
  BY DEF HealthRoutes, Asks, Dependencies

\* A check that tells the truth about one dependency.
LEMMA CheckStep ==
    ASSUME HealthIInv, NEW p \in Probes, NEW d \in Dependencies, Pending(p, d), NEW status \in Results \ {"unknown"},
           Checked(p, d, status), Witness(p),
           postgres' = postgres, status \in {"up", "degraded"} => <<d, "up">> \in Conditions,
           status = "down" => <<d, "down">> \in Conditions
    PROVE  HealthIInv'
<1> USE DEF HealthIInv
<1>1. /\ probe[p].at = "checking" /\ d \in Asks(probe[p].route)
      /\ probe' = [probe EXCEPT ![p].check[d] = status]
      /\ witnessed' = [witnessed EXCEPT ![p] = @ \union Conditions]
  BY DEF Pending, Checked, Witness
<1>2. Conditions \subseteq Dependencies \X {"up", "down"}
  BY DEF Conditions, Dependencies
<1>3. /\ probe'[p].at = "checking" /\ probe'[p].route = probe[p].route
      /\ probe'[p].check = [probe[p].check EXCEPT ![d] = status] /\ probe'[p].code = probe[p].code
  BY <1>1 DEF HealthProbes
<1>4. \A q \in Probes : q # p => probe'[q] = probe[q] /\ witnessed'[q] = witnessed[q]
  BY <1>1
<1>6. probe[p].check \in [Dependencies -> Results]
  BY DEF HealthProbes
<1>5. probe' \in [Probes -> HealthProbes] /\ witnessed' \in [Probes -> SUBSET (Dependencies \X {"up", "down"})]
  <2> DEFINE check == [probe[p].check EXCEPT ![d] = status]
  <2>1. probe' = [probe EXCEPT ![p] = [probe[p] EXCEPT !.check = check]]
    BY <1>1
  <2>2. check \in [Dependencies -> Results]
    BY <1>6
  <2> HIDE DEF check
  <2>3. [probe[p] EXCEPT !.check = check] \in HealthProbes
    BY <2>2 DEF HealthProbes
  <2> QED
    BY <1>1, <1>2, <2>1, <2>3
<1>7. witnessed'[p] = witnessed[p] \union Conditions
  BY <1>1
<1>8. CheckedTruly(p)' /\ AnsweredTruly(p)'
  BY <1>1, <1>3, <1>6, <1>7 DEF CheckedTruly, AnsweredTruly
<1>9. ASSUME NEW q \in Probes, q # p PROVE CheckedTruly(q)' /\ AnsweredTruly(q)'
  BY <1>4, <1>9 DEF CheckedTruly, AnsweredTruly, Found
<1> QED
  BY <1>3, <1>4, <1>5, <1>8, <1>9

LEMMA HealthInductive == HealthIInv /\ [HealthNext]_healthVars => HealthIInv'
<1> SUFFICES ASSUME HealthIInv, [HealthNext]_healthVars PROVE HealthIInv'
  OBVIOUS
<1> USE DEF HealthIInv
<1>1. ASSUME NEW p \in Probes, NEW route \in HealthRoutes, Ask(p, route) PROVE HealthIInv'
  <2>1. /\ probe[p].at = "idle" /\ probe' = [probe EXCEPT ![p] = [@ EXCEPT !.at = "checking", !.route = route]]
        /\ witnessed' = witnessed /\ postgres' = postgres
    BY <1>1 DEF Ask
  <2>2. probe'[p].at = "checking" /\ probe'[p].check = NoChecks
    BY <2>1 DEF HealthProbes
  <2>3. \A q \in Probes : q # p => probe'[q] = probe[q]
    BY <2>1
  <2>4. probe' \in [Probes -> HealthProbes]
    <3>1. [probe[p] EXCEPT !.at = "checking", !.route = route] \in HealthProbes
      <4>1. [probe[p] EXCEPT !.at = "checking"] \in HealthProbes
        BY DEF HealthProbes
      <4> QED
        BY <4>1 DEF HealthProbes
    <3> QED
      BY <2>1, <3>1
  <2>5. CheckedTruly(p)' /\ AnsweredTruly(p)'
    BY <2>2 DEF CheckedTruly, AnsweredTruly, NoChecks
  <2>6. ASSUME NEW q \in Probes, q # p PROVE CheckedTruly(q)' /\ AnsweredTruly(q)'
    BY <2>1, <2>3, <2>6 DEF CheckedTruly, AnsweredTruly, Found
  <2> QED
    BY <2>1, <2>2, <2>3, <2>4, <2>5, <2>6
<1>2. ASSUME NEW p \in Probes, CheckDatabase(p) PROVE HealthIInv'
  <2>1. PICK status \in Results \ {"unknown"} :
            /\ Checked(p, "database", status)
            /\ status \in {"up", "degraded"} => postgres # "down"
            /\ status = "down" => postgres = "down"
    <3>1. CASE postgres = "up"
      BY <1>2, <3>1 DEF CheckDatabase, Results
    <3>2. CASE postgres = "busy" /\ probe[p].route = "graph"
      BY <1>2, <3>2 DEF CheckDatabase, Results
    <3>3. CASE postgres = "busy" /\ probe[p].route # "graph"
      BY <1>2, <3>3 DEF CheckDatabase, Results
    <3>4. CASE postgres = "down"
      BY <1>2, <3>4 DEF CheckDatabase, Results
    <3> QED
      BY <3>1, <3>2, <3>3, <3>4
  <2>2. "database" \in Dependencies /\ Pending(p, "database") /\ Witness(p) /\ postgres' = postgres
    BY <1>2 DEF CheckDatabase, Dependencies
  <2>3. /\ status \in {"up", "degraded"} => <<"database", "up">> \in Conditions
        /\ status = "down" => <<"database", "down">> \in Conditions
    BY <2>1 DEF Conditions
  <2> QED
    BY <2>1, <2>2, <2>3, CheckStep
<1>3. ASSUME NEW p \in Probes, CheckStellarHorizon(p) PROVE HealthIInv'
  <2>1. PICK status \in Results \ {"unknown"} :
            /\ Checked(p, "stellar-horizon", status)
            /\ status \in {"up", "degraded"} => horizon = "up"
            /\ status = "down" => horizon # "up"
    BY <1>3 DEF CheckStellarHorizon, Results
  <2>2. "stellar-horizon" \in Dependencies /\ Pending(p, "stellar-horizon") /\ Witness(p) /\ postgres' = postgres
    BY <1>3 DEF CheckStellarHorizon, Dependencies
  <2>3. /\ status \in {"up", "degraded"} => <<"stellar-horizon", "up">> \in Conditions
        /\ status = "down" => <<"stellar-horizon", "down">> \in Conditions
    BY <2>1 DEF Conditions
  <2> QED
    BY <2>1, <2>2, <2>3, CheckStep
<1>4. ASSUME NEW p \in Probes, AnswerProbe(p) PROVE HealthIInv'
  <2>1. /\ probe[p].at = "checking" /\ witnessed' = witnessed /\ postgres' = postgres
        /\ probe' = [probe EXCEPT ![p] = [@ EXCEPT !.at = "answered", !.code = CodeOf(p)]]
    BY <1>4 DEF AnswerProbe
  <2>2. \/ CodeOf(p) = 503 /\ Found(p, "down")
        \/ CodeOf(p) = 200 /\ ~Found(p, "down")
    BY DEF CodeOf
  <2>3. ~Found(p, "down") => \A d \in Asks(probe[p].route) : probe[p].check[d] # "unknown"
    BY <1>4, <2>1 DEF AnswerProbe, Pending
  <2>4. /\ probe'[p].at = "answered" /\ probe'[p].code = CodeOf(p)
        /\ probe'[p].route = probe[p].route /\ probe'[p].check = probe[p].check
    BY <2>1 DEF HealthProbes
  <2>5. probe' \in [Probes -> HealthProbes]
    <3>1. [probe[p] EXCEPT !.at = "answered", !.code = CodeOf(p)] \in HealthProbes
      <4>1. [probe[p] EXCEPT !.at = "answered"] \in HealthProbes /\ CodeOf(p) \in {200, 503}
        BY <2>2 DEF HealthProbes
      <4> QED
        BY <4>1, ZenonT(60) DEF HealthProbes
    <3> QED
      BY <2>1, <3>1
  <2>6. \A q \in Probes : q # p => probe'[q] = probe[q]
    BY <2>1
  <2>7. CheckedTruly(p)' /\ AnsweredTruly(p)'
    BY <2>1, <2>2, <2>3, <2>4 DEF CheckedTruly, AnsweredTruly, Found
  <2>8. ASSUME NEW q \in Probes, q # p PROVE CheckedTruly(q)' /\ AnsweredTruly(q)'
    BY <2>1, <2>6, <2>8 DEF CheckedTruly, AnsweredTruly, Found
  <2> QED
    BY <2>1, <2>4, <2>5, <2>6, <2>7, <2>8
<1>5. CASE UNCHANGED <<probe, witnessed>> /\ postgres' \in {"up", "busy", "down"}
  BY <1>5 DEF CheckedTruly, AnsweredTruly, Found
<1> QED
  BY <1>1, <1>2, <1>3, <1>4, <1>5 DEF HealthNext, healthVars, Change

\* For any requests: an answer is 200 only if all that its route asks was up
\* meanwhile, and 503 only if some of it was down.
THEOREM AnswersAreTrue == HealthSpec => []AnswersWereTrue
<1>1. HealthInit => HealthIInv
  BY DEF HealthInit, HealthIInv, HealthProbes, HealthRoutes, NoChecks, Results, CheckedTruly, AnsweredTruly
<1>2. HealthIInv => AnswersWereTrue
  <2> SUFFICES ASSUME HealthIInv, NEW p \in Probes, probe[p].at = "answered"
               PROVE  /\ probe[p].code = 200 => \A d \in Asks(probe[p].route) : <<d, "up">> \in witnessed[p]
                      /\ probe[p].code = 503 => \E d \in Asks(probe[p].route) : <<d, "down">> \in witnessed[p]
    BY DEF AnswersWereTrue
  <2>1. CheckedTruly(p) /\ AnsweredTruly(p) /\ Asks(probe[p].route) \subseteq Dependencies
        /\ probe[p].check \in [Dependencies -> Results]
    BY AsksDependencies DEF HealthIInv, HealthProbes
  <2>2. CASE probe[p].code = 503 /\ Found(p, "down")
    <3>1. PICK d \in Dependencies : probe[p].check[d] = "down"
      BY <2>2 DEF Found
    <3>2. d \in Asks(probe[p].route) /\ <<d, "down">> \in witnessed[p]
      BY <2>1, <3>1 DEF CheckedTruly
    <3> QED
      BY <2>2, <3>2
  <2>3. CASE /\ probe[p].code = 200 /\ ~Found(p, "down")
             /\ \A d \in Asks(probe[p].route) : probe[p].check[d] # "unknown"
    <3>1. ASSUME NEW d \in Asks(probe[p].route) PROVE <<d, "up">> \in witnessed[p]
      <4>1. d \in Dependencies /\ probe[p].check[d] \in {"up", "degraded"}
        BY <2>1, <2>3, <3>1 DEF Found, Results
      <4> QED
        BY <2>1, <4>1 DEF CheckedTruly
    <3> QED
      BY <2>3, <3>1
  <2> QED
    BY <2>1, <2>2, <2>3 DEF AnsweredTruly
<1> QED
  BY <1>1, <1>2, HealthInductive, PTL DEF HealthSpec

-----------------------------------------------------------------------------
(***************************************************************************)
(* Webhooks that are sent: a delivery under way has not used more attempts *)
(* than there are.                                                         *)
(***************************************************************************)

Places == {"none", "sending", "waiting", "delivered", "rejected", "exhausted", "lost"}

DeliveryIInv ==
    /\ place \in [Pairs -> Places] /\ tries \in [Pairs -> Nat] /\ stops \in Nat
    /\ \A d \in Pairs : place[d] = "sending" => tries[d] <= MaxRetries
    /\ StartedDeliveriesAreDecided

LEMMA DeliveryInductive == DeliveryIInv /\ [DeliveryNext]_deliveryVars => DeliveryIInv'
<1> SUFFICES ASSUME DeliveryIInv, [DeliveryNext]_deliveryVars PROVE DeliveryIInv'
  OBVIOUS
<1> USE RetriesAssumption DEF DeliveryIInv, StartedDeliveriesAreDecided
<1>1. ASSUME NEW e \in Emits, Emit(e) PROVE DeliveryIInv'
  BY <1>1 DEF Emit, Places
<1>2. ASSUME NEW e \in Emits, EmitFails(e) PROVE DeliveryIInv'
  BY <1>2 DEF EmitFails
<1>3. ASSUME NEW d \in Pairs, Succeeds(d) PROVE DeliveryIInv'
  BY <1>3 DEF Succeeds, Becomes, Places
<1>4. ASSUME NEW d \in Pairs, Rejects(d) PROVE DeliveryIInv'
  BY <1>4 DEF Rejects, Becomes, Places
<1>5. ASSUME NEW d \in Pairs, FailsForNow(d) PROVE DeliveryIInv'
  <2>1. /\ place[d] = "sending" /\ place' = [place EXCEPT ![d] = IF tries[d] < MaxRetries THEN "waiting" ELSE "exhausted"]
        /\ took \subseteq took' /\ UNCHANGED <<tries, stops>>
    BY <1>5 DEF FailsForNow, Becomes
  <2>2. tries[d] \in Nat /\ tries[d] <= MaxRetries
    BY <2>1
  <2> QED
    BY <2>1, <2>2 DEF Places
<1>6. ASSUME NEW d \in Pairs, Retry(d) PROVE DeliveryIInv'
  BY <1>6 DEF Retry, Becomes, Places
<1>7. ASSUME NEW r \in Receivers, Unsubscribe(r) PROVE DeliveryIInv'
  BY <1>7 DEF Unsubscribe
<1>8. CASE Stop
  BY <1>8 DEF Stop, UnderWay, Places
<1>9. CASE UNCHANGED deliveryVars
  BY <1>9 DEF deliveryVars
<1> QED
  BY <1>1, <1>2, <1>3, <1>4, <1>5, <1>6, <1>7, <1>8, <1>9 DEF DeliveryNext, Answer

\* For any events, receivers and numbers of attempts: a delivery ends delivered,
\* rejected or with all its attempts used, unless the process stops.
THEOREM DeliveriesAreDecided == DeliverySpec => []StartedDeliveriesAreDecided
<1>1. DeliveryInit => DeliveryIInv
  BY DEF DeliveryInit, DeliveryIInv, StartedDeliveriesAreDecided, Places
<1>2. DeliveryIInv => StartedDeliveriesAreDecided
  BY DEF DeliveryIInv
<1> QED
  BY <1>1, <1>2, DeliveryInductive, PTL DEF DeliverySpec

-----------------------------------------------------------------------------
(***************************************************************************)
(* Stellar failures: the class decides, and bounds the delay.              *)
(***************************************************************************)

\* A set of n members has 2^n subsets, of which there is at least one.
LEMMA PowersArePositive ==
    ASSUME NEW n \in Nat
    PROVE  2 ^ n \in Nat \ {0}
<1>1. IsFiniteSet(1 .. n) /\ Cardinality(1 .. n) = n
  BY FS_Interval
<1>2. IsFiniteSet(SUBSET (1 .. n)) /\ Cardinality(SUBSET (1 .. n)) = 2 ^ n
  BY <1>1, FS_SUBSET
<1>3. Cardinality(SUBSET (1 .. n)) \in Nat
  BY <1>2, FS_CardinalityType
<1>4. Cardinality(SUBSET (1 .. n)) # 0
  BY <1>2, FS_EmptySet
<1> QED
  BY <1>2, <1>3, <1>4

\* FirstOf answers with the first check that finds a class.
LEMMA FirstFound ==
    ASSUME NEW checks, DOMAIN checks \subseteq Int, NEW n \in DOMAIN checks, checks[n] # "none",
           \A m \in DOMAIN checks : m < n => checks[m] = "none"
    PROVE  FirstOf(checks) = checks[n]
<1> DEFINE found == {m \in DOMAIN checks : checks[m] # "none"}
<1>1. n \in found /\ \A m \in found : n <= m
  OBVIOUS
<1>2. \A k \in found : (\A m \in found : k <= m) => k = n
  BY <1>1
<1> QED
  BY <1>1, <1>2 DEF FirstOf

\* What the network has decided has the class of a result code.
LEMMA ResultCodesDecide ==
    ASSUME NEW e \in Failures, e.codes \in {"transaction", "operation"},
           e.speaksOf \intersect {"timeout", "network"} = {}
    PROVE  Class(e) \in {"OP_RESULT_CODE", "TX_RESULT_CODE"}
<1>1. ByMessage(e) = "none"
  <2>1. When(e.isError /\ "timeout" \in e.speaksOf, "TIMEOUT") = "none"
        /\ When(e.isError /\ "network" \in e.speaksOf, "NETWORK_ERROR") = "none"
    BY DEF When
  <2> QED
    BY <2>1 DEF ByMessage, FirstOf
<1>2. ByResultCodes(e) \in {"OP_RESULT_CODE", "TX_RESULT_CODE"}
  <2> DEFINE checks == <<When(e.codes = "operation", "OP_RESULT_CODE"), When(e.codes = "transaction", "TX_RESULT_CODE")>>
  <2>1. DOMAIN checks = 1 .. 2
    OBVIOUS
  <2>2. CASE e.codes = "operation"
    <3>1. checks[1] = "OP_RESULT_CODE"
      BY <2>2 DEF When
    <3> HIDE DEF checks
    <3>2. FirstOf(checks) = checks[1]
      BY <2>1, <3>1, FirstFound
    <3> QED
      BY <3>1, <3>2 DEF ByResultCodes, checks
  <2>3. CASE e.codes = "transaction"
    <3>1. checks[1] = "none" /\ checks[2] = "TX_RESULT_CODE"
      BY <2>3 DEF When
    <3> HIDE DEF checks
    <3>2. FirstOf(checks) = checks[2]
      BY <2>1, <3>1, FirstFound
    <3> QED
      BY <3>1, <3>2 DEF ByResultCodes, checks
  <2> QED
    BY <2>2, <2>3
<1>3. Checks(e)[1] = "none" /\ Checks(e)[2] \in {"OP_RESULT_CODE", "TX_RESULT_CODE"} /\ DOMAIN Checks(e) = 1 .. 5
  BY <1>1, <1>2 DEF Checks
<1>4. FirstOf(Checks(e)) = Checks(e)[2]
  BY <1>3, FirstFound
<1> QED
  BY <1>3, <1>4 DEF Class

\* A code that no list knows, and nothing else, is an unknown failure.
LEMMA UnlistedIsUnknown ==
    ASSUME NEW e \in Failures, e.codes = "unlisted", SaysNothing(e)
    PROVE  Class(e) = "UNKNOWN"
<1>1. ByMessage(e) = "none"
  BY DEF ByMessage, FirstOf, When, SaysNothing
<1>2. ByResultCodes(e) = "none"
  BY DEF ByResultCodes, FirstOf, When
<1>3. ByStatus(e) = "none"
  <2>1. ~(e.status = 429) /\ ~(e.status \in {401, 403}) /\ ~(e.status >= 500)
    BY DEF SaysNothing
  <2> QED
    BY <2>1 DEF ByStatus, FirstOf, When
<1>4. ByTransaction(e) = "none"
  BY DEF ByTransaction, FirstOf, When, SaysNothing
<1>5. ByShape(e) = "UNKNOWN"
  BY DEF ByShape, SaysNothing
<1>6. /\ DOMAIN Checks(e) = 1 .. 5 /\ Checks(e)[5] = "UNKNOWN"
      /\ \A m \in 1 .. 5 : m < 5 => Checks(e)[m] = "none"
  BY <1>1, <1>2, <1>3, <1>4, <1>5 DEF Checks
<1>7. FirstOf(Checks(e)) = Checks(e)[5]
  BY <1>6, FirstFound
<1> QED
  BY <1>6, <1>7 DEF Class

LEMMA DelaysAreBounded ==
    ASSUME NEW e \in Failures, Worthwhile(e)
    PROVE  IF Class(e) = "RATE_LIMIT" /\ e.retryAfter # 0
           THEN Delay(e) = 1000 * e.retryAfter
           ELSE 1000 <= Delay(e) /\ Delay(e) <= 60000
<1> DEFINE growth == 2 ^ (IF e.attempt = 0 THEN 0 ELSE e.attempt - 1)
<1>1. growth \in Nat \ {0}
  <2>1. e.attempt \in Nat /\ (IF e.attempt = 0 THEN 0 ELSE e.attempt - 1) \in Nat
    BY AttemptsAssumption DEF Failures
  <2> QED
    BY <2>1, PowersArePositive
<1>3. Delay(e) = CASE Class(e) = "TIMEOUT" -> AtMost(1000 * growth, 30000)
      [] Class(e) = "NETWORK_ERROR" -> AtMost(2000 * growth, 60000)
      [] Class(e) = "RATE_LIMIT" -> IF e.retryAfter = 0 THEN 10000 ELSE 1000 * e.retryAfter
      [] Class(e) = "UPSTREAM_ERROR" -> 5000
      [] Class(e) \in {"BAD_SEQUENCE", "MALFORMED_RESPONSE"} -> 1000
      [] Class(e) = "UNKNOWN" -> AtMost(5000 * growth, 30000)
      [] OTHER -> 0
  BY DEF Delay
<1> HIDE DEF growth
<1>4. CASE Class(e) = "TIMEOUT"
  BY <1>1, <1>3, <1>4 DEF AtMost
<1>5. CASE Class(e) = "NETWORK_ERROR"
  BY <1>1, <1>3, <1>5 DEF AtMost
<1>6. CASE Class(e) = "RATE_LIMIT"
  BY <1>3, <1>6
<1>7. CASE Class(e) \in {"UPSTREAM_ERROR", "BAD_SEQUENCE", "MALFORMED_RESPONSE"}
  BY <1>3, <1>7
<1>8. CASE Class(e) = "UNKNOWN"
  BY <1>1, <1>3, <1>8 DEF AtMost
<1> QED
  BY <1>4, <1>5, <1>6, <1>7, <1>8 DEF Worthwhile

FailuresIInv ==
    /\ failure \in Failures
    /\ verdict.decided =>
          verdict = [decided |-> TRUE, class |-> Class(failure), retry |-> ShouldRetry(failure),
                     delay |-> Delay(failure), answer |-> StatusCode(Class(failure))]

\* For any error, any Retry-After and any number of attempts: a listed result code
\* is final, an unlisted one is not, and what is retried has attempts left and waits
\* a minute at most, unless the server asks for another delay.
THEOREM DecisionsAreFinalAlways == FailuresSpec => []DecisionsAreFinal
<1>1. FailuresInit => FailuresIInv
  BY DEF FailuresInit, FailuresIInv
<1>2. FailuresIInv /\ [Classify]_failureVars => FailuresIInv'
  BY DEF FailuresIInv, Classify, failureVars
<1>3. FailuresIInv => DecisionsAreFinal
  <2> SUFFICES ASSUME FailuresIInv, verdict.decided
               PROVE  /\ failure.codes \in {"transaction", "operation"}
                           /\ failure.speaksOf \intersect {"timeout", "network"} = {} => ~ShouldRetry(failure)
                      /\ failure.codes = "unlisted" /\ SaysNothing(failure)
                           /\ CurrentAttempt(failure) < MaxAttempts /\ CurrentAttempt(failure) < 3 => ShouldRetry(failure)
                      /\ ShouldRetry(failure) =>
                           /\ CurrentAttempt(failure) < MaxAttempts
                           /\ IF Class(failure) = "RATE_LIMIT" /\ failure.retryAfter # 0
                              THEN Delay(failure) = 1000 * failure.retryAfter
                              ELSE 1000 <= Delay(failure) /\ Delay(failure) <= 60000
                      /\ Transient(Class(failure)) /\ CurrentAttempt(failure) < MaxAttempts => ShouldRetry(failure)
    BY DEF FailuresIInv, DecisionsAreFinal
  <2>1. failure \in Failures
    BY DEF FailuresIInv
  <2>2. Class(failure) \in {"OP_RESULT_CODE", "TX_RESULT_CODE"} => ~ShouldRetry(failure)
    BY DEF ShouldRetry, Worthwhile
  <2>3. ShouldRetry(failure) => CurrentAttempt(failure) < MaxAttempts /\ Worthwhile(failure)
    BY DEF ShouldRetry
  <2>4. Transient(Class(failure)) /\ CurrentAttempt(failure) < MaxAttempts => ShouldRetry(failure)
    BY DEF ShouldRetry, Worthwhile, Transient
  <2>5. failure.codes = "unlisted" /\ SaysNothing(failure)
          /\ CurrentAttempt(failure) < MaxAttempts /\ CurrentAttempt(failure) < 3 => ShouldRetry(failure)
    <3> SUFFICES ASSUME failure.codes = "unlisted", SaysNothing(failure),
                        CurrentAttempt(failure) < MaxAttempts, CurrentAttempt(failure) < 3
                 PROVE  ShouldRetry(failure)
      OBVIOUS
    <3>1. Class(failure) = "UNKNOWN"
      BY <2>1, UnlistedIsUnknown
    <3>2. failure.attempt < 3
      BY DEF CurrentAttempt
    <3> QED
      BY <3>1, <3>2 DEF ShouldRetry, Worthwhile
  <2> QED
    BY <2>1, <2>2, <2>3, <2>4, <2>5, ResultCodesDecide, DelaysAreBounded
<1> QED
  BY <1>1, <1>2, <1>3, PTL DEF FailuresSpec

-----------------------------------------------------------------------------
(***************************************************************************)
(* JWT keys: deployment n signs with key n, and knows key n - 1 at most.   *)
(***************************************************************************)

JwtKey == [kid : Nat, secret : Nat]
Deployments == 1 .. Len(deployed)

\* The keys of a deployment; while rotations do as they should, its ids too.
KeysOf(n) ==
    /\ Len(deployed[n]) \in {1, 2}
    /\ deployed[n][1].secret = n
    /\ Len(deployed[n]) = 2 => n > 1 /\ deployed[n][2] = deployed[n - 1][1]
    /\ renamed => deployed[n][1].kid = n /\ (n > 1 => Len(deployed[n]) = 2)

IssuedWith(t) ==
    /\ t.in \in Deployments /\ t.key = deployed[t.in][1]
    /\ {t.iat, t.exp} \subseteq Nat /\ t.iat <= jwtClock

JwtIInv ==
    /\ jwtClock \in Nat /\ deployed \in Seq(Seq(JwtKey)) /\ renamed \in BOOLEAN /\ Len(deployed) > 0
    /\ env \in [Instances -> Deployments]
    /\ \A n \in Deployments : KeysOf(n)
    /\ \A t \in issued : IssuedWith(t)
    /\ TokensOutliveOneRotation

\* What an instance finds under an id.
LEMMA SecretFound ==
    ASSUME JwtIInv, NEW i \in Instances, NEW kid
    PROVE  \/ /\ SecretByKid(i, kid) = 0
              /\ \A n \in 1 .. Len(Keyset(i)) : Keyset(i)[n].kid # kid
           \/ \E n \in 1 .. Len(Keyset(i)) : Keyset(i)[n].kid = kid /\ SecretByKid(i, kid) = Keyset(i)[n].secret
<1> DEFINE named == {n \in DOMAIN Keyset(i) : Keyset(i)[n].kid = kid}
<1>1. env[i] \in Deployments /\ Len(Keyset(i)) \in {1, 2} /\ DOMAIN Keyset(i) = 1 .. Len(Keyset(i))
  BY DEF JwtIInv, Deployments, KeysOf, Keyset
<1>2. CASE named = {}
  BY <1>1, <1>2 DEF SecretByKid
<1>3. CASE named # {}
  <2>1. \E n \in named : \A m \in named : n <= m
    BY <1>1, <1>3
  <2>2. PICK n \in named : SecretByKid(i, kid) = Keyset(i)[n].secret
    BY <1>3, <2>1 DEF SecretByKid
  <2> QED
    BY <1>1, <2>2
<1> QED
  BY <1>2, <1>3

\* A verification at an instance answers as the property wants.
LEMMA VerifyKeeps ==
    ASSUME JwtIInv, NEW i \in Instances, NEW t \in issued, VerifyToken(i, t)
    PROVE  TokensOutliveOneRotation'
<1> DEFINE e == env[i]
<1>1. /\ asked' = [done |-> TRUE, token |-> t, since |-> e, at |-> jwtClock,
                   passed |-> SecretByKid(i, t.key.kid) = t.key.secret /\ ClaimsValid(t)]
      /\ renamed' = renamed
  BY DEF VerifyToken
<1>2. e \in Deployments /\ KeysOf(e) /\ IssuedWith(t) /\ KeysOf(t.in) /\ t.in \in Deployments /\ Keyset(i) = deployed[e]
  BY DEF JwtIInv, IssuedWith, Keyset
<1>3. e > 1 => KeysOf(e - 1)
  BY <1>2 DEF JwtIInv, Deployments
<1>4. e \in Nat /\ t.in \in Nat \ {0} /\ {t.iat, t.exp, jwtClock} \subseteq Nat /\ t.iat <= jwtClock /\ t.key.secret = t.in
  BY <1>2 DEF Deployments, IssuedWith, JwtIInv, KeysOf
<1> HIDE DEF e
<1>5. \A n \in 1 .. Len(Keyset(i)) : Keyset(i)[n].secret \in {e, e - 1} /\ (renamed => Keyset(i)[n].kid = Keyset(i)[n].secret)
  <2>1. /\ Len(Keyset(i)) \in {1, 2} /\ Keyset(i)[1].secret = e /\ (renamed => Keyset(i)[1].kid = e)
        /\ Len(Keyset(i)) = 2 => e > 1 /\ Keyset(i)[2] = deployed[e - 1][1]
    BY <1>2 DEF KeysOf
  <2>2. e > 1 => deployed[e - 1][1].secret = e - 1 /\ (renamed => deployed[e - 1][1].kid = e - 1)
    BY <1>3 DEF KeysOf
  <2> QED
    BY <2>1, <2>2
<1>6. renamed => t.key.kid = t.in
  BY <1>2 DEF IssuedWith, KeysOf
<1>7. renamed /\ e \in {t.in, t.in + 1} => \E n \in 1 .. Len(Keyset(i)) : Keyset(i)[n].kid = t.in
  <2> SUFFICES ASSUME renamed, e \in {t.in, t.in + 1} PROVE \E n \in 1 .. Len(Keyset(i)) : Keyset(i)[n].kid = t.in
    OBVIOUS
  <2>1. CASE e = t.in
    BY <1>2, <2>1 DEF KeysOf
  <2>2. CASE e = t.in + 1
    <3>1. e > 1 /\ e - 1 = t.in /\ KeysOf(t.in)
      BY <1>2, <1>4, <2>2
    <3>2. Len(deployed[e]) = 2 /\ deployed[e][2] = deployed[t.in][1]
      BY <1>2, <3>1 DEF KeysOf
    <3>3. deployed[t.in][1].kid = t.in
      BY <3>1 DEF KeysOf
    <3> QED
      BY <1>2, <3>2, <3>3
  <2> QED
    BY <2>1, <2>2
<1>8. renamed /\ e \in {t.in, t.in + 1} => SecretByKid(i, t.key.kid) = t.key.secret
  BY <1>4, <1>5, <1>6, <1>7, SecretFound
<1>9. SecretByKid(i, t.key.kid) = t.key.secret => e \in {t.in, t.in + 1}
  BY <1>4, <1>5, SecretFound
<1>10. ClaimsValid(t) <=> t.exp >= jwtClock - 1
  BY <1>4 DEF ClaimsValid, Tolerance
<1> QED
  <2>1. /\ asked'.token = t /\ asked'.since = e /\ asked'.at = jwtClock
        /\ asked'.passed <=> SecretByKid(i, t.key.kid) = t.key.secret /\ ClaimsValid(t)
    BY <1>1
  <2>2. renamed' /\ jwtClock <= t.exp /\ e \in {t.in, t.in + 1} => asked'.passed
    BY <1>1, <1>4, <1>8, <1>10, <2>1
  <2>3. asked'.passed => jwtClock <= t.exp + 1 /\ e \in {t.in, t.in + 1}
    BY <1>4, <1>9, <1>10, <2>1
  <2> QED
    BY <2>1, <2>2, <2>3 DEF TokensOutliveOneRotation, Tolerance

LEMMA RotateKeeps ==
    ASSUME JwtIInv, NEW named \in BOOLEAN, NEW kept \in BOOLEAN, Rotate(named, kept)
    PROVE  JwtIInv'
<1> DEFINE last == Len(deployed)
           key == Key(last + 1, named)
           keys == IF kept THEN <<key, deployed[last][1]>> ELSE <<key>>
<1>1. /\ deployed' = Append(deployed, keys) /\ renamed' = (renamed /\ named /\ kept)
      /\ UNCHANGED <<jwtClock, env, issued, asked>>
  BY DEF Rotate
<1>2. last \in Nat \ {0} /\ deployed[last] \in Seq(JwtKey) /\ Len(deployed[last]) \in {1, 2}
  BY DEF JwtIInv, Deployments, KeysOf
<1>3. key \in JwtKey /\ key.secret = last + 1 /\ (named => key.kid = last + 1)
  BY <1>2 DEF Key, JwtKey
<1>4. deployed[last][1] \in JwtKey
  BY <1>2
<1> HIDE DEF key
<1>5. /\ keys \in Seq(JwtKey) /\ Len(keys) \in {1, 2} /\ keys[1] = key
      /\ Len(keys) = 2 => keys[2] = deployed[last][1]
      /\ kept => Len(keys) = 2
  BY <1>3, <1>4
<1> HIDE DEF keys, last
<1>6. /\ deployed' \in Seq(Seq(JwtKey)) /\ Len(deployed') = last + 1 /\ deployed'[last + 1] = keys
      /\ \A n \in 1 .. last : deployed'[n] = deployed[n]
  BY <1>1, <1>5 DEF JwtIInv, last
<1>7. Deployments = 1 .. last /\ Deployments' = 1 .. (last + 1)
  BY <1>6 DEF Deployments, last
<1>8. ASSUME NEW n \in 1 .. last PROVE KeysOf(n)'
  <2>1. KeysOf(n) /\ deployed'[n] = deployed[n]
    BY <1>6, <1>7 DEF JwtIInv
  <2>2. n > 1 => deployed'[n - 1] = deployed[n - 1]
    <3>1. n > 1 => n - 1 \in 1 .. last
      BY <1>2
    <3> QED
      BY <1>6, <3>1
  <2> QED
    BY <1>1, <2>1, <2>2 DEF KeysOf
<1>9. ASSUME NEW n, n = last + 1 PROVE KeysOf(n)'
  <2>1. deployed'[n] = keys /\ n - 1 = last /\ deployed'[n - 1] = deployed[last] /\ n > 1
    BY <1>2, <1>6, <1>9
  <2>2. deployed'[n][1].secret = n /\ (renamed' => deployed'[n][1].kid = n /\ Len(deployed'[n]) = 2)
    BY <1>1, <1>3, <1>5, <1>9, <2>1
  <2> QED
    BY <1>5, <2>1, <2>2 DEF KeysOf
<1>10. ASSUME NEW n \in Deployments' PROVE KeysOf(n)'
  <2>1. n \in 1 .. last \/ n = last + 1
    BY <1>2, <1>7, <1>10
  <2> QED
    BY <1>8, <1>9, <2>1
<1>11. \A t \in issued' : IssuedWith(t)'
  BY <1>1, <1>2, <1>6, <1>7 DEF JwtIInv, IssuedWith
<1>12. TokensOutliveOneRotation'
  BY <1>1 DEF JwtIInv, TokensOutliveOneRotation
<1> QED
  BY <1>1, <1>2, <1>6, <1>7, <1>10, <1>11, <1>12 DEF JwtIInv

LEMMA JwtInductive == JwtIInv /\ [JwtNext]_jwtVars => JwtIInv'
<1> SUFFICES ASSUME JwtIInv, [JwtNext]_jwtVars PROVE JwtIInv'
  OBVIOUS
<1>1. ASSUME NEW named \in BOOLEAN, NEW kept \in BOOLEAN, Rotate(named, kept) PROVE JwtIInv'
  BY <1>1, RotateKeeps
<1>2. ASSUME NEW i \in Instances, Restart(i) PROVE JwtIInv'
  <2>1. UNCHANGED <<jwtClock, deployed, renamed, issued, asked>>
        /\ env' = [env EXCEPT ![i] = Len(deployed)]
    BY <1>2 DEF Restart
  <2>2. Deployments' = Deployments /\ (\A n \in Deployments : KeysOf(n)') /\ \A t \in issued : IssuedWith(t)'
    BY <2>1 DEF JwtIInv, Deployments, KeysOf, IssuedWith
  <2>3. env' \in [Instances -> Deployments]
    BY <2>1 DEF JwtIInv, Deployments
  <2>4. TokensOutliveOneRotation'
    BY <2>1 DEF JwtIInv, TokensOutliveOneRotation
  <2> QED
    BY <2>1, <2>2, <2>3, <2>4 DEF JwtIInv
<1>3. ASSUME NEW i \in Instances, IssueToken(i) PROVE JwtIInv'
  <2> DEFINE t == [key |-> Keyset(i)[1], iat |-> jwtClock, exp |-> jwtClock + TokenTtl, in |-> env[i]]
  <2>1. issued' = issued \union {t} /\ UNCHANGED <<jwtClock, deployed, renamed, env, asked>>
    BY <1>3 DEF IssueToken
  <2>2. IssuedWith(t)
    BY TtlAssumption DEF JwtIInv, IssuedWith, Keyset
  <2> HIDE DEF t
  <2>3. \A u \in issued' : IssuedWith(u)'
    <3>1. \A u \in issued' : IssuedWith(u)
      BY <2>1, <2>2 DEF JwtIInv
    <3>2. UNCHANGED <<jwtClock, deployed>>
      BY <2>1
    <3> QED
      BY <3>1, <3>2 DEF IssuedWith, Deployments
  <2>4. \A n \in Deployments : KeysOf(n)'
    BY <2>1 DEF JwtIInv, KeysOf, Deployments
  <2>5. TokensOutliveOneRotation'
    BY <2>1 DEF JwtIInv, TokensOutliveOneRotation
  <2> QED
    BY <2>1, <2>3, <2>4, <2>5 DEF JwtIInv, Deployments
<1>4. ASSUME NEW i \in Instances, NEW t \in issued, VerifyToken(i, t) PROVE JwtIInv'
  <2>1. UNCHANGED <<jwtClock, deployed, renamed, env, issued>> /\ TokensOutliveOneRotation'
    BY <1>4, VerifyKeeps DEF VerifyToken
  <2> QED
    BY <2>1 DEF JwtIInv, Deployments, KeysOf, IssuedWith
<1>5. CASE PassJwtTime
  BY <1>5 DEF PassJwtTime, JwtIInv, Deployments, KeysOf, IssuedWith, TokensOutliveOneRotation
<1>6. CASE UNCHANGED jwtVars
  BY <1>6 DEF jwtVars, JwtIInv, Deployments, KeysOf, IssuedWith, TokensOutliveOneRotation
<1> QED
  BY <1>1, <1>2, <1>3, <1>4, <1>5, <1>6 DEF JwtNext

\* For any instances, rotations and restarts: a token outlives one rotation of the
\* keys, and never two.
THEOREM KeysRotateOnce == JwtSpec => []TokensOutliveOneRotation
<1>1. JwtInit => JwtIInv
  <2> SUFFICES ASSUME JwtInit PROVE JwtIInv
    OBVIOUS
  <2> DEFINE key == Key(1, TRUE)
             first == <<key>>
  <2>1. key \in JwtKey /\ key.secret = 1 /\ key.kid = 1
    BY DEF Key, JwtKey
  <2>2. deployed = <<first>>
    BY DEF JwtInit
  <2> HIDE DEF key
  <2>3. first \in Seq(JwtKey) /\ Len(first) = 1 /\ first[1] = key
    BY <2>1
  <2> HIDE DEF first
  <2>4. Len(deployed) = 1 /\ deployed[1] = first /\ deployed \in Seq(Seq(JwtKey))
    BY <2>2, <2>3
  <2>5. Deployments = {1}
    BY <2>4 DEF Deployments
  <2>6. KeysOf(1)
    <3>1. deployed[1][1].secret = 1 /\ deployed[1][1].kid = 1 /\ Len(deployed[1]) = 1
      BY <2>1, <2>3, <2>4
    <3> QED
      BY <3>1 DEF KeysOf
  <2>7. jwtClock = 0 /\ renamed = TRUE /\ env = [i \in Instances |-> 1] /\ issued = {} /\ asked = [done |-> FALSE]
    BY DEF JwtInit
  <2> QED
    BY <2>4, <2>5, <2>6, <2>7 DEF JwtIInv, TokensOutliveOneRotation
<1>2. JwtIInv => TokensOutliveOneRotation
  BY DEF JwtIInv
<1> QED
  BY <1>1, <1>2, JwtInductive, PTL DEF JwtSpec

-----------------------------------------------------------------------------
(***************************************************************************)
(* Webhook events in order.  What a handler has in hand is ready: all that *)
(* comes before it was handled, or is in the same hand before it.          *)
(***************************************************************************)

OrderingTypes ==
    /\ lastProcessed \in Events \union {-1} /\ buffer \in [Events -> Nat] /\ old \subseteq Events
    /\ queue \in [Handlers -> Seq(Events)] /\ accepted \in [Events -> Nat]
    /\ handled \in Seq(Events) /\ restarts \in Nat

Done(s) == \E n \in 1 .. Len(handled) : handled[n] = s

LastIsDone == \A s \in 0 .. lastProcessed : Done(s)

QueuesAreReady ==
    \A h \in Handlers : \A k \in 1 .. Len(queue[h]) : \A s \in 0 .. queue[h][k] - 1 :
        Done(s) \/ \E j \in 1 .. k - 1 : queue[h][j] = s

\* As long as nothing disturbs the sequence, one handler at most has the events that
\* come next, the buffer has later ones, and nobody has an event that was not sent.
InHand(h) == lastProcessed + Len(queue[h])

Calm ==
    ~Disturbed =>
        /\ \A h, g \in Handlers : queue[h] # <<>> /\ queue[g] # <<>> => h = g
        /\ \A h \in Handlers : \A k \in 1 .. Len(queue[h]) : queue[h][k] = lastProcessed + k
        /\ \A s \in Events : buffer[s] > 0 => s > lastProcessed /\ \A h \in Handlers : s > InHand(h)
        /\ \A s \in Events : s <= lastProcessed \/ buffer[s] > 0 \/ (\E h \in Handlers : s <= InHand(h))
              => accepted[s] > 0
        /\ \A s \in Events : accepted[s] > 0 =>
              Done(s) \/ buffer[s] > 0 \/ \E h \in Handlers : \E k \in 1 .. Len(queue[h]) : queue[h][k] = s
        /\ (\A h \in Handlers : queue[h] = <<>>) => \A s \in Events : s = lastProcessed + 1 => buffer[s] = 0

OrderingIInv == OrderingTypes /\ NoGaps /\ LastIsDone /\ QueuesAreReady /\ Calm

\* What is released are the c events that follow the last one.
LEMMA ReleasedFollow ==
    ASSUME OrderingTypes, NEW last \in Events
    PROVE  \E c \in Nat : Released(last) = last + 1 .. last + c
<1>1. LastEvent \in Nat /\ Events = 0 .. LastEvent /\ last \in Nat
  BY EventsAssumption DEF Events
<1> DEFINE missing == {u \in Nat : u > last /\ u \notin Released(last)}
<1>2. Released(last) \subseteq Events
  BY DEF Released
<1>3. LastEvent + 1 \in missing
  BY <1>1, <1>2
<1>4. PICK first \in missing : \A u \in missing : first <= u
  <2>1. missing \in SUBSET Nat
    OBVIOUS
  <2> HIDE DEF missing
  <2> QED
    BY <1>3, <2>1, LeastNumber
<1>5. first \in Nat /\ first > last /\ first \notin Released(last)
  BY <1>4
<1>6. \A u \in last + 1 .. first - 1 : u \in Released(last)
  BY <1>1, <1>4, <1>5
<1>7. ASSUME NEW s \in Released(last), s > first PROVE FALSE
  <2>1. s \in Events /\ s > last /\ \A t \in last + 1 .. s : buffer[t] > 0
    BY <1>7 DEF Released
  <2>2. first \in Events /\ \A t \in last + 1 .. first : t \in last + 1 .. s
    BY <1>1, <1>5, <1>7, <2>1
  <2>3. first \in Released(last)
    BY <1>5, <2>1, <2>2 DEF Released
  <2> QED
    BY <1>5, <2>3
<1>8. \A s \in Released(last) : s \in Int /\ s > last /\ s < first
  BY <1>1, <1>2, <1>5, <1>7 DEF Released
<1>9. Released(last) = last + 1 .. first - 1
  <2>1. \A s \in Released(last) : s \in last + 1 .. first - 1
    BY <1>1, <1>5, <1>8
  <2> QED
    BY <1>6, <2>1
<1>10. first - 1 - last \in Nat /\ last + (first - 1 - last) = first - 1
  BY <1>1, <1>5
<1> QED
  BY <1>9, <1>10

LEMMA InOrderOfInterval ==
    ASSUME NEW a \in Int, NEW c \in Nat
    PROVE  InOrder(a + 1 .. a + c) = [n \in 1 .. c |-> a + n]
<1> DEFINE S == a + 1 .. a + c
<1>1. Cardinality(S) = c
  BY FS_Interval
<1>2. ASSUME NEW s \in S PROVE Cardinality({t \in S : t < s}) = s - a - 1
  <2>1. {t \in S : t < s} = a + 1 .. s - 1
    OBVIOUS
  <2>2. Cardinality(a + 1 .. s - 1) = s - a - 1
    BY <1>2, FS_Interval
  <2> QED
    BY <2>1, <2>2
<1>3. ASSUME NEW n \in 1 .. c PROVE (CHOOSE s \in S : Cardinality({t \in S : t < s}) = n - 1) = a + n
  <2>1. a + n \in S
    OBVIOUS
  <2>2. \A s \in S : Cardinality({t \in S : t < s}) = n - 1 <=> s = a + n
    BY <1>2
  <2> QED
    BY <2>1, <2>2
<1> QED
  BY <1>1, <1>3 DEF InOrder

\* What markProcessed does: the handler goes on with the c events that follow.
MarkedWith(h, s, c) ==
    /\ queue[h] # <<>> /\ s = queue[h][1] /\ handled' = Append(handled, s) /\ lastProcessed' = s
    /\ \A t \in Events : buffer'[t] = IF t \in s + 1 .. s + c THEN 0 ELSE buffer[t]
    /\ \A t \in s + 1 .. s + c : t \in Events /\ buffer[t] > 0
    /\ s + c + 1 \in Events => buffer[s + c + 1] = 0
    /\ Len(queue'[h]) = Len(queue[h]) - 1 + c
    /\ \A k \in 1 .. Len(queue'[h]) :
          queue'[h][k] = IF k < Len(queue[h]) THEN queue[h][k + 1] ELSE s + (k - (Len(queue[h]) - 1))
    /\ \A g \in Handlers : g # h => queue'[g] = queue[g]
    /\ queue' \in [Handlers -> Seq(Events)] /\ buffer' \in [Events -> Nat]
    /\ UNCHANGED <<old, accepted, restarts>>

LEMMA MarkStep ==
    ASSUME OrderingTypes, NEW h \in Handlers, MarkProcessed(h)
    PROVE  \E s \in Events, c \in Nat : MarkedWith(h, s, c)
<1> DEFINE q == queue[h]
           s == Head(q)
<1>1. q \in Seq(Events) /\ q # <<>> /\ Len(q) \in Nat \ {0}
  BY DEF OrderingTypes, MarkProcessed
<1>2. s \in Events /\ s = q[1]
  BY <1>1
<1>3. /\ handled' = Append(handled, s) /\ lastProcessed' = s /\ buffer' = WithoutReleased(Released(s))
      /\ queue' = [queue EXCEPT ![h] = Tail(queue[h]) \o InOrder(Released(s))]
      /\ UNCHANGED <<old, accepted, restarts>>
  BY DEF MarkProcessed
<1>4. PICK c \in Nat : Released(s) = s + 1 .. s + c
  BY <1>2, ReleasedFollow
<1> DEFINE follow == [n \in 1 .. c |-> s + n]
<1>5. s \in Int /\ LastEvent \in Nat /\ Events = 0 .. LastEvent /\ s \in Nat
  BY <1>2, EventsAssumption DEF Events
<1>6. InOrder(Released(s)) = follow
  BY <1>4, <1>5, InOrderOfInterval
<1>7. \A t \in s + 1 .. s + c : t \in Events /\ buffer[t] > 0
  <2> SUFFICES ASSUME NEW t \in s + 1 .. s + c PROVE t \in Events /\ buffer[t] > 0
    OBVIOUS
  <2>1. t \in Released(s) /\ t \in s + 1 .. t
    BY <1>4, <1>5
  <2> QED
    BY <2>1 DEF Released
<1>8. ASSUME s + c + 1 \in Events PROVE buffer[s + c + 1] = 0
  <2>1. s + c + 1 \notin Released(s) /\ s + c + 1 > s
    BY <1>4, <1>5
  <2>2. PICK t \in s + 1 .. s + c + 1 : ~(buffer[t] > 0)
    BY <1>8, <2>1 DEF Released
  <2>3. t \notin s + 1 .. s + c
    BY <1>7, <2>2
  <2>4. t = s + c + 1
    BY <1>5, <2>3
  <2> QED
    BY <1>8, <2>2, <2>4 DEF OrderingTypes
<1> HIDE DEF s
<1>9. follow \in Seq(Events) /\ Len(follow) = c
  <2>1. \A n \in 1 .. c : s + n \in Events
    BY <1>5, <1>7
  <2> QED
    BY <2>1
<1>10. \A n \in 1 .. c : follow[n] = s + n
  OBVIOUS
<1> DEFINE tail == Tail(q)
<1>11. tail \in Seq(Events) /\ Len(tail) = Len(q) - 1 /\ \A k \in 1 .. Len(q) - 1 : tail[k] = q[k + 1]
  BY <1>1
<1> HIDE DEF follow, tail
<1>12. queue'[h] = tail \o follow /\ queue' \in [Handlers -> Seq(Events)] /\ \A g \in Handlers : g # h => queue'[g] = queue[g]
  BY <1>3, <1>6, <1>9, <1>11 DEF OrderingTypes, tail
<1>13. /\ Len(tail \o follow) = Len(tail) + Len(follow)
       /\ \A k \in 1 .. Len(tail) + Len(follow) :
             (tail \o follow)[k] = IF k <= Len(tail) THEN tail[k] ELSE follow[k - Len(tail)]
  BY <1>9, <1>11, ConcatProperties
<1>14. \A k \in 1 .. Len(queue'[h]) :
          queue'[h][k] = IF k < Len(q) THEN q[k + 1] ELSE s + (k - (Len(q) - 1))
  <2> SUFFICES ASSUME NEW k \in 1 .. Len(queue'[h])
               PROVE  queue'[h][k] = IF k < Len(q) THEN q[k + 1] ELSE s + (k - (Len(q) - 1))
    OBVIOUS
  <2>1. k \in 1 .. Len(q) - 1 + c
    BY <1>9, <1>11, <1>12, <1>13
  <2>2. CASE k < Len(q)
    BY <1>1, <1>9, <1>11, <1>12, <1>13, <2>1, <2>2
  <2>3. CASE ~(k < Len(q))
    <3>1. k - (Len(q) - 1) \in 1 .. c
      BY <1>1, <2>1, <2>3
    <3>2. queue'[h][k] = follow[k - (Len(q) - 1)]
      <4>1. k \in 1 .. Len(tail) + Len(follow) /\ ~(k <= Len(tail)) /\ k - Len(tail) = k - (Len(q) - 1)
        BY <1>1, <1>9, <1>11, <2>1, <2>3
      <4> QED
        BY <1>12, <1>13, <4>1
    <3> QED
      BY <1>10, <2>3, <3>1, <3>2
  <2> QED
    BY <2>2, <2>3
<1>15. Len(queue'[h]) = Len(q) - 1 + c
  BY <1>9, <1>11, <1>12, <1>13
<1>16. buffer' \in [Events -> Nat] /\ \A t \in Events : buffer'[t] = IF t \in s + 1 .. s + c THEN 0 ELSE buffer[t]
  BY <1>3, <1>4 DEF WithoutReleased, OrderingTypes
<1> QED
  BY <1>1, <1>2, <1>3, <1>7, <1>8, <1>12, <1>14, <1>15, <1>16 DEF MarkedWith

\* What was handled stays handled, and markProcessed adds its event.
LEMMA HandledGrows ==
    ASSUME OrderingTypes, NEW s \in Events, handled' = Append(handled, s)
    PROVE  /\ handled' \in Seq(Events) /\ Len(handled') = Len(handled) + 1
           /\ \A n \in 1 .. Len(handled) : handled'[n] = handled[n]
           /\ handled'[Len(handled) + 1] = s
           /\ \A t : Done(t)' <=> Done(t) \/ t = s
<1>1. /\ handled' \in Seq(Events) /\ Len(handled') = Len(handled) + 1 /\ Len(handled) \in Nat
      /\ \A n \in 1 .. Len(handled) : handled'[n] = handled[n]
      /\ handled'[Len(handled) + 1] = s
  BY DEF OrderingTypes
<1> QED
  BY <1>1 DEF Done

\* markProcessed keeps everything in order.
LEMMA MarkKeepsOrder ==
    ASSUME OrderingIInv, NEW h \in Handlers, NEW s \in Events, NEW c \in Nat, MarkedWith(h, s, c)
    PROVE  OrderingTypes' /\ NoGaps' /\ LastIsDone' /\ QueuesAreReady'
<1> DEFINE had == Len(queue[h])
           has == Len(queue'[h])
<1>1. OrderingTypes /\ NoGaps /\ LastIsDone /\ QueuesAreReady
  BY DEF OrderingIInv
<1>2. /\ queue[h] # <<>> /\ s = queue[h][1] /\ handled' = Append(handled, s) /\ lastProcessed' = s
      /\ queue' \in [Handlers -> Seq(Events)] /\ buffer' \in [Events -> Nat]
      /\ UNCHANGED <<old, accepted, restarts>>
  BY DEF MarkedWith
<1>3. \A g \in Handlers : g # h => queue'[g] = queue[g]
  BY DEF MarkedWith
<1>4. had \in Nat \ {0} /\ has = had - 1 + c /\ s \in Nat /\ s \in Int
  BY <1>1, <1>2 DEF MarkedWith, Events, OrderingTypes
<1>5. \A k \in 1 .. has : queue'[h][k] = IF k < had THEN queue[h][k + 1] ELSE s + (k - (had - 1))
  BY DEF MarkedWith
<1>6. /\ handled' \in Seq(Events) /\ Len(handled') = Len(handled) + 1 /\ Len(handled) \in Nat
      /\ \A n \in 1 .. Len(handled) : handled'[n] = handled[n]
      /\ handled'[Len(handled) + 1] = s
  BY <1>1, <1>2, HandledGrows DEF OrderingTypes
<1>7. \A t : Done(t)' <=> Done(t) \/ t = s
  BY <1>1, <1>2, HandledGrows
<1>8. \A k \in 1 .. had : \A t \in 0 .. queue[h][k] - 1 : Done(t) \/ \E j \in 1 .. k - 1 : queue[h][j] = t
  BY <1>1 DEF QueuesAreReady
<1> HIDE DEF had, has
<1>9. ASSUME NEW t \in 0 .. s - 1 PROVE Done(t)
  <2>1. 1 \in 1 .. had /\ t \in 0 .. queue[h][1] - 1 /\ 1 .. 1 - 1 = {}
    BY <1>2, <1>4
  <2> QED
    BY <1>8, <2>1
<1>10. OrderingTypes'
  BY <1>1, <1>2, <1>6 DEF OrderingTypes
<1>11. LastIsDone'
  <2>1. \A t \in 0 .. s : t = s \/ t \in 0 .. s - 1
    BY <1>4
  <2> QED
    BY <1>2, <1>7, <1>9, <2>1 DEF LastIsDone
<1>12. NoGaps'
  <2> SUFFICES ASSUME NEW n \in 1 .. Len(handled'), NEW t \in 0 .. handled'[n] - 1
               PROVE  \E m \in 1 .. n - 1 : handled'[m] = t
    BY DEF NoGaps
  <2>1. CASE n \in 1 .. Len(handled)
    <3>1. PICK m \in 1 .. n - 1 : handled[m] = t
      BY <1>1, <1>6, <2>1 DEF NoGaps
    <3>2. m \in 1 .. Len(handled)
      BY <2>1
    <3> QED
      BY <1>6, <3>1, <3>2
  <2>2. CASE n = Len(handled) + 1
    <3>1. PICK m \in 1 .. Len(handled) : handled[m] = t
      BY <1>6, <1>9, <2>2 DEF Done
    <3> QED
      BY <1>6, <2>2, <3>1
  <2> QED
    BY <1>6, <2>1, <2>2
<1>13. ASSUME NEW k \in 1 .. has, NEW t \in 0 .. queue'[h][k] - 1
       PROVE  Done(t)' \/ \E j \in 1 .. k - 1 : queue'[h][j] = t
  <2>1. CASE k < had
    <3>1. k + 1 \in 1 .. had /\ queue'[h][k] = queue[h][k + 1] /\ (k + 1) - 1 = k
      BY <1>4, <1>5, <2>1
    <3>2. Done(t) \/ \E j \in 1 .. k : queue[h][j] = t
      BY <1>8, <3>1
    <3>3. ASSUME NEW j \in 1 .. k, queue[h][j] = t, t # s PROVE \E i \in 1 .. k - 1 : queue'[h][i] = t
      <4>1. j # 1
        BY <1>2, <3>3
      <4>2. j - 1 \in 1 .. k - 1 /\ j - 1 \in 1 .. has /\ j - 1 < had /\ (j - 1) + 1 = j
        BY <1>4, <2>1, <4>1
      <4> QED
        BY <1>5, <3>3, <4>2
    <3> QED
      BY <1>7, <3>2, <3>3
  <2>2. CASE ~(k < had)
    <3>1. queue'[h][k] = s + (k - (had - 1))
      BY <1>5, <2>2
    <3>2. t \in Int /\ 0 <= t /\ t < s + (k - (had - 1)) /\ k \in Int
      BY <1>4, <3>1
    <3>3. CASE t <= s
      <4>1. t = s \/ t \in 0 .. s - 1
        BY <1>4, <3>2, <3>3
      <4> QED
        BY <1>7, <1>9, <4>1
    <3>4. CASE t > s
      <4> DEFINE j == t - s + (had - 1)
      <4>1. j \in 1 .. k - 1 /\ j \in 1 .. has /\ ~(j < had) /\ s + (j - (had - 1)) = t
        BY <1>4, <2>2, <3>2, <3>4
      <4> HIDE DEF j
      <4>2. queue'[h][j] = t
        BY <1>5, <4>1
      <4> QED
        BY <4>1, <4>2
    <3> QED
      BY <1>4, <3>2, <3>3, <3>4
  <2> QED
    BY <2>1, <2>2
<1>14. ASSUME NEW g \in Handlers, g # h, NEW k \in 1 .. Len(queue'[g]), NEW t \in 0 .. queue'[g][k] - 1
       PROVE  Done(t)' \/ \E j \in 1 .. k - 1 : queue'[g][j] = t
  <2>1. queue'[g] = queue[g]
    BY <1>3, <1>14
  <2>2. Done(t) \/ \E j \in 1 .. k - 1 : queue[g][j] = t
    BY <1>1, <1>14, <2>1 DEF QueuesAreReady
  <2> QED
    BY <1>7, <2>1, <2>2
<1>15. QueuesAreReady'
  BY <1>13, <1>14 DEF QueuesAreReady, has
<1> QED
  BY <1>10, <1>11, <1>12, <1>15

\* While nothing disturbs it, markProcessed was called for the next event.
LEMMA MarkKeepsCalm ==
    ASSUME OrderingIInv, NEW h \in Handlers, NEW s \in Events, NEW c \in Nat, MarkedWith(h, s, c)
    PROVE  Calm'
<1> SUFFICES ASSUME ~Disturbed' PROVE Calm'
  BY DEF Calm
<1> DEFINE had == Len(queue[h])
           has == Len(queue'[h])
           last == lastProcessed
<1>1. queue[h] # <<>> /\ s = queue[h][1] /\ handled' = Append(handled, s) /\ lastProcessed' = s
      /\ UNCHANGED <<old, accepted, restarts>>
  BY DEF MarkedWith
<1>2. /\ \A t \in Events : buffer'[t] = IF t \in s + 1 .. s + c THEN 0 ELSE buffer[t]
      /\ \A t \in s + 1 .. s + c : t \in Events /\ buffer[t] > 0
      /\ s + c + 1 \in Events => buffer[s + c + 1] = 0
  BY DEF MarkedWith
<1>3. \A k \in 1 .. has : queue'[h][k] = IF k < had THEN queue[h][k + 1] ELSE s + (k - (had - 1))
  BY DEF MarkedWith
<1>4. \A g \in Handlers : g # h => queue'[g] = queue[g]
  BY DEF MarkedWith
<1>5. had \in Nat \ {0} /\ has = had - 1 + c /\ s \in Int /\ last \in Int
  BY <1>1 DEF MarkedWith, Events, OrderingIInv, OrderingTypes
<1>6. \A t \in Events : t \in Int /\ buffer[t] \in Nat
  BY DEF OrderingIInv, OrderingTypes, Events
<1>7. ~Disturbed
  BY <1>1 DEF Disturbed
<1>8. /\ \A g \in Handlers : queue[g] # <<>> => g = h
      /\ \A k \in 1 .. had : queue[h][k] = last + k
      /\ \A t \in Events : buffer[t] > 0 => t > last + had
  BY <1>1, <1>7 DEF OrderingIInv, Calm, InHand
<1>9. \A t \in Events : t <= last + had \/ buffer[t] > 0 => accepted[t] > 0
  BY <1>7 DEF OrderingIInv, Calm, InHand
<1>10. \A t \in Events : accepted[t] > 0 =>
            Done(t) \/ buffer[t] > 0 \/ \E g \in Handlers : \E k \in 1 .. Len(queue[g]) : queue[g][k] = t
  BY <1>7 DEF OrderingIInv, Calm
<1>11. \A u : Done(u)' <=> Done(u) \/ u = s
  BY <1>1, HandledGrows DEF OrderingIInv
<1>12. \A g \in Handlers : g # h => queue[g] = <<>> /\ queue'[g] = <<>> /\ Len(queue'[g]) = 0 /\ Len(queue[g]) = 0
  BY <1>4, <1>8
<1> HIDE DEF had, has, last
<1>13. s = last + 1
  BY <1>1, <1>5, <1>8
<1>14. c > 0 => had = 1
  <2> SUFFICES ASSUME c > 0, had # 1 PROVE FALSE
    OBVIOUS
  <2>1. s + 1 \in s + 1 .. s + c
    BY <1>5
  <2>2. s + 1 > last + had
    BY <1>2, <1>8, <2>1
  <2> QED
    BY <1>5, <1>13, <2>2
<1>15. ASSUME NEW k \in 1 .. has PROVE queue'[h][k] = s + k
  <2>1. CASE k < had
    <3>1. k + 1 \in 1 .. had /\ queue'[h][k] = queue[h][k + 1]
      BY <1>3, <1>5, <2>1
    <3>2. queue[h][k + 1] = last + (k + 1)
      BY <1>8, <3>1
    <3> QED
      BY <1>5, <1>13, <3>1, <3>2
  <2>2. CASE ~(k < had)
    <3>1. queue'[h][k] = s + (k - (had - 1))
      BY <1>3, <2>2
    <3>2. had = 1
      BY <1>5, <1>14, <2>2
    <3> QED
      BY <3>1, <3>2
  <2> QED
    BY <2>1, <2>2
<1>16. ASSUME NEW t \in Events, buffer'[t] > 0 PROVE t > s /\ t > s + has /\ accepted[t] > 0
  <2>1. t \notin s + 1 .. s + c /\ buffer[t] > 0
    BY <1>2, <1>16
  <2>2. t > last + had /\ accepted[t] > 0
    BY <1>8, <1>9, <2>1
  <2>3. t \in Int /\ ~(s + 1 <= t /\ t <= s + c)
    BY <1>5, <1>6, <2>1
  <2> QED
    BY <1>5, <1>13, <1>14, <2>2, <2>3
<1>17. ASSUME NEW t \in Events, t <= s \/ t <= s + has PROVE accepted[t] > 0
  <2>1. CASE t <= last + had
    BY <1>9, <2>1
  <2>2. CASE t > last + had
    <3>1. t \in Int
      BY <1>6
    <3>2. t \in s + 1 .. s + c
      BY <1>5, <1>13, <1>14, <1>17, <2>2, <3>1
    <3> QED
      BY <1>2, <1>9, <3>2
  <2> QED
    BY <1>5, <1>6, <2>1, <2>2
<1>18. ASSUME NEW t \in Events, accepted[t] > 0
       PROVE  Done(t)' \/ buffer'[t] > 0 \/ \E k \in 1 .. has : queue'[h][k] = t
  <2>1. CASE Done(t)
    BY <1>11, <2>1
  <2>2. CASE buffer[t] > 0 /\ ~(buffer'[t] > 0)
    <3>1. t \in s + 1 .. s + c
      BY <1>2, <2>2
    <3>2. t \in Int /\ t - s \in 1 .. has
      BY <1>5, <1>6, <1>14, <3>1
    <3>3. queue'[h][t - s] = t
      BY <1>5, <1>15, <3>2
    <3> QED
      BY <3>2, <3>3
  <2>3. ASSUME NEW g \in Handlers, NEW k \in 1 .. Len(queue[g]), queue[g][k] = t
        PROVE  Done(t)' \/ \E i \in 1 .. has : queue'[h][i] = t
    <3>1. g = h
      BY <1>12, <2>3
    <3>2. k \in 1 .. had /\ t = last + k
      BY <1>8, <2>3, <3>1 DEF had
    <3>3. CASE k = 1
      BY <1>11, <1>13, <3>2, <3>3
    <3>4. CASE k # 1
      <4>1. k - 1 \in 1 .. has /\ s + (k - 1) = t
        BY <1>5, <1>13, <3>2, <3>4
      <4> QED
        BY <1>15, <4>1
    <3> QED
      BY <3>3, <3>4
  <2> QED
    BY <1>10, <1>18, <2>1, <2>2, <2>3
<1>19. ASSUME queue'[h] = <<>>, NEW t \in Events, t = s + 1 PROVE buffer'[t] = 0
  <2>1. has = 0
    BY <1>19 DEF has
  <2>2. c = 0
    BY <1>5, <2>1
  <2>3. s + c + 1 = t /\ t \notin s + 1 .. s + c
    BY <1>5, <1>19, <2>2
  <2> QED
    BY <1>2, <2>3
<1>20. \A g \in Handlers : \A k \in 1 .. Len(queue'[g]) : queue'[g][k] = s + k
  BY <1>12, <1>15 DEF has
<1>21. ASSUME NEW t \in Events, buffer'[t] > 0 PROVE t > s /\ \A g \in Handlers : t > s + Len(queue'[g])
  <2>1. t > s /\ t > s + has /\ s + 0 = s
    BY <1>5, <1>16, <1>21
  <2> QED
    BY <1>12, <2>1 DEF has
<1>22. ASSUME NEW t \in Events, t <= s \/ buffer'[t] > 0 \/ \E g \in Handlers : t <= s + Len(queue'[g]) PROVE accepted[t] > 0
  <2>1. t <= s \/ buffer'[t] > 0 \/ t <= s + has
    <3>1. s + 0 = s
      BY <1>5
    <3> QED
      BY <1>12, <1>22, <3>1 DEF has
  <2> QED
    BY <1>16, <1>17, <2>1
<1>23. /\ \A g, i \in Handlers : queue'[g] # <<>> /\ queue'[i] # <<>> => g = i
       /\ \A t \in Events : accepted[t] > 0 =>
             Done(t)' \/ buffer'[t] > 0 \/ \E g \in Handlers : \E k \in 1 .. Len(queue'[g]) : queue'[g][k] = t
       /\ (\A g \in Handlers : queue'[g] = <<>>) => \A t \in Events : t = s + 1 => buffer'[t] = 0
  BY <1>12, <1>18, <1>19 DEF has
<1> QED
  BY <1>1, <1>20, <1>21, <1>22, <1>23 DEF Calm, InHand

\* The middleware lets an event through.
LEMMA ProcessKeeps ==
    ASSUME OrderingIInv, NEW h \in Handlers, NEW s \in Events, Process(h, s)
    PROVE  OrderingIInv'
<1>1. OrderingTypes /\ NoGaps /\ LastIsDone /\ QueuesAreReady /\ Calm
  BY DEF OrderingIInv
<1>2. /\ s = lastProcessed + 1 /\ queue[h] = <<>> /\ queue' = [queue EXCEPT ![h] = <<s>>]
      /\ accepted' = [accepted EXCEPT ![s] = @ + 1]
      /\ UNCHANGED <<lastProcessed, buffer, old, handled, restarts>>
  BY DEF Process, Accept, InSequence
<1>3. /\ queue'[h] = <<s>> /\ Len(<<s>>) = 1 /\ <<s>>[1] = s /\ <<s>> # <<>> /\ <<s>> \in Seq(Events)
      /\ \A g \in Handlers : g # h => queue'[g] = queue[g]
      /\ accepted'[s] = accepted[s] + 1 /\ accepted[s] \in Nat
      /\ \A t \in Events : t # s => accepted'[t] = accepted[t]
  BY <1>1, <1>2 DEF OrderingTypes
<1>4. OrderingTypes'
  <2>1. queue' \in [Handlers -> Seq(Events)]
    BY <1>1, <1>2, <1>3 DEF OrderingTypes
  <2>2. accepted' \in [Events -> Nat]
    BY <1>1, <1>2 DEF OrderingTypes
  <2> QED
    BY <1>1, <1>2, <2>1, <2>2 DEF OrderingTypes
<1>5. s \in Int /\ lastProcessed \in Int /\ \A t \in Events : t \in Int /\ accepted[t] \in Nat /\ buffer[t] \in Nat
  BY <1>1 DEF OrderingTypes, Events
<1>6. \A t : Done(t)' <=> Done(t)
  BY <1>2 DEF Done
<1>7. NoGaps' /\ LastIsDone'
  BY <1>1, <1>2, <1>6 DEF NoGaps, LastIsDone
<1>8. QueuesAreReady'
  <2>1. ASSUME NEW k \in 1 .. Len(queue'[h]), NEW t \in 0 .. queue'[h][k] - 1 PROVE Done(t)'
    <3>1. k = 1 /\ t \in 0 .. s - 1
      BY <1>3, <2>1
    <3>2. t \in 0 .. lastProcessed
      BY <1>2, <1>5, <3>1
    <3> QED
      BY <1>1, <1>6, <3>2 DEF LastIsDone
  <2>2. ASSUME NEW g \in Handlers, g # h, NEW k \in 1 .. Len(queue'[g]), NEW t \in 0 .. queue'[g][k] - 1
        PROVE  Done(t)' \/ \E j \in 1 .. k - 1 : queue'[g][j] = t
    <3>1. queue'[g] = queue[g]
      BY <1>3, <2>2
    <3> QED
      BY <1>1, <1>6, <2>2, <3>1 DEF QueuesAreReady
  <2> QED
    BY <2>1, <2>2 DEF QueuesAreReady
<1>9. ASSUME ~Disturbed' PROVE Calm'
  <2>1. accepted[s] = 0
    <3>1. ~(accepted'[s] > 1)
      BY <1>9 DEF Disturbed
    <3> QED
      BY <1>3, <3>1
  <2>2. ~Disturbed
    <3>1. \A t \in Events : ~(accepted[t] > 1)
      BY <1>3, <1>9, <2>1 DEF Disturbed
    <3> QED
      BY <1>2, <1>9, <3>1 DEF Disturbed
  <2>3. /\ \A t \in Events : buffer[t] > 0 => t > lastProcessed
        /\ \A t \in Events : t <= lastProcessed \/ buffer[t] > 0 \/ (\E g \in Handlers : t <= InHand(g)) => accepted[t] > 0
        /\ \A t \in Events : accepted[t] > 0 =>
              Done(t) \/ buffer[t] > 0 \/ \E g \in Handlers : \E k \in 1 .. Len(queue[g]) : queue[g][k] = t
    BY <1>1, <2>2 DEF Calm
  <2>4. ASSUME NEW g \in Handlers PROVE queue[g] = <<>> /\ Len(queue[g]) = 0
    <3>1. queue[g] \in Seq(Events) /\ Len(queue[g]) \in Nat
      BY <1>1 DEF OrderingTypes
    <3>2. ~(s <= lastProcessed + Len(queue[g]))
      BY <1>5, <2>1, <2>3 DEF InHand
    <3>3. Len(queue[g]) = 0
      BY <1>2, <1>5, <3>1, <3>2
    <3> QED
      BY <3>1, <3>3
  <2>5. ~(buffer[s] > 0)
    BY <1>5, <2>1, <2>3
  <2>6. \A g \in Handlers : IF g = h THEN queue'[g] = <<s>> /\ Len(queue'[g]) = 1 ELSE queue'[g] = <<>> /\ Len(queue'[g]) = 0
    BY <1>3, <2>4
  <2>7. \A f, g \in Handlers : queue'[f] # <<>> /\ queue'[g] # <<>> => f = g
    BY <2>6
  <2>8. \A g \in Handlers : \A k \in 1 .. Len(queue'[g]) : queue'[g][k] = lastProcessed' + k
    <3> SUFFICES ASSUME NEW g \in Handlers, NEW k \in 1 .. Len(queue'[g]) PROVE queue'[g][k] = lastProcessed' + k
      OBVIOUS
    <3>1. g = h /\ k = 1
      <4>1. CASE g = h
        <5>1. Len(queue'[g]) = 1
          BY <2>6, <4>1
        <5> QED
          BY <4>1, <5>1
      <4>2. CASE g # h
        <5>1. Len(queue'[g]) = 0
          BY <2>6, <4>2
        <5> QED
          BY <5>1
      <4> QED
        BY <4>1, <4>2
    <3> QED
      BY <1>2, <1>3, <3>1
  <2>9. ASSUME NEW t \in Events, buffer'[t] > 0
        PROVE  t > lastProcessed' /\ \A g \in Handlers : t > lastProcessed' + Len(queue'[g])
    <3>1. t > lastProcessed /\ t # s
      BY <1>2, <2>3, <2>5, <2>9
    <3>2. t > lastProcessed + 1 /\ t > lastProcessed + 0
      BY <1>2, <1>5, <3>1
    <3> QED
      BY <1>2, <2>6, <3>1, <3>2
  <2>10. ASSUME NEW t \in Events, t <= lastProcessed' \/ buffer'[t] > 0 \/ \E g \in Handlers : t <= lastProcessed' + Len(queue'[g])
         PROVE  accepted'[t] > 0
    <3>1. t <= lastProcessed \/ buffer[t] > 0 \/ t <= lastProcessed + 1
      <4>1. \A g \in Handlers : Len(queue'[g]) = 1 \/ Len(queue'[g]) = 0
        BY <2>6
      <4>2. ASSUME NEW g \in Handlers, t <= lastProcessed + Len(queue'[g]) PROVE t <= lastProcessed + 1
          <5>1. Len(queue'[g]) = 1 \/ Len(queue'[g]) = 0
            BY <4>1
          <5>2. CASE Len(queue'[g]) = 1
            BY <4>2, <5>2
          <5>3. CASE Len(queue'[g]) = 0
            BY <1>5, <4>2, <5>3
          <5> QED
            BY <5>1, <5>2, <5>3
      <4> QED
        BY <1>2, <2>10, <4>2
    <3>2. CASE t = s
      BY <1>3, <3>2
    <3>3. CASE t # s
      <4>1. t <= lastProcessed \/ buffer[t] > 0
        BY <1>2, <1>5, <3>1, <3>3
      <4> QED
        BY <1>3, <2>3, <3>3, <4>1
    <3> QED
      BY <3>2, <3>3
  <2>11. ASSUME NEW t \in Events, accepted'[t] > 0
         PROVE  Done(t)' \/ buffer'[t] > 0 \/ \E g \in Handlers : \E k \in 1 .. Len(queue'[g]) : queue'[g][k] = t
    <3>1. CASE t = s
      <4>1. 1 \in 1 .. Len(queue'[h]) /\ queue'[h][1] = t
        BY <1>3, <3>1
      <4> QED
        BY <4>1
    <3>2. CASE t # s
      <4>1. accepted[t] > 0
        BY <1>3, <2>11, <3>2
      <4>2. \A g \in Handlers : 1 .. Len(queue[g]) = {}
        BY <2>4
      <4> QED
        BY <1>2, <1>6, <2>3, <4>1, <4>2
    <3> QED
      BY <3>1, <3>2
  <2>12. queue'[h] # <<>>
    BY <1>3
  <2> QED
    BY <2>7, <2>8, <2>9, <2>10, <2>11, <2>12 DEF Calm, InHand
<1>10. Calm'
  BY <1>9 DEF Calm
<1> QED
  BY <1>4, <1>7, <1>8, <1>10 DEF OrderingIInv

\* The middleware keeps an event for later.
LEMMA BufferKeeps ==
    ASSUME OrderingIInv, NEW s \in Events, Buffer(s)
    PROVE  OrderingIInv'
<1>1. OrderingTypes /\ NoGaps /\ LastIsDone /\ QueuesAreReady /\ Calm
  BY DEF OrderingIInv
<1>2. /\ s > lastProcessed + 1 /\ buffer' = [buffer EXCEPT ![s] = @ + 1]
      /\ accepted' = [accepted EXCEPT ![s] = @ + 1]
      /\ UNCHANGED <<lastProcessed, old, queue, handled, restarts>>
  BY DEF Buffer, Accept
<1>3. /\ accepted'[s] = accepted[s] + 1 /\ accepted[s] \in Nat
      /\ buffer'[s] = buffer[s] + 1 /\ buffer[s] \in Nat
      /\ \A t \in Events : t # s => accepted'[t] = accepted[t] /\ buffer'[t] = buffer[t]
  BY <1>1, <1>2 DEF OrderingTypes
<1>4. OrderingTypes'
  <2>1. buffer' \in [Events -> Nat]
    BY <1>1, <1>2 DEF OrderingTypes
  <2>2. accepted' \in [Events -> Nat]
    BY <1>1, <1>2 DEF OrderingTypes
  <2> QED
    BY <1>1, <1>2, <2>1, <2>2 DEF OrderingTypes
<1>5. s \in Int /\ lastProcessed \in Int /\ \A t \in Events : t \in Int /\ accepted[t] \in Nat /\ buffer[t] \in Nat
  BY <1>1 DEF OrderingTypes, Events
<1>6. \A t : Done(t)' <=> Done(t)
  BY <1>2 DEF Done
<1>7. NoGaps' /\ LastIsDone' /\ QueuesAreReady'
  BY <1>1, <1>2, <1>6 DEF NoGaps, LastIsDone, QueuesAreReady
<1>8. ASSUME ~Disturbed' PROVE Calm'
  <2>1. accepted[s] = 0
    <3>1. ~(accepted'[s] > 1)
      BY <1>8 DEF Disturbed
    <3> QED
      BY <1>3, <3>1
  <2>2. ~Disturbed
    <3>1. \A t \in Events : ~(accepted[t] > 1)
      BY <1>3, <1>8, <2>1 DEF Disturbed
    <3> QED
      BY <1>2, <1>8, <3>1 DEF Disturbed
  <2>3. /\ \A g, f \in Handlers : queue[g] # <<>> /\ queue[f] # <<>> => g = f
        /\ \A g \in Handlers : \A k \in 1 .. Len(queue[g]) : queue[g][k] = lastProcessed + k
        /\ \A t \in Events : buffer[t] > 0 => t > lastProcessed /\ \A g \in Handlers : t > InHand(g)
        /\ \A t \in Events : t <= lastProcessed \/ buffer[t] > 0 \/ (\E g \in Handlers : t <= InHand(g)) => accepted[t] > 0
        /\ \A t \in Events : accepted[t] > 0 =>
              Done(t) \/ buffer[t] > 0 \/ \E g \in Handlers : \E k \in 1 .. Len(queue[g]) : queue[g][k] = t
        /\ (\A g \in Handlers : queue[g] = <<>>) => \A t \in Events : t = lastProcessed + 1 => buffer[t] = 0
    BY <1>1, <2>2 DEF Calm
  <2>4. \A g \in Handlers : InHand(g)' = InHand(g) /\ InHand(g) \in Int
    BY <1>1, <1>2, <1>5 DEF InHand, OrderingTypes
  <2>5. \A g \in Handlers : s > InHand(g)
    BY <1>5, <2>1, <2>3, <2>4
  <2>6. ASSUME NEW t \in Events, buffer'[t] > 0 PROVE t > lastProcessed' /\ \A g \in Handlers : t > InHand(g)'
    BY <1>2, <1>3, <1>5, <2>3, <2>4, <2>5, <2>6
  <2>7. ASSUME NEW t \in Events, t <= lastProcessed' \/ buffer'[t] > 0 \/ \E g \in Handlers : t <= InHand(g)'
        PROVE  accepted'[t] > 0
    <3>1. CASE t = s
      BY <1>3, <3>1
    <3>2. CASE t # s
      <4>1. t <= lastProcessed \/ buffer[t] > 0 \/ \E g \in Handlers : t <= InHand(g)
        BY <1>2, <1>3, <2>4, <2>7, <3>2
      <4> QED
        BY <1>3, <2>3, <3>2, <4>1
    <3> QED
      BY <3>1, <3>2
  <2>8. ASSUME NEW t \in Events, accepted'[t] > 0
        PROVE  Done(t)' \/ buffer'[t] > 0 \/ \E g \in Handlers : \E k \in 1 .. Len(queue'[g]) : queue'[g][k] = t
    <3>1. CASE t = s
      BY <1>3, <3>1
    <3>2. CASE t # s
      <4>1. accepted[t] > 0 /\ buffer'[t] = buffer[t] /\ queue' = queue
        BY <1>2, <1>3, <2>8, <3>2
      <4> QED
        BY <1>6, <2>3, <4>1
    <3> QED
      BY <3>1, <3>2
  <2>9. ASSUME \A g \in Handlers : queue'[g] = <<>>, NEW t \in Events, t = lastProcessed' + 1 PROVE buffer'[t] = 0
    <3>1. t # s /\ t = lastProcessed + 1
      BY <1>2, <1>5, <2>9
    <3> QED
      BY <1>2, <1>3, <2>3, <2>9, <3>1
  <2>10. /\ \A g, f \in Handlers : queue'[g] # <<>> /\ queue'[f] # <<>> => g = f
         /\ \A g \in Handlers : \A k \in 1 .. Len(queue'[g]) : queue'[g][k] = lastProcessed' + k
    BY <1>2, <2>3
  <2> QED
    BY <2>6, <2>7, <2>8, <2>9, <2>10 DEF Calm
<1>9. Calm'
  BY <1>8 DEF Calm
<1> QED
  BY <1>4, <1>7, <1>9 DEF OrderingIInv

LEMMA OrderingInductive == OrderingIInv /\ [OrderingNext]_orderingVars => OrderingIInv'
<1> SUFFICES ASSUME OrderingIInv, [OrderingNext]_orderingVars PROVE OrderingIInv'
  OBVIOUS
<1>1. OrderingTypes /\ NoGaps /\ LastIsDone /\ QueuesAreReady /\ Calm
  BY DEF OrderingIInv
<1>2. ASSUME NEW h \in Handlers, NEW s \in Events, Process(h, s) PROVE OrderingIInv'
  BY <1>2, ProcessKeeps
<1>3. ASSUME NEW s \in Events, Buffer(s) PROVE OrderingIInv'
  BY <1>3, BufferKeeps
<1>4. ASSUME NEW h \in Handlers, MarkProcessed(h) PROVE OrderingIInv'
  <2>1. PICK s \in Events, c \in Nat : MarkedWith(h, s, c)
    BY <1>1, <1>4, MarkStep
  <2>2. OrderingTypes' /\ NoGaps' /\ LastIsDone' /\ QueuesAreReady'
    BY <2>1, MarkKeepsOrder
  <2>3. Calm'
    BY <2>1, MarkKeepsCalm
  <2> QED
    BY <2>2, <2>3 DEF OrderingIInv
<1>5. ASSUME NEW s \in Events, Age(s) PROVE OrderingIInv'
  <2>1. /\ old' = old \union {s}
        /\ UNCHANGED <<lastProcessed, buffer, queue, accepted, handled, restarts>>
    BY <1>5 DEF Age
  <2>2. OrderingTypes' /\ Disturbed'
    BY <1>1, <2>1 DEF OrderingTypes, Disturbed
  <2>3. NoGaps' /\ LastIsDone'
    BY <1>1, <2>1 DEF NoGaps, LastIsDone, Done
  <2>4. \A h \in Handlers : queue'[h] = queue[h]
    BY <2>1
  <2>5. QueuesAreReady'
    BY <1>1, <2>1, <2>4 DEF QueuesAreReady, Done
  <2> QED
    BY <2>2, <2>3, <2>5 DEF OrderingIInv, Calm
<1>6. ASSUME CleanupStaleEvents PROVE OrderingIInv'
  <2>1. /\ old # {} /\ buffer' = [s \in Events |-> IF s \in old THEN 0 ELSE buffer[s]]
        /\ UNCHANGED <<lastProcessed, old, queue, accepted, handled, restarts>>
    BY <1>6 DEF CleanupStaleEvents
  <2>2. OrderingTypes' /\ Disturbed'
    BY <1>1, <2>1 DEF OrderingTypes, Disturbed
  <2>3. NoGaps' /\ LastIsDone'
    BY <1>1, <2>1 DEF NoGaps, LastIsDone, Done
  <2>4. \A h \in Handlers : queue'[h] = queue[h]
    BY <2>1
  <2>5. QueuesAreReady'
    BY <1>1, <2>1, <2>4 DEF QueuesAreReady, Done
  <2> QED
    BY <2>2, <2>3, <2>5 DEF OrderingIInv, Calm
<1>7. ASSUME RestartTracker PROVE OrderingIInv'
  <2>1. /\ restarts' = restarts + 1 /\ lastProcessed' = -1
        /\ buffer' = [s \in Events |-> 0] /\ queue' = [h \in Handlers |-> <<>>]
        /\ UNCHANGED <<old, accepted, handled>>
    BY <1>7 DEF RestartTracker
  <2>2. OrderingTypes' /\ Disturbed'
    BY <1>1, <2>1 DEF OrderingTypes, Disturbed
  <2>3. NoGaps'
    BY <1>1, <2>1 DEF NoGaps
  <2>4. LastIsDone' /\ QueuesAreReady'
    BY <2>1 DEF LastIsDone, QueuesAreReady
  <2> QED
    BY <2>2, <2>3, <2>4 DEF OrderingIInv, Calm
<1>8. CASE UNCHANGED orderingVars
  <2>1. UNCHANGED <<lastProcessed, buffer, old, queue, accepted, handled, restarts>>
    BY <1>8 DEF orderingVars
  <2>2. OrderingTypes' /\ NoGaps'
    BY <1>1, <2>1 DEF OrderingTypes, NoGaps
  <2>3. LastIsDone' /\ QueuesAreReady'
    BY <1>1, <2>1 DEF LastIsDone, QueuesAreReady, Done
  <2>4. Calm'
    <3>1. (Disturbed' <=> Disturbed) /\ (\A s : Done(s)' <=> Done(s)) /\ \A h : InHand(h)' = InHand(h)
      BY <2>1 DEF Disturbed, Done, InHand
    <3> QED
      BY <1>1, <2>1, <3>1 DEF Calm
  <2> QED
    BY <2>2, <2>3, <2>4 DEF OrderingIInv
<1> QED
  BY <1>2, <1>3, <1>4, <1>5, <1>6, <1>7, <1>8 DEF OrderingNext

\* No event is handled before all its predecessors, whatever is repeated, late or
\* lost with the process; and as long as nothing of the kind happens, an accepted
\* event is handled, in hand or buffered, and the one that is due is not left in the
\* buffer: for any number of events and of handlers at work, and any buffer.
THEOREM SequencesStay == OrderingSpec => []SequencesAreKept
<1>1. OrderingInit => OrderingIInv
  <2> SUFFICES ASSUME OrderingInit PROVE OrderingIInv
    OBVIOUS
  <2>1. OrderingTypes
    BY DEF OrderingInit, OrderingTypes
  <2>2. NoGaps /\ LastIsDone /\ QueuesAreReady
    BY DEF OrderingInit, NoGaps, LastIsDone, QueuesAreReady
  <2>3. Calm
    <3>1. \A s \in Events : s \in Int /\ s >= 0
      BY EventsAssumption DEF Events
    <3>2. /\ lastProcessed = -1 /\ \A s \in Events : buffer[s] = 0 /\ accepted[s] = 0
          /\ \A h \in Handlers : queue[h] = <<>> /\ Len(queue[h]) = 0 /\ InHand(h) = -1
      BY DEF OrderingInit, InHand
    <3> QED
      BY <3>1, <3>2 DEF Calm
  <2> QED
    BY <2>1, <2>2, <2>3 DEF OrderingIInv
<1>2. OrderingIInv => SequencesAreKept
  <2> SUFFICES ASSUME OrderingIInv PROVE SequencesAreKept
    OBVIOUS
  <2>1. ASSUME NEW s, Done(s) PROVE s \in Range(handled)
    <3>1. handled \in Seq(Events) /\ DOMAIN handled = 1 .. Len(handled)
      BY DEF OrderingIInv, OrderingTypes
    <3> QED
      BY <2>1, <3>1 DEF Done, Range
  <2>2. ASSUME NEW h \in Handlers, NEW k \in 1 .. Len(queue[h]) PROVE queue[h][k] \in Range(queue[h])
    <3>1. queue[h] \in Seq(Events) /\ DOMAIN queue[h] = 1 .. Len(queue[h])
      BY DEF OrderingIInv, OrderingTypes
    <3> QED
      BY <2>2, <3>1 DEF Range
  <2>3. ASSUME ~Disturbed, NEW s \in Events, accepted[s] > 0
        PROVE  s \in Range(handled) \/ buffer[s] > 0 \/ \E h \in Handlers : s \in Range(queue[h])
    <3>1. Done(s) \/ buffer[s] > 0 \/ \E h \in Handlers : \E k \in 1 .. Len(queue[h]) : queue[h][k] = s
      BY <2>3 DEF OrderingIInv, Calm
    <3> QED
      BY <2>1, <2>2, <3>1
  <2>4. ASSUME ~Disturbed, \A h \in Handlers : queue[h] = <<>>, NEW s \in Events, s = lastProcessed + 1
        PROVE  buffer[s] = 0
    BY <2>4 DEF OrderingIInv, Calm
  <2>5. AcceptedEventsAreKept
    BY <2>3, <2>4 DEF AcceptedEventsAreKept
  <2> QED
    BY <2>5 DEF SequencesAreKept, OrderingIInv
<1> QED
  BY <1>1, <1>2, OrderingInductive, PTL DEF OrderingSpec

-----------------------------------------------------------------------------
(***************************************************************************)
(* Rate limits: who is let through is remembered, so that the requests of  *)
(* a window can be told from the earlier ones.                             *)
(***************************************************************************)

Ordered(ps) == \A m, n \in 1 .. Len(ps) : m <= n => ps[m] <= ps[n]
Until(ps, time) == \A n \in 1 .. Len(ps) : ps[n] <= time

\* Among any k + 1 requests in a row the first and the last are a Window apart.
Spread(ps, k) == \A n \in 1 .. Len(ps) : n + k <= Len(ps) => ps[n] + Window <= ps[n + k]

LimiterTypes ==
    /\ rlClock \in 0 .. MaxTime /\ rlFaults \in Nat
    /\ stamps \in Seq(Nat)
    /\ windows \in [Tiers -> [count : Nat, resetAt : Nat]]
    /\ counter \in [count : Nat, expiry : Nat \union {Never}]
    /\ expiring \in BOOLEAN
    /\ passed \in [Counts -> Seq(Nat)]
    /\ \A c \in Counts : Ordered(passed[c]) /\ Until(passed[c], rlClock)

\* The sliding window: stamps are the last requests, the others have left it.
SlidingFrom(ps, entry, time) ==
    /\ Len(entry) <= MaxAllowed /\ Len(entry) <= Len(ps)
    /\ \A n \in 1 .. Len(entry) : entry[n] = ps[Len(ps) - Len(entry) + n]
    /\ \A n \in 1 .. Len(ps) - Len(entry) : ps[n] + Window <= time
    /\ Spread(ps, MaxAllowed)

\* A fixed window: the last k requests came since it began, the others before, and
\* all but as many as the limit a Window before.
FixedFrom(ps, k, began, limit) ==
    /\ k <= limit /\ k <= Len(ps)
    /\ \A n \in 1 .. Len(ps) - k : ps[n] <= began
    /\ \A n \in 1 .. Len(ps) - k - limit : ps[n] + Window <= began
    /\ Spread(ps, 2 * limit)

\* A count goes on beyond the limit, without letting anybody through.
UpTo(limit, count, k) == IF count <= limit THEN k = count ELSE k = limit

TierCounts(t) ==
    IF windows[t].count = 0 THEN passed[t] = <<>>
    ELSE \E began, k \in Nat :
            /\ began <= rlClock /\ windows[t].resetAt = began + Window
            /\ UpTo(TierLimit[t], windows[t].count, k)
            /\ FixedFrom(passed[t], k, began, TierLimit[t])

\* In Redis the first request counts when it sets the TTL, not before.
RedisCounts ==
    \E began, k \in Nat :
        /\ began <= rlClock
        /\ UpTo(MaxAllowed, counter.count, IF expiring THEN k + 1 ELSE k)
        /\ FixedFrom(passed["redis"], k, began, MaxAllowed)
        /\ IF expiring \/ counter.count = 0 THEN counter.expiry = Never
           ELSE counter.expiry \in Nat /\ began + Window <= counter.expiry
        /\ expiring => counter.count > 0

LimitersIInv ==
    /\ LimiterTypes
    /\ SlidingFrom(passed["registration"], stamps, rlClock)
    /\ \A t \in Tiers : TierCounts(t)
    /\ rlFaults = 0 => RedisCounts

LEMMA FewInAWindow ==
    ASSUME NEW ps \in Seq(Nat), NEW k \in Nat, Ordered(ps), Spread(ps, k), NEW time \in Nat
    PROVE  Cardinality({n \in DOMAIN ps : time - Window < ps[n] /\ ps[n] <= time}) <= k
<1> DEFINE S == {n \in DOMAIN ps : time - Window < ps[n] /\ ps[n] <= time}
<1>1. CASE S = {}
  <2> HIDE DEF S
  <2>1. Cardinality(S) = 0
    BY <1>1, FS_EmptySet
  <2> QED
    BY <2>1 DEF S
<1>2. CASE S # {}
  <2>1. S \subseteq Nat
    OBVIOUS
  <2>2. PICK first \in S : \A n \in S : first <= n
    <3> HIDE DEF S
    <3> QED
      BY <1>2, <2>1, LeastNumber
  <2>3. ASSUME NEW n \in S, n >= first + k PROVE FALSE
    <3>1. first \in 1 .. Len(ps) /\ n \in 1 .. Len(ps) /\ first + k \in 1 .. Len(ps)
      BY <2>3
    <3>2. {ps[first], ps[n], ps[first + k]} \subseteq Nat
      BY <3>1
    <3>3. ps[first] + Window <= ps[first + k] /\ ps[first + k] <= ps[n]
      BY <3>1, <2>3 DEF Spread, Ordered
    <3>4. time - Window < ps[first] /\ ps[n] <= time
      OBVIOUS
    <3> DEFINE one == ps[first]
               other == ps[n]
               later == ps[first + k]
    <3>5. /\ {one, other, later} \subseteq Nat /\ Window \in Nat
          /\ one + Window <= later /\ later <= other /\ time - Window < one /\ other <= time
      BY <3>2, <3>3, <3>4, TimesAssumption
    <3> HIDE DEF S, one, other, later
    <3> QED
      BY <3>5
  <2>4. S \subseteq first .. (first + k - 1)
    BY <2>1, <2>2, <2>3
  <2>5. first \in Nat
    BY <2>1
  <2> HIDE DEF S
  <2>6. IsFiniteSet(first .. (first + k - 1)) /\ Cardinality(first .. (first + k - 1)) <= k
    BY <2>5, FS_Interval
  <2>7. Cardinality(S) <= Cardinality(first .. (first + k - 1)) /\ Cardinality(S) \in Nat
    BY <2>4, <2>6, FS_Subset, FS_CardinalityType
  <2> QED
    BY <2>5, <2>6, <2>7, FS_CardinalityType DEF S
<1> QED
  BY <1>1, <1>2

\* A request at the present time comes last.
LEMMA OrderedGrows ==
    ASSUME NEW ps \in Seq(Nat), NEW time \in Nat, Ordered(ps), Until(ps, time)
    PROVE  /\ Append(ps, time) \in Seq(Nat) /\ Len(Append(ps, time)) = Len(ps) + 1
           /\ Append(ps, time)[Len(ps) + 1] = time
           /\ \A n \in 1 .. Len(ps) : Append(ps, time)[n] = ps[n]
           /\ Ordered(Append(ps, time)) /\ Until(Append(ps, time), time)
<1> DEFINE qs == Append(ps, time)
<1>1. /\ qs \in Seq(Nat) /\ Len(qs) = Len(ps) + 1 /\ qs[Len(ps) + 1] = time
      /\ \A n \in 1 .. Len(ps) : qs[n] = ps[n] /\ qs[n] \in Nat
  OBVIOUS
<1> HIDE DEF qs
<1>2. \A n \in 1 .. Len(qs) : n \in 1 .. Len(ps) \/ n = Len(ps) + 1
  BY <1>1
<1>3. Until(qs, time)
  BY <1>1, <1>2 DEF Until
<1>4. Ordered(qs)
  <2> SUFFICES ASSUME NEW m \in 1 .. Len(qs), NEW n \in 1 .. Len(qs), m <= n PROVE qs[m] <= qs[n]
    BY DEF Ordered
  <2>1. CASE n = Len(ps) + 1
    BY <2>1, <1>1, <1>3 DEF Until
  <2>2. CASE n \in 1 .. Len(ps)
    <3>1. m \in 1 .. Len(ps)
      BY <2>2, <1>1
    <3> QED
      BY <2>2, <3>1, <1>1 DEF Ordered
  <2> QED
    BY <2>1, <2>2, <1>2
<1> QED
  BY <1>1, <1>3, <1>4 DEF qs

\* One more that is a Window away from the k-th before it.
LEMMA SpreadGrows ==
    ASSUME NEW ps \in Seq(Nat), NEW qs, NEW k \in Nat \ {0}, NEW time \in Nat, Spread(ps, k),
           Len(qs) = Len(ps) + 1, qs[Len(ps) + 1] = time,
           \A n \in 1 .. Len(ps) : qs[n] = ps[n],
           \A n \in 1 .. Len(ps) : n + k = Len(ps) + 1 => ps[n] + Window <= time
    PROVE  Spread(qs, k)
<1> SUFFICES ASSUME NEW n \in 1 .. Len(qs), n + k <= Len(qs) PROVE qs[n] + Window <= qs[n + k]
  BY DEF Spread
<1>1. n \in 1 .. Len(ps) /\ qs[n] = ps[n]
  OBVIOUS
<1>2. CASE n + k = Len(ps) + 1
  BY <1>1, <1>2
<1>3. CASE n + k <= Len(ps)
  <2>1. n + k \in 1 .. Len(ps)
    BY <1>1, <1>3
  <2> QED
    BY <1>1, <1>3, <2>1 DEF Spread
<1>4. n + k = Len(ps) + 1 \/ n + k <= Len(ps)
  <2> DEFINE len == Len(ps)
  <2>1. len \in Nat /\ n \in Nat /\ k \in Nat
    OBVIOUS
  <2>2. n + k <= len + 1
    OBVIOUS
  <2> HIDE DEF len
  <2>3. n + k = len + 1 \/ n + k <= len
    BY <2>1, <2>2
  <2> QED
    BY <2>3 DEF len
<1> QED
  BY <1>2, <1>3, <1>4

LEMMA FixedGrows ==
    ASSUME NEW ps \in Seq(Nat), NEW k \in Nat, NEW began \in Nat, NEW limit \in Nat, NEW time \in Nat,
           FixedFrom(ps, k, began, limit), k + 1 <= limit, began <= time,
           Ordered(ps), Until(ps, time)
    PROVE  FixedFrom(Append(ps, time), k + 1, began, limit)
<1> DEFINE qs == Append(ps, time)
<1>1. /\ Len(qs) = Len(ps) + 1 /\ qs[Len(ps) + 1] = time
      /\ \A n \in 1 .. Len(ps) : qs[n] = ps[n] /\ ps[n] \in Nat
  BY OrderedGrows
<1> HIDE DEF qs
<1>2. Len(ps) \in Nat
  OBVIOUS
<1>3. k <= Len(ps)
  BY DEF FixedFrom
<1>4. \A n \in 1 .. Len(qs) - (k + 1) : qs[n] <= began
  <2> TAKE n \in 1 .. Len(qs) - (k + 1)
  <2>1. n \in 1 .. Len(ps) - k /\ n \in 1 .. Len(ps)
    BY <1>1, <1>2, <1>3
  <2> QED
    BY <2>1, <1>1 DEF FixedFrom
<1>5. \A n \in 1 .. Len(qs) - (k + 1) - limit : qs[n] + Window <= began
  <2> TAKE n \in 1 .. Len(qs) - (k + 1) - limit
  <2>1. n \in 1 .. Len(ps) - k - limit /\ n \in 1 .. Len(ps)
    BY <1>1, <1>2, <1>3
  <2> QED
    BY <2>1, <1>1 DEF FixedFrom
<1>6. Spread(qs, 2 * limit)
  <2>1. ASSUME NEW n \in 1 .. Len(ps), n + 2 * limit = Len(ps) + 1
        PROVE  ps[n] + Window <= time
    <3>1. n \in 1 .. Len(ps) - k - limit
      BY <2>1, <1>2
    <3>2. ps[n] + Window <= began
      BY <3>1 DEF FixedFrom
    <3> QED
      BY <3>2, <1>1, TimesAssumption
  <2>2. Spread(ps, 2 * limit) /\ 2 * limit \in Nat \ {0}
    BY DEF FixedFrom
  <2> QED
    BY <2>1, <2>2, <1>1, SpreadGrows
<1>7. k + 1 <= Len(qs)
  BY <1>1, <1>2, <1>3
<1> QED
  BY <1>4, <1>5, <1>6, <1>7 DEF FixedFrom, qs

\* A new window begins when the last one is over.
LEMMA FixedStarts ==
    ASSUME NEW ps \in Seq(Nat), NEW k \in Nat, NEW began \in Nat, NEW limit \in Nat, NEW time \in Nat,
           FixedFrom(ps, k, began, limit), began + Window <= time, Until(ps, time)
    PROVE  FixedFrom(ps, 0, time, limit)
<1>1. Len(ps) \in Nat /\ k <= limit /\ Spread(ps, 2 * limit)
  BY DEF FixedFrom
<1>2. \A n \in 1 .. Len(ps) - 0 : ps[n] <= time
  BY DEF Until
<1>3. \A n \in 1 .. Len(ps) - 0 - limit : ps[n] + Window <= time
  <2> TAKE n \in 1 .. Len(ps) - 0 - limit
  <2>1. n \in 1 .. Len(ps) - k /\ n \in 1 .. Len(ps)
    BY <1>1
  <2>2. ps[n] <= began
    BY <2>1 DEF FixedFrom
  <2>3. ps[n] \in Nat
    BY <2>1
  <2>4. Window \in Nat
    BY TimesAssumption
  <2> QED
    BY <2>2, <2>3, <2>4
<1> QED
  BY <1>1, <1>2, <1>3 DEF FixedFrom

-----------------------------------------------------------------------------
LEMMA PassKeepsTypes ==
    ASSUME LimiterTypes, NEW c \in Counts, Pass(c)
    PROVE  /\ passed' \in [Counts -> Seq(Nat)]
           /\ \A d \in Counts : Ordered(passed'[d]) /\ Until(passed'[d], rlClock)
           /\ passed'[c] = Append(passed[c], rlClock)
           /\ \A d \in Counts \ {c} : passed'[d] = passed[d]
<1>1. rlClock \in Nat /\ passed \in [Counts -> Seq(Nat)]
      /\ \A d \in Counts : Ordered(passed[d]) /\ Until(passed[d], rlClock)
  BY TimesAssumption DEF LimiterTypes
<1>2. /\ passed' \in [Counts -> Seq(Nat)]
      /\ passed'[c] = Append(passed[c], rlClock)
      /\ \A d \in Counts \ {c} : passed'[d] = passed[d]
  BY <1>1 DEF Pass
<1>3. Ordered(Append(passed[c], rlClock)) /\ Until(Append(passed[c], rlClock), rlClock)
  BY <1>1, OrderedGrows
<1> QED
  BY <1>1, <1>2, <1>3

\* Nobody else's window moves when the clock and the history stay.
LEMMA TierStays ==
    ASSUME NEW t \in Tiers, TierCounts(t), rlClock' = rlClock,
           windows'[t] = windows[t], passed'[t] = passed[t]
    PROVE  TierCounts(t)'
  BY DEF TierCounts

\* What is old comes first.
LEMMA RecentIsTheEnd ==
    ASSUME NEW entry \in Seq(Nat), Ordered(entry), NEW k \in Nat, rlClock \in Nat
    PROVE  \E gone \in 0 .. Len(entry) :
              /\ Recent(entry) = SubSeq(entry, gone + 1, Len(entry))
              /\ \A n \in 1 .. gone : entry[n] + Window <= rlClock
              /\ \A n \in gone + 1 .. Len(entry) : entry[n] + Window > rlClock
<1> DEFINE S == {n \in DOMAIN entry : entry[n] <= rlClock - Window}
           T == {n \in 0 .. Len(entry) : \A m \in n + 1 .. Len(entry) : entry[m] > rlClock - Window}
<1>1. Len(entry) \in T /\ T \in SUBSET Nat
  OBVIOUS
<1>2. PICK gone \in T : \A n \in T : gone <= n
  <2> HIDE DEF T
  <2> QED
    BY <1>1, LeastNumber
<1>3. gone \in 0 .. Len(entry) /\ \A m \in gone + 1 .. Len(entry) : entry[m] > rlClock - Window
  OBVIOUS
<1>4. \A n \in 1 .. gone : entry[n] <= rlClock - Window
  <2> SUFFICES ASSUME NEW n \in 1 .. gone, entry[n] > rlClock - Window PROVE FALSE
    BY <1>3, TimesAssumption
  <2>1. n - 1 \in 0 .. Len(entry) /\ n - 1 < gone
    BY <1>3
  <2>2. \A m \in n .. Len(entry) : entry[m] > rlClock - Window
    <3> TAKE m \in n .. Len(entry)
    <3>1. entry[n] <= entry[m] /\ entry[n] \in Nat /\ entry[m] \in Nat
      BY <1>3 DEF Ordered
    <3>2. entry[n] > rlClock - Window /\ Window \in Nat /\ rlClock \in Nat
      BY <2>1, TimesAssumption
    <3> HIDE DEF T
    <3> QED
      BY <3>1, <3>2
  <2>3. n - 1 \in T
    BY <2>1, <2>2, <1>3
  <2> HIDE DEF T
  <2>4. gone <= n - 1
    BY <1>2, <2>3
  <2> QED
    BY <2>1, <2>4, <1>3
<1>5. S = 1 .. gone
  <2>1. DOMAIN entry = 1 .. Len(entry) /\ Len(entry) \in Nat
    OBVIOUS
  <2>2. ASSUME NEW n \in 1 .. Len(entry), entry[n] <= rlClock - Window PROVE n \in 1 .. gone
    <3>1. ~(n \in gone + 1 .. Len(entry))
      <4>1. entry[n] \in Nat
        OBVIOUS
      <4> QED
        BY <1>3, <2>2, <4>1, TimesAssumption
    <3> QED
      BY <3>1, <1>3, <2>1
  <2> QED
    BY <2>1, <2>2, <1>3, <1>4
<1>6. Cardinality(S) = gone
  <2>1. Cardinality(1 .. gone) = gone
    BY <1>3, FS_Interval
  <2> HIDE DEF S
  <2> QED
    BY <2>1, <1>5
<1>7. Recent(entry) = SubSeq(entry, gone + 1, Len(entry))
  BY <1>6 DEF Recent
<1>8. \A n \in 1 .. Len(entry) : entry[n] \in Nat
  OBVIOUS
<1> HIDE DEF S, T
<1>9. \A n \in 1 .. gone : entry[n] + Window <= rlClock
  BY <1>3, <1>4, <1>8, TimesAssumption
<1>10. \A n \in gone + 1 .. Len(entry) : entry[n] + Window > rlClock
  BY <1>3, <1>8, TimesAssumption
<1> QED
  BY <1>3, <1>7, <1>9, <1>10

LEMMA RegisterKeeps ==
    ASSUME LimitersIInv, RegisterRequest
    PROVE  LimitersIInv'
<1> DEFINE ps == passed["registration"]
           entry == Recent(stamps)
<1>1. /\ LimiterTypes /\ SlidingFrom(ps, stamps, rlClock) /\ rlClock \in Nat /\ ps \in Seq(Nat)
      /\ Ordered(ps) /\ Until(ps, rlClock) /\ stamps \in Seq(Nat) /\ "registration" \in Counts
  BY TimesAssumption DEF LimitersIInv, LimiterTypes, Counts
<1>2. UNCHANGED <<limiter, rlClock, windows, counter, expiring, rlFaults>>
  BY DEF RegisterRequest
<1>0. /\ Len(ps) \in Nat /\ Len(stamps) \in Nat /\ Len(stamps) <= Len(ps)
      /\ \A n \in 1 .. Len(ps) : ps[n] \in Nat
  BY <1>1 DEF SlidingFrom
<1>3. Ordered(stamps)
  <2> SUFFICES ASSUME NEW m \in 1 .. Len(stamps), NEW n \in 1 .. Len(stamps), m <= n
               PROVE  stamps[m] <= stamps[n]
    BY DEF Ordered
  <2> HIDE DEF ps
  <2>1. /\ Len(ps) - Len(stamps) + m \in 1 .. Len(ps) /\ Len(ps) - Len(stamps) + n \in 1 .. Len(ps)
        /\ Len(ps) - Len(stamps) + m <= Len(ps) - Len(stamps) + n
    BY <1>0
  <2> QED
    BY <2>1, <1>1 DEF SlidingFrom, Ordered
<1>4. PICK gone \in 0 .. Len(stamps) :
          /\ entry = SubSeq(stamps, gone + 1, Len(stamps))
          /\ \A n \in 1 .. gone : stamps[n] + Window <= rlClock
          /\ \A n \in gone + 1 .. Len(stamps) : stamps[n] + Window > rlClock
  BY <1>1, <1>3, RecentIsTheEnd
<1>5. /\ entry \in Seq(Nat) /\ Len(entry) = Len(stamps) - gone
      /\ \A n \in 1 .. Len(entry) : entry[n] = stamps[gone + n]
  BY <1>1, <1>4
<1> HIDE DEF entry, ps
<1>6. SlidingFrom(ps, entry, rlClock)
  <2>1. \A n \in 1 .. Len(entry) : entry[n] = ps[Len(ps) - Len(entry) + n]
    <3> TAKE n \in 1 .. Len(entry)
    <3>1. /\ gone + n \in 1 .. Len(stamps)
          /\ Len(ps) - Len(stamps) + (gone + n) = Len(ps) - Len(entry) + n
      <4>1. Len(entry) = Len(stamps) - gone /\ Len(ps) \in Nat /\ Len(stamps) \in Nat
        BY <1>0, <1>5
      <4> QED
        BY <4>1
    <3> QED
      BY <3>1, <1>1, <1>5 DEF SlidingFrom
  <2>2. \A n \in 1 .. Len(ps) - Len(entry) : ps[n] + Window <= rlClock
    <3> TAKE n \in 1 .. Len(ps) - Len(entry)
    <3>1. CASE n <= Len(ps) - Len(stamps)
      BY <3>1, <1>1 DEF SlidingFrom
    <3>2. CASE n > Len(ps) - Len(stamps)
      <4>1. n - (Len(ps) - Len(stamps)) \in 1 .. gone
            /\ Len(ps) - Len(stamps) + (n - (Len(ps) - Len(stamps))) = n
        BY <3>2, <1>0, <1>4, <1>5
      <4>2. n - (Len(ps) - Len(stamps)) \in 1 .. Len(stamps)
        BY <4>1, <1>4
      <4>3. stamps[n - (Len(ps) - Len(stamps))] = ps[n]
        BY <4>1, <4>2, <1>1 DEF SlidingFrom
      <4> QED
        BY <4>1, <4>3, <1>4
    <3> QED
      BY <3>1, <3>2, <1>1
  <2>3. Len(entry) <= Len(stamps) /\ Len(entry) \in Nat
    BY <1>0, <1>4, <1>5
  <2>4. Len(entry) <= MaxAllowed /\ Len(entry) <= Len(ps)
    BY <2>3, <1>0, <1>1, LimitsAssumption DEF SlidingFrom
  <2>5. Spread(ps, MaxAllowed)
    BY <1>1 DEF SlidingFrom
  <2> QED
    BY <2>1, <2>2, <2>4, <2>5 DEF SlidingFrom
<1>7. CASE Full(entry)
  <2>1. stamps' = entry /\ passed' = passed
    BY <1>7 DEF RegisterRequest, entry
  <2>2. LimiterTypes'
    BY <1>1, <1>2, <1>5, <2>1 DEF LimiterTypes
  <2>3. SlidingFrom(passed["registration"], stamps, rlClock)'
    BY <1>2, <1>6, <2>1 DEF ps
  <2>4. \A t \in Tiers : TierCounts(t)'
    BY <1>2, <2>1, TierStays DEF LimitersIInv
  <2>5. (rlFaults = 0 => RedisCounts)'
    BY <1>2, <2>1 DEF LimitersIInv, RedisCounts
  <2> QED
    BY <2>2, <2>3, <2>4, <2>5 DEF LimitersIInv
<1>8. CASE ~Full(entry)
  <2> DEFINE qs == Append(ps, rlClock)
  <2>0. rlClock \in Nat /\ Len(entry) \in Nat
    BY <1>1, <1>5
  <2>1. stamps' = Append(entry, rlClock) /\ Pass("registration")
    BY <1>8 DEF RegisterRequest, entry
  <2>2. passed'["registration"] = qs /\ \A c \in Counts \ {"registration"} : passed'[c] = passed[c]
    BY <2>1, <1>1, PassKeepsTypes DEF ps
  <2>3. LimiterTypes'
    BY <2>1, <1>1, <1>2, <1>5, PassKeepsTypes DEF LimiterTypes
  <2>4. SlidingFrom(qs, Append(entry, rlClock), rlClock)
    <3>1. /\ Len(qs) = Len(ps) + 1 /\ qs[Len(ps) + 1] = rlClock
          /\ \A n \in 1 .. Len(ps) : qs[n] = ps[n]
      BY <1>1, OrderedGrows
    <3>2. /\ Len(Append(entry, rlClock)) = Len(entry) + 1
          /\ Append(entry, rlClock)[Len(entry) + 1] = rlClock
          /\ \A n \in 1 .. Len(entry) : Append(entry, rlClock)[n] = entry[n]
      BY <1>5
    <3>3. Len(entry) < MaxAllowed /\ Len(entry) <= Len(ps) /\ Len(ps) \in Nat /\ Len(entry) \in Nat
      BY <1>8, <1>5, <1>6, <1>1, LimitsAssumption DEF Full, SlidingFrom
    <3> DEFINE stamped == Append(entry, rlClock)
    <3> HIDE DEF qs, stamped
    <3>4. \A n \in 1 .. Len(stamped) : stamped[n] = qs[Len(qs) - Len(stamped) + n]
      <4> TAKE n \in 1 .. Len(stamped)
      <4>1. CASE n = Len(entry) + 1
        BY <4>1, <3>1, <3>2, <3>3 DEF stamped
      <4>2. CASE n \in 1 .. Len(entry)
        <5>1. Len(ps) - Len(entry) + n \in 1 .. Len(ps)
              /\ Len(qs) - Len(stamped) + n = Len(ps) - Len(entry) + n
          BY <4>2, <3>1, <3>2, <3>3 DEF stamped
        <5> QED
          BY <4>2, <5>1, <3>1, <3>2, <1>6 DEF stamped, SlidingFrom
      <4> QED
        BY <4>1, <4>2, <3>2, <3>3 DEF stamped
    <3>5. \A n \in 1 .. Len(qs) - Len(stamped) : qs[n] + Window <= rlClock
      <4> TAKE n \in 1 .. Len(qs) - Len(stamped)
      <4>1. n \in 1 .. Len(ps) - Len(entry) /\ n \in 1 .. Len(ps)
        BY <3>1, <3>2, <3>3 DEF stamped
      <4> QED
        BY <4>1, <3>1, <1>6 DEF SlidingFrom
    <3>6. Spread(qs, MaxAllowed)
      <4>1. ASSUME NEW n \in 1 .. Len(ps), n + MaxAllowed = Len(ps) + 1
            PROVE  ps[n] + Window <= rlClock
        <5>1. n \in 1 .. Len(ps) - Len(entry)
          BY <4>1, <3>3, LimitsAssumption
        <5> QED
          BY <5>1, <1>6 DEF SlidingFrom
      <4>2. Spread(ps, MaxAllowed) /\ MaxAllowed \in Nat \ {0}
        BY <1>6, LimitsAssumption DEF SlidingFrom
      <4> QED
        BY <4>1, <4>2, <3>1, <1>1, SpreadGrows
    <3> QED
      BY <3>1, <3>2, <3>3, <3>4, <3>5, <3>6, LimitsAssumption DEF SlidingFrom, stamped
  <2>5. SlidingFrom(passed["registration"], stamps, rlClock)'
    BY <2>1, <2>2, <2>4, <1>2
  <2>6. "redis" \in Counts \ {"registration"} /\ \A t \in Tiers : t \in Counts \ {"registration"}
    BY LimitsAssumption DEF Counts
  <2>7. passed'["redis"] = passed["redis"] /\ \A t \in Tiers : passed'[t] = passed[t]
    BY <2>2, <2>6
  <2>8. \A t \in Tiers : TierCounts(t)'
    BY <2>7, <1>2, TierStays DEF LimitersIInv
  <2>9. (rlFaults = 0 => RedisCounts)'
    BY <2>7, <1>2 DEF LimitersIInv, RedisCounts
  <2> QED
    BY <2>3, <2>5, <2>8, <2>9 DEF LimitersIInv
<1> QED
  BY <1>7, <1>8

LEMMA TierKeeps ==
    ASSUME LimitersIInv, NEW requested \in Tiers, NEW secretMatches \in BOOLEAN,
           TierRequest(requested, secretMatches)
    PROVE  LimitersIInv'
<1> DEFINE t == TierOf(requested, secretMatches)
           w == Increment(windows[t])
           ps == passed[t]
           limit == TierLimit[t]
<1>1. t \in Tiers
  BY LimitsAssumption DEF TierOf
<1> HIDE DEF t
<1>2. /\ LimiterTypes /\ rlClock \in Nat /\ ps \in Seq(Nat) /\ Ordered(ps) /\ Until(ps, rlClock)
      /\ t \in Counts /\ limit \in Nat \ {0} /\ windows[t] \in [count : Nat, resetAt : Nat]
      /\ TierCounts(t)
  <2>1. LimiterTypes /\ TierCounts(t) /\ t \in Counts
    BY <1>1 DEF LimitersIInv, Counts
  <2>2. limit \in Nat \ {0}
    BY <1>1, LimitsAssumption
  <2>3. windows[t] \in [count : Nat, resetAt : Nat]
    BY <1>1, <2>1 DEF LimiterTypes
  <2>4. rlClock \in Nat /\ ps \in Seq(Nat) /\ Ordered(ps) /\ Until(ps, rlClock)
    BY <2>1, TimesAssumption DEF LimiterTypes
  <2> QED
    BY <2>1, <2>2, <2>3, <2>4
<1>3. /\ UNCHANGED <<limiter, rlClock, stamps, counter, expiring, rlFaults>>
      /\ windows' = [windows EXCEPT ![t] = w]
      /\ IF w.count > limit THEN passed' = passed ELSE Pass(t)
  BY DEF TierRequest, t
<1>4. w \in [count : Nat, resetAt : Nat] /\ w.count > 0
  <2>1. rlClock + Window \in Nat
    BY <1>2, TimesAssumption
  <2>2. CASE windows[t].count = 0 \/ rlClock >= windows[t].resetAt
    BY <2>1, <2>2 DEF Increment
  <2>3. CASE ~(windows[t].count = 0 \/ rlClock >= windows[t].resetAt)
    <3>1. w = [windows[t] EXCEPT !.count = @ + 1]
      BY <2>3 DEF Increment
    <3> QED
      BY <3>1, <1>2
  <2> QED
    BY <2>2, <2>3
<1>5. PICK began, k \in Nat :
         /\ began <= rlClock /\ w.resetAt = began + Window
         /\ UpTo(limit, w.count - 1, k) /\ FixedFrom(ps, k, began, limit)
  <2>1. CASE windows[t].count = 0
    <3>1. w = [count |-> 1, resetAt |-> rlClock + Window] /\ ps = <<>>
      BY <2>1, <1>2 DEF Increment, TierCounts
    <3>2. FixedFrom(ps, 0, rlClock, limit)
      BY <3>1, <1>2 DEF FixedFrom, Spread
    <3>3. UpTo(limit, w.count - 1, 0)
      BY <3>1, <1>2 DEF UpTo
    <3> QED
      BY <3>1, <3>2, <3>3, <1>2
  <2>2. CASE windows[t].count # 0
    <3>1. PICK b, j \in Nat :
             /\ b <= rlClock /\ windows[t].resetAt = b + Window
             /\ UpTo(limit, windows[t].count, j) /\ FixedFrom(ps, j, b, limit)
      BY <2>2, <1>2 DEF TierCounts
    <3>2. CASE rlClock >= windows[t].resetAt
      <4>1. w = [count |-> 1, resetAt |-> rlClock + Window]
        BY <3>2 DEF Increment
      <4>2. FixedFrom(ps, 0, rlClock, limit)
        BY <3>1, <3>2, <1>2, FixedStarts
      <4>3. UpTo(limit, w.count - 1, 0)
        BY <4>1, <1>2 DEF UpTo
      <4> QED
        BY <4>1, <4>2, <4>3, <1>2
    <3>3. CASE ~(rlClock >= windows[t].resetAt)
      <4>1. w.resetAt = windows[t].resetAt /\ w.count - 1 = windows[t].count
        BY <2>2, <3>3, <1>2 DEF Increment
      <4> QED
        BY <4>1, <3>1
    <3> QED
      BY <3>2, <3>3
  <2> QED
    BY <2>1, <2>2
<1> HIDE DEF w
<1>6. windows' \in [Tiers -> [count : Nat, resetAt : Nat]] /\ windows'[t] = w
      /\ \A u \in Tiers \ {t} : windows'[u] = windows[u]
  BY <1>1, <1>2, <1>3, <1>4 DEF LimiterTypes
<1>7. /\ passed' \in [Counts -> Seq(Nat)]
      /\ \A c \in Counts : Ordered(passed'[c]) /\ Until(passed'[c], rlClock)
      /\ \A c \in Counts \ {t} : passed'[c] = passed[c]
      /\ passed'[t] = IF w.count > limit THEN ps ELSE Append(ps, rlClock)
  <2>1. CASE w.count > limit
    BY <2>1, <1>2, <1>3 DEF LimiterTypes
  <2>2. CASE ~(w.count > limit)
    BY <2>2, <1>2, <1>3, PassKeepsTypes
  <2> QED
    BY <2>1, <2>2
<1>8. LimiterTypes'
  BY <1>2, <1>3, <1>6, <1>7 DEF LimiterTypes
<1>9. \E j \in Nat : UpTo(limit, w.count, j) /\ FixedFrom(passed'[t], j, began, limit)
  <2>1. w.count \in Nat
    BY <1>4
  <2>2. CASE w.count > limit
    <3>1. UpTo(limit, w.count, k)
      BY <2>1, <2>2, <1>2, <1>5 DEF UpTo
    <3> QED
      BY <2>2, <3>1, <1>5, <1>7
  <2>3. CASE ~(w.count > limit)
    <3>1. k = w.count - 1 /\ k + 1 = w.count /\ k + 1 <= limit
      BY <2>1, <2>3, <1>2, <1>4, <1>5 DEF UpTo
    <3>2. FixedFrom(Append(ps, rlClock), k + 1, began, limit)
      BY <3>1, <1>2, <1>5, FixedGrows
    <3>3. UpTo(limit, w.count, k + 1)
      BY <3>1 DEF UpTo
    <3> QED
      BY <2>3, <3>2, <3>3, <1>7
  <2> QED
    BY <2>2, <2>3
<1>10. TierCounts(t)'
  BY <1>3, <1>4, <1>5, <1>6, <1>9 DEF TierCounts
<1>11. t # "registration" /\ t # "redis" /\ {"registration", "redis"} \subseteq Counts
       /\ \A u \in Tiers : u \in Counts
  BY <1>1, LimitsAssumption DEF Counts
<1>12. \A u \in Tiers : TierCounts(u)'
  <2> TAKE u \in Tiers
  <2>1. CASE u = t
    BY <2>1, <1>10
  <2>2. CASE u # t
    BY <2>2, <1>3, <1>6, <1>7, <1>11, TierStays DEF LimitersIInv
  <2> QED
    BY <2>1, <2>2
<1>13. SlidingFrom(passed["registration"], stamps, rlClock)'
  BY <1>3, <1>7, <1>11 DEF LimitersIInv
<1>14. (rlFaults = 0 => RedisCounts)'
  BY <1>3, <1>7, <1>11 DEF LimitersIInv, RedisCounts
<1> QED
  BY <1>8, <1>12, <1>13, <1>14 DEF LimitersIInv

\* Redis: only its counter and what it let through change.
LEMMA RedisOthers ==
    ASSUME LimitersIInv, rlClock' = rlClock, UNCHANGED <<stamps, windows>>,
           \A c \in Counts \ {"redis"} : passed'[c] = passed[c]
    PROVE  SlidingFrom(passed["registration"], stamps, rlClock)' /\ \A t \in Tiers : TierCounts(t)'
<1>1. "registration" \in Counts \ {"redis"} /\ \A t \in Tiers : t \in Counts \ {"redis"}
  BY LimitsAssumption DEF Counts
<1>2. passed'["registration"] = passed["registration"] /\ \A t \in Tiers : passed'[t] = passed[t]
  BY <1>1
<1>3. SlidingFrom(passed["registration"], stamps, rlClock)'
  BY <1>2 DEF LimitersIInv
<1>4. \A t \in Tiers : TierCounts(t)'
  BY <1>2, TierStays DEF LimitersIInv
<1> QED
  BY <1>3, <1>4

\* What a request adds to the window in Redis.
LEMMA RedisPass ==
    ASSUME LimiterTypes, Pass("redis"), NEW began \in Nat, NEW k \in Nat,
           began <= rlClock, k + 1 <= MaxAllowed, FixedFrom(passed["redis"], k, began, MaxAllowed)
    PROVE  FixedFrom(passed'["redis"], k + 1, began, MaxAllowed)
<1>1. /\ "redis" \in Counts /\ rlClock \in Nat /\ MaxAllowed \in Nat
      /\ passed["redis"] \in Seq(Nat) /\ Ordered(passed["redis"]) /\ Until(passed["redis"], rlClock)
  BY LimitsAssumption, TimesAssumption DEF LimiterTypes, Counts
<1>2. passed'["redis"] = Append(passed["redis"], rlClock)
  BY <1>1, PassKeepsTypes
<1> QED
  BY <1>1, <1>2, FixedGrows

LEMMA IncrKeeps ==
    ASSUME LimitersIInv, Incr
    PROVE  LimitersIInv'
<1>1. /\ LimiterTypes /\ rlClock \in Nat /\ "redis" \in Counts /\ MaxAllowed \in Nat \ {0}
      /\ counter \in [count : Nat, expiry : Nat \union {Never}]
  BY LimitsAssumption, TimesAssumption DEF LimitersIInv, LimiterTypes, Counts
<1>2. /\ UNCHANGED <<rlClock, stamps, windows, rlFaults>> /\ counter.count <= MaxAllowed
      /\ counter' \in [count : Nat, expiry : Nat \union {Never}]
      /\ counter'.count = counter.count + 1 /\ counter'.expiry = counter.expiry
  BY <1>1 DEF Incr
<1>3. CASE counter.count = 0
  <2>1. expiring' = TRUE /\ passed' = passed
    BY <1>3 DEF Incr
  <2>2. LimiterTypes'
    BY <1>1, <1>2, <2>1 DEF LimiterTypes
  <2>3. ASSUME rlFaults = 0 PROVE RedisCounts'
    <3>1. PICK began, k \in Nat :
            /\ began <= rlClock /\ UpTo(MaxAllowed, counter.count, IF expiring THEN k + 1 ELSE k)
            /\ FixedFrom(passed["redis"], k, began, MaxAllowed)
            /\ counter.expiry = Never /\ (expiring => counter.count > 0)
      BY <2>3, <1>3 DEF LimitersIInv, RedisCounts
    <3>2. ~expiring /\ k = 0
      BY <3>1, <1>1, <1>3 DEF UpTo
    <3>3. UpTo(MaxAllowed, counter'.count, k + 1) /\ counter'.count > 0
      BY <3>2, <1>1, <1>2, <1>3 DEF UpTo
    <3> QED
      BY <3>1, <3>3, <1>2, <2>1 DEF RedisCounts
  <2> QED
    BY <2>1, <2>2, <2>3, <1>2, RedisOthers DEF LimitersIInv
<1>4. CASE counter.count # 0
  <2>1. expiring' = expiring
        /\ IF counter.count + 1 > MaxAllowed THEN passed' = passed ELSE Pass("redis")
    BY <1>4 DEF Incr
  <2>2. /\ passed' \in [Counts -> Seq(Nat)]
        /\ \A c \in Counts : Ordered(passed'[c]) /\ Until(passed'[c], rlClock)
        /\ \A c \in Counts \ {"redis"} : passed'[c] = passed[c]
    <3>1. CASE counter.count + 1 > MaxAllowed
      BY <3>1, <2>1, <1>1 DEF LimiterTypes
    <3>2. CASE ~(counter.count + 1 > MaxAllowed)
      BY <3>2, <2>1, <1>1, PassKeepsTypes
    <3> QED
      BY <3>1, <3>2
  <2>3. LimiterTypes'
    BY <1>1, <1>2, <2>1, <2>2 DEF LimiterTypes
  <2>4. ASSUME rlFaults = 0 PROVE RedisCounts'
    <3>1. PICK began, k \in Nat :
            /\ began <= rlClock /\ UpTo(MaxAllowed, counter.count, IF expiring THEN k + 1 ELSE k)
            /\ FixedFrom(passed["redis"], k, began, MaxAllowed)
            /\ IF expiring THEN counter.expiry = Never
               ELSE counter.expiry \in Nat /\ began + Window <= counter.expiry
      BY <2>4, <1>4 DEF LimitersIInv, RedisCounts
    <3>2. CASE counter.count + 1 > MaxAllowed
      <4>1. UpTo(MaxAllowed, counter'.count, IF expiring' THEN k + 1 ELSE k)
        BY <3>1, <3>2, <1>1, <1>2, <2>1 DEF UpTo
      <4>2. counter'.count > 0
        BY <1>1, <1>2
      <4> QED
        BY <3>1, <3>2, <4>1, <4>2, <1>2, <2>1 DEF RedisCounts
    <3>3. CASE ~(counter.count + 1 > MaxAllowed)
      <4>1. Pass("redis")
        BY <3>3, <2>1
      <4>2. UpTo(MaxAllowed, counter'.count, IF expiring' THEN (k + 1) + 1 ELSE k + 1) /\ k + 1 <= MaxAllowed
        BY <3>1, <3>3, <1>1, <1>2, <2>1 DEF UpTo
      <4>3. FixedFrom(passed'["redis"], k + 1, began, MaxAllowed)
        BY <3>1, <4>1, <4>2, <1>1, RedisPass
      <4>4. counter'.count > 0 /\ k + 1 \in Nat
        BY <1>1, <1>2
      <4> QED
        BY <3>1, <4>2, <4>3, <4>4, <1>2, <2>1 DEF RedisCounts
    <3> QED
      BY <3>2, <3>3
  <2> QED
    BY <2>2, <2>3, <2>4, <1>2, RedisOthers DEF LimitersIInv
<1> QED
  BY <1>3, <1>4

LEMMA ExpireKeeps ==
    ASSUME LimitersIInv, Expire
    PROVE  LimitersIInv'
<1>1. /\ LimiterTypes /\ rlClock \in Nat /\ "redis" \in Counts /\ MaxAllowed \in Nat \ {0}
      /\ counter \in [count : Nat, expiry : Nat \union {Never}]
  BY LimitsAssumption, TimesAssumption DEF LimitersIInv, LimiterTypes, Counts
<1>2. /\ UNCHANGED <<rlClock, stamps, windows, rlFaults>> /\ Pass("redis") /\ expiring /\ ~expiring'
      /\ expiring' \in BOOLEAN
      /\ counter' \in [count : Nat, expiry : Nat \union {Never}]
      /\ counter'.count = counter.count /\ counter'.expiry = rlClock + Window /\ rlClock + Window \in Nat
  <2>1. /\ UNCHANGED <<rlClock, stamps, windows, rlFaults>> /\ Pass("redis") /\ expiring
        /\ expiring' = FALSE /\ counter' = [counter EXCEPT !.expiry = rlClock + Window]
    BY DEF Expire
  <2>2. rlClock + Window \in Nat
    BY <1>1, TimesAssumption
  <2> QED
    BY <2>1, <2>2, <1>1
<1>3. LimiterTypes'
  BY <1>1, <1>2, PassKeepsTypes DEF LimiterTypes
<1>4. \A c \in Counts \ {"redis"} : passed'[c] = passed[c]
  BY <1>1, <1>2, PassKeepsTypes
<1>5. ASSUME rlFaults = 0 PROVE RedisCounts'
  <2>1. PICK began, k \in Nat :
          /\ began <= rlClock /\ UpTo(MaxAllowed, counter.count, k + 1)
          /\ FixedFrom(passed["redis"], k, began, MaxAllowed) /\ counter.count > 0
    BY <1>2, <1>5 DEF LimitersIInv, RedisCounts
  <2>2. k + 1 <= MaxAllowed /\ k + 1 \in Nat
    BY <2>1, <1>1 DEF UpTo
  <2>3. FixedFrom(passed'["redis"], k + 1, began, MaxAllowed)
    BY <2>1, <2>2, <1>1, <1>2, RedisPass
  <2>4. began + Window <= counter'.expiry /\ counter'.count # 0
    BY <2>1, <1>1, <1>2, TimesAssumption
  <2> QED
    BY <2>1, <2>2, <2>3, <2>4, <1>2 DEF RedisCounts
<1> QED
  BY <1>2, <1>3, <1>4, <1>5, RedisOthers DEF LimitersIInv

\* After a failure nothing more is said of Redis.
LEMMA RedisFailsKeeps ==
    ASSUME LimitersIInv, RedisFails
    PROVE  LimitersIInv'
<1>1. /\ LimiterTypes /\ "redis" \in Counts /\ rlFaults \in Nat
  BY DEF LimitersIInv, LimiterTypes, Counts
<1>2. /\ UNCHANGED <<rlClock, stamps, windows, counter>> /\ Pass("redis") /\ expiring' \in BOOLEAN
      /\ rlFaults' = rlFaults + 1
  BY <1>1 DEF RedisFails, Fails, LimiterTypes
<1>3. LimiterTypes' /\ rlFaults' # 0
  BY <1>1, <1>2, PassKeepsTypes DEF LimiterTypes
<1>4. \A c \in Counts \ {"redis"} : passed'[c] = passed[c]
  BY <1>1, <1>2, PassKeepsTypes
<1> QED
  BY <1>2, <1>3, <1>4, RedisOthers DEF LimitersIInv

LEMMA LimiterRestartsKeeps ==
    ASSUME LimitersIInv, LimiterRestarts
    PROVE  LimitersIInv'
<1>1. /\ LimiterTypes /\ rlFaults \in Nat /\ rlFaults' = rlFaults + 1 /\ MaxAllowed \in Nat
      /\ UNCHANGED <<rlClock, counter>> /\ stamps' = <<>> /\ expiring' = FALSE
      /\ windows' = [t \in Tiers |-> NoWindow]
      /\ passed' = [c \in Counts |-> IF c = "redis" THEN passed[c] ELSE <<>>]
  BY LimitsAssumption DEF LimitersIInv, LimiterTypes, LimiterRestarts, Fails
<1>2. LimiterTypes' /\ rlFaults' # 0
  <2>1. \A c \in Counts : passed'[c] \in Seq(Nat) /\ Ordered(passed'[c]) /\ Until(passed'[c], rlClock')
    BY <1>1 DEF LimiterTypes, Ordered, Until
  <2>2. passed' \in [Counts -> Seq(Nat)]
    BY <1>1, <2>1
  <2>3. windows' \in [Tiers -> [count : Nat, resetAt : Nat]]
    BY <1>1 DEF NoWindow
  <2>4. stamps' \in Seq(Nat) /\ expiring' \in BOOLEAN
    <3>1. <<>> \in Seq(Nat)
      OBVIOUS
    <3> QED
      BY <1>1, <3>1
  <2>5. rlFaults' \in Nat /\ rlFaults' # 0
    BY <1>1
  <2>6. rlClock' \in 0 .. MaxTime /\ counter' \in [count : Nat, expiry : Nat \union {Never}]
    BY <1>1 DEF LimiterTypes
  <2> QED
    BY <2>1, <2>2, <2>3, <2>4, <2>5, <2>6 DEF LimiterTypes
<1>3. passed'["registration"] = <<>> /\ \A t \in Tiers : passed'[t] = <<>> /\ windows'[t].count = 0
  BY <1>1, LimitsAssumption DEF Counts, NoWindow
<1>4. SlidingFrom(passed["registration"], stamps, rlClock)'
  BY <1>1, <1>3 DEF SlidingFrom, Spread
<1>5. \A t \in Tiers : TierCounts(t)'
  BY <1>3 DEF TierCounts
<1> QED
  BY <1>2, <1>4, <1>5 DEF LimitersIInv

LEMMA LimiterTickKeeps ==
    ASSUME LimitersIInv, Tick
    PROVE  LimitersIInv'
<1>1. /\ LimiterTypes /\ rlClock \in Nat /\ rlClock' = rlClock + 1 /\ rlClock' \in 0 .. MaxTime
      /\ MaxAllowed \in Nat \ {0} /\ "redis" \in Counts /\ "registration" \in Counts
      /\ UNCHANGED <<stamps, windows, expiring, rlFaults, passed>>
      /\ counter' = IF counter.expiry = rlClock' THEN NoCounter ELSE counter
  BY LimitsAssumption, TimesAssumption DEF LimitersIInv, LimiterTypes, Tick, Counts
<1>2. \A c \in Counts : /\ passed[c] \in Seq(Nat) /\ Until(passed[c], rlClock)
                        /\ \A n \in 1 .. Len(passed[c]) : passed[c][n] \in Nat
  BY <1>1 DEF LimiterTypes
<1>3. \A c \in Counts : Until(passed[c], rlClock')
  BY <1>1, <1>2 DEF Until
<1>4. LimiterTypes'
  BY <1>1, <1>3 DEF LimiterTypes, NoCounter
<1>5. SlidingFrom(passed["registration"], stamps, rlClock)'
  <2> DEFINE ps == passed["registration"]
  <2>1. SlidingFrom(ps, stamps, rlClock) /\ Len(ps) \in Nat /\ Len(stamps) \in Nat
        /\ \A n \in 1 .. Len(ps) : ps[n] \in Nat
    BY <1>1, <1>2 DEF LimitersIInv, LimiterTypes
  <2> HIDE DEF ps
  <2>2. \A n \in 1 .. Len(ps) - Len(stamps) : ps[n] + Window <= rlClock'
    <3> TAKE n \in 1 .. Len(ps) - Len(stamps)
    <3>1. ps[n] + Window <= rlClock /\ n \in 1 .. Len(ps)
      BY <2>1 DEF SlidingFrom
    <3> QED
      BY <3>1, <2>1, <1>1, TimesAssumption
  <2>3. SlidingFrom(ps, stamps, rlClock')
    BY <2>1, <2>2 DEF SlidingFrom
  <2> QED
    BY <2>3, <1>1 DEF ps
<1>6. \A t \in Tiers : TierCounts(t)'
  <2> TAKE t \in Tiers
  <2>1. TierCounts(t) /\ windows'[t] = windows[t] /\ passed'[t] = passed[t]
    BY <1>1 DEF LimitersIInv
  <2>2. CASE windows[t].count = 0
    BY <2>1, <2>2 DEF TierCounts
  <2>3. CASE windows[t].count # 0
    <3>1. PICK began, k \in Nat :
             /\ began <= rlClock /\ windows[t].resetAt = began + Window
             /\ UpTo(TierLimit[t], windows[t].count, k)
             /\ FixedFrom(passed[t], k, began, TierLimit[t])
      BY <2>1, <2>3 DEF TierCounts
    <3>2. began <= rlClock'
      BY <3>1, <1>1
    <3> QED
      BY <2>1, <2>3, <3>1, <3>2 DEF TierCounts
  <2> QED
    BY <2>2, <2>3
<1>7. ASSUME rlFaults = 0 PROVE RedisCounts'
  <2>1. PICK began, k \in Nat :
          /\ began <= rlClock
          /\ UpTo(MaxAllowed, counter.count, IF expiring THEN k + 1 ELSE k)
          /\ FixedFrom(passed["redis"], k, began, MaxAllowed)
          /\ IF expiring \/ counter.count = 0 THEN counter.expiry = Never
             ELSE counter.expiry \in Nat /\ began + Window <= counter.expiry
          /\ expiring => counter.count > 0
    BY <1>7 DEF LimitersIInv, RedisCounts
  <2>2. CASE counter.expiry # rlClock'
    <3>1. counter' = counter /\ began <= rlClock'
      BY <2>1, <2>2, <1>1
    <3> QED
      BY <2>1, <3>1, <1>1 DEF RedisCounts
  <2>3. CASE counter.expiry = rlClock'
    <3>1. ~expiring /\ counter.expiry \in Nat /\ began + Window <= rlClock'
      BY <2>1, <2>3, <1>1, TimesAssumption
    <3>2. FixedFrom(passed["redis"], 0, rlClock', MaxAllowed)
      BY <2>1, <3>1, <1>1, <1>2, <1>3, FixedStarts
    <3>3. counter' = NoCounter
      BY <2>3, <1>1
    <3>4. UpTo(MaxAllowed, counter'.count, 0) /\ counter'.expiry = Never /\ counter'.count = 0
      BY <3>3, <1>1 DEF UpTo, NoCounter
    <3> QED
      BY <3>1, <3>2, <3>4, <1>1 DEF RedisCounts
  <2> QED
    BY <2>2, <2>3
<1> QED
  BY <1>1, <1>4, <1>5, <1>6, <1>7 DEF LimitersIInv

LEMMA LimitersStart == RateLimitsInit => LimitersIInv
<1> SUFFICES ASSUME RateLimitsInit PROVE LimitersIInv
  OBVIOUS
<1>1. /\ rlClock = 0 /\ rlFaults = 0 /\ stamps = <<>> /\ windows = [t \in Tiers |-> NoWindow]
      /\ counter = NoCounter /\ expiring = FALSE /\ passed = [c \in Counts |-> <<>>]
      /\ MaxAllowed \in Nat /\ 0 \in 0 .. MaxTime
  BY LimitsAssumption, TimesAssumption DEF RateLimitsInit
<1>2. /\ passed["registration"] = <<>> /\ passed["redis"] = <<>>
      /\ \A t \in Tiers : passed[t] = <<>> /\ windows[t].count = 0
  BY <1>1 DEF Counts, NoWindow
<1>3. LimiterTypes
  <2>1. \A c \in Counts : passed[c] \in Seq(Nat) /\ Ordered(passed[c]) /\ Until(passed[c], rlClock)
    BY <1>1 DEF Ordered, Until
  <2>2. passed \in [Counts -> Seq(Nat)]
    BY <1>1, <2>1
  <2>3. windows \in [Tiers -> [count : Nat, resetAt : Nat]]
    BY <1>1 DEF NoWindow
  <2>4. counter \in [count : Nat, expiry : Nat \union {Never}]
    BY <1>1 DEF NoCounter
  <2>5. stamps \in Seq(Nat) /\ expiring \in BOOLEAN
    <3>1. <<>> \in Seq(Nat)
      OBVIOUS
    <3> QED
      BY <1>1, <3>1
  <2>6. rlFaults \in Nat /\ rlClock \in 0 .. MaxTime
    BY <1>1
  <2> QED
    BY <2>1, <2>2, <2>3, <2>4, <2>5, <2>6 DEF LimiterTypes
<1>4. SlidingFrom(passed["registration"], stamps, rlClock)
  BY <1>1, <1>2 DEF SlidingFrom, Spread
<1>5. RedisCounts
  <2>1. FixedFrom(<<>>, 0, 0, MaxAllowed) /\ UpTo(MaxAllowed, 0, 0)
    BY <1>1 DEF FixedFrom, Spread, UpTo
  <2>2. counter.count = 0 /\ counter.expiry = Never
    BY <1>1 DEF NoCounter
  <2> QED
    BY <2>1, <2>2, <1>1, <1>2 DEF RedisCounts
<1> QED
  BY <1>2, <1>3, <1>4, <1>5 DEF LimitersIInv, TierCounts

LEMMA LimitersInductive == RateLimitsSpec => []LimitersIInv
<1>1. LimitersIInv /\ [RateLimitsNext]_limitVars => LimitersIInv'
  <2> SUFFICES ASSUME LimitersIInv, [RateLimitsNext]_limitVars PROVE LimitersIInv'
    OBVIOUS
  <2>1. CASE UNCHANGED limitVars
    BY <2>1 DEF limitVars, LimitersIInv, LimiterTypes, TierCounts, RedisCounts
  <2>2. CASE RateLimitsNext
    BY <2>2, RegisterKeeps, TierKeeps, IncrKeeps, ExpireKeeps, RedisFailsKeeps,
       LimiterRestartsKeeps, LimiterTickKeeps DEF RateLimitsNext
  <2> QED
    BY <2>1, <2>2
<1> QED
  BY <1>1, LimitersStart, PTL DEF RateLimitsSpec

LEMMA AdmissionsFollow == LimitersIInv => AdmissionsAreBounded
<1> SUFFICES ASSUME LimitersIInv, NEW t \in 0 .. MaxTime
             PROVE  /\ PassedBefore("registration", t) <= MaxAllowed
                    /\ \A tier \in Tiers : PassedBefore(tier, t) <= 2 * TierLimit[tier]
                    /\ rlFaults = 0 => PassedBefore("redis", t) <= 2 * MaxAllowed
  BY DEF AdmissionsAreBounded
<1>1. /\ t \in Nat /\ MaxAllowed \in Nat /\ \A tier \in Tiers : TierLimit[tier] \in Nat
      /\ \A c \in Counts : passed[c] \in Seq(Nat) /\ Ordered(passed[c])
      /\ {"registration", "redis"} \subseteq Counts /\ Tiers \subseteq Counts
  BY LimitsAssumption DEF LimitersIInv, LimiterTypes, Counts
<1>2. ASSUME NEW c \in Counts, NEW k \in Nat, Spread(passed[c], k)
      PROVE  PassedBefore(c, t) <= k
  BY <1>1, <1>2, FewInAWindow DEF PassedBefore
<1>3. Spread(passed["registration"], MaxAllowed)
  BY DEF LimitersIInv, SlidingFrom
<1>4. ASSUME NEW tier \in Tiers PROVE Spread(passed[tier], 2 * TierLimit[tier])
  <2>1. CASE passed[tier] = <<>>
    BY <2>1 DEF Spread
  <2>2. CASE passed[tier] # <<>>
    BY <2>2 DEF LimitersIInv, TierCounts, FixedFrom
  <2> QED
    BY <2>1, <2>2
<1>5. ASSUME rlFaults = 0 PROVE Spread(passed["redis"], 2 * MaxAllowed)
  BY <1>5 DEF LimitersIInv, RedisCounts, FixedFrom
<1>6. 2 * MaxAllowed \in Nat /\ \A tier \in Tiers : 2 * TierLimit[tier] \in Nat
  BY <1>1
<1> QED
  BY <1>1, <1>2, <1>3, <1>4, <1>5, <1>6

\* For any limits, windows and tiers: wherever a Window is put, the sliding limiter
\* lets its limit through in it, a fixed one at most twice its limit, and so does
\* the counter in Redis as long as no command fails.
THEOREM AdmissionsStayBounded == RateLimitsSpec => []AdmissionsAreBounded
  BY LimitersInductive, AdmissionsFollow, PTL

-----------------------------------------------------------------------------
(***************************************************************************)
(* Migrations, for any calls, rollbacks and files: what is recorded is     *)
(* there, nothing is applied twice, and production applies no destructive  *)
(* file by accident unless two files were checked at once.                 *)
(***************************************************************************)

\* The unique key on schema_version: one transaction at a time holds a version
\* that it is about to add.
Exclusive ==
    \A c \in Calls : pc[c] = "inserted" =>
        /\ mig[c] \notin version
        /\ \A d \in Calls : pc[d] = "inserted" /\ mig[d] = mig[c] => d = c

\* A record that is there was committed once more than it was removed; one that
\* is not, at most as often.
Counted ==
    /\ \A m \in Migrations : commits[m] <= removals[m] + IF m \in version THEN 1 ELSE 0
    /\ \A c \in Calls : pc[c] \in {"applied", "success"} => commits[mig[c]] > 0
    /\ \A r \in Rollbacks : rpc[r] # "idle" => commits[target[r]] > 0

\* A pattern is left in the middle only by the check of another call's file.
StaleIsShared ==
    /\ stale => Checking \subseteq shared
    /\ environment = "production" =>
           \A c \in Calls :
               pc[c] \in {"checked", "running", "inserted", "applied", "success"} /\ IsDestructive(mig[c]) =>
                   forced[c] \/ c \in shared

\* What is recorded was recorded by a transaction, which had executed every statement.
Recorders ==
    /\ \A m \in Migrations : m \in version => recorder[m] \in Begun(m)
    /\ \A c \in Calls : pc[c] = "inserted" => done[c] = Steps

\* The effect of a statement that a transaction has executed is its own, or is in
\* the database, unless a rollback took it away meanwhile.
Effects ==
    \A c \in Calls :
        /\ pc[c] \in {"idle", "loaded", "recorded", "checked"} => done[c] = {}
        /\ c \notin undercut => \A s \in done[c] : s \in made[c] \/ <<mig[c], s>> \in objects

MigrationsIInv ==
    TypeOK /\ Exclusive /\ Counted /\ StaleIsShared /\ Recorders /\ Effects /\ RecordedIsComplete

-----------------------------------------------------------------------------
(* Type correctness.                                                       *)

LEMMA MigrationsInitially == Init => MigrationsIInv
<1> SUFFICES ASSUME Init PROVE MigrationsIInv
  OBVIOUS
<1>1. TypeOK
  BY DEF Init, TypeOK, Labels, RLabels, ExecutionStatuses, RequestStatuses, Open
<1>2. Exclusive /\ Counted
  BY DEF Init, Exclusive, Counted
<1>3. StaleIsShared
  BY DEF Init, StaleIsShared, Checking
<1>4. Recorders /\ Effects
  BY DEF Init, Recorders, Effects
<1>5. RecordedIsComplete
  BY DEF Init, RecordedIsComplete
<1> QED
  BY <1>1, <1>2, <1>3, <1>4, <1>5 DEF MigrationsIInv

LEMMA MigrationsTypeStep == TypeOK /\ [Next]_vars => TypeOK'
<1> SUFFICES ASSUME TypeOK, [Next]_vars PROVE TypeOK'
  OBVIOUS
<1> USE DEF TypeOK
<1>1. ASSUME NEW c \in Calls, NEW m \in Migrations, Load(c, m) PROVE TypeOK'
  BY <1>1 DEF Load, Goto, Labels, Open, database, undoing, approval, observed
<1>2. ASSUME NEW c \in Calls, Record(c) PROVE TypeOK'
  BY <1>2 DEF Record, Goto, Labels, Open, ExecutionStatuses, database, calls, undoing, approval, observed
<1>3. ASSUME NEW c \in Calls, Abort(c) PROVE TypeOK'
  BY <1>3 DEF Abort, Goto, Labels, Open, ExecutionStatuses, database, calls, undoing, approval, observed
<1>4. ASSUME NEW c \in Calls, Preflight(c) PROVE TypeOK'
  BY <1>4 DEF Preflight, Goto, Labels, Open, Detections, PlanLeaves, Checking, database, calls, undoing, approval, observed
<1>5. ASSUME NEW c \in Calls, DryRun(c) PROVE TypeOK'
  BY <1>5 DEF DryRun, Goto, Labels, PlanLeaves, Checking, database, calls, undoing, approval, observed
<1>6. ASSUME NEW c \in Calls, Begin(c) PROVE TypeOK'
  BY <1>6 DEF Begin, Goto, Labels, Open, ExecutionStatuses, database, calls, undoing, approval, observed
<1>7. ASSUME NEW c \in Calls, ExecuteStep(c) PROVE TypeOK'
  BY <1>7 DEF ExecuteStep, Goto, Labels, Open, ExecutionStatuses, database, calls, undoing, approval, observed
<1>8. ASSUME NEW c \in Calls, InsertVersion(c) PROVE TypeOK'
  BY <1>8 DEF InsertVersion, Goto, Labels, Open, ExecutionStatuses, database, calls, undoing, approval, observed
<1>9. ASSUME NEW c \in Calls, Commit(c) PROVE TypeOK'
  BY <1>9 DEF Commit, Goto, Labels, Open, ExecutionStatuses, database, calls, undoing, approval, observed
<1>10. ASSUME NEW c \in Calls, LogCompleted(c) PROVE TypeOK'
  BY <1>10 DEF LogCompleted, Goto, Labels, Open, ExecutionStatuses, database, calls, undoing, approval, observed
<1>11. ASSUME NEW c \in Calls, ExecutionFails(c) PROVE TypeOK'
  BY <1>11 DEF ExecutionFails, Goto, Labels, Open, ExecutionStatuses, database, calls, undoing, approval, observed
<1>12. ASSUME NEW c \in Calls, RollbackById(c) PROVE TypeOK'
  BY <1>12 DEF RollbackById, Goto, Labels, Open, ExecutionStatuses, database, calls, undoing, approval, observed
<1>13. ASSUME NEW r \in Rollbacks, NEW m \in Migrations, StartRollback(r, m) PROVE TypeOK'
  BY <1>13, StepsAssumption DEF StartRollback, RGoto, RLabels, ExecutionStatuses, database, calls, undoing, approval, observed
<1>14. ASSUME NEW r \in Rollbacks, UndoStep(r) PROVE TypeOK'
  BY <1>14 DEF UndoStep, Begun, RGoto, RLabels, database, calls, undoing, approval, observed
<1>15. ASSUME NEW r \in Rollbacks, RemoveVersion(r) PROVE TypeOK'
  BY <1>15 DEF RemoveVersion, RGoto, RLabels, ExecutionStatuses, database, calls, undoing, approval, observed
<1>16. ASSUME NEW r \in Rollbacks, NEW c \in Calls, LogRolledBack(r, c) PROVE TypeOK'
  BY <1>16 DEF LogRolledBack, RGoto, RLabels, ExecutionStatuses, database, calls, undoing, approval, observed
<1>17. ASSUME NEW r \in Rollbacks, NEW c \in Calls, RollbackFails(r, c) PROVE TypeOK'
  BY <1>17 DEF RollbackFails, RGoto, RLabels, ExecutionStatuses, database, calls, undoing, approval, observed
<1>18. ASSUME NEW q \in Requests, CreateRequest(q) PROVE TypeOK'
  BY <1>18 DEF CreateRequest, RequestStatuses, database, calls, undoing, approval, observed
<1>19. ASSUME NEW q \in Requests, ExpireRequest(q) PROVE TypeOK'
  BY <1>19 DEF ExpireRequest, RequestStatuses, database, calls, undoing, approval, observed
<1>20. ASSUME NEW q \in Requests, NEW decision \in {"approved", "rejected"}, ReadRequest(q, decision) PROVE TypeOK'
  BY <1>20 DEF ReadRequest, RequestStatuses, database, calls, undoing, approval, observed
<1>21. ASSUME NEW q \in Requests, NEW decision \in {"approved", "rejected"}, Decide(q, decision) PROVE TypeOK'
  BY <1>21 DEF Decide, RequestStatuses, database, calls, undoing, approval, observed
<1>22. ASSUME Crash PROVE TypeOK'
  BY <1>22 DEF Crash, Labels, RLabels, Open, database, approval, observed
<1>23. ASSUME UNCHANGED vars PROVE TypeOK'
  BY <1>23 DEF vars, database, calls, undoing, approval, observed
<1> QED
  BY <1>1, <1>2, <1>3, <1>4, <1>5, <1>6, <1>7, <1>8, <1>9, <1>10, <1>11, <1>12, <1>13, <1>14, <1>15, <1>16, <1>17, <1>18, <1>19, <1>20, <1>21, <1>22, <1>23 DEF Next

-----------------------------------------------------------------------------
(* The invariant.                                                          *)

\* Only the transaction that holds a version adds it.
LEMMA ExclusiveStep == TypeOK /\ Exclusive /\ [Next]_vars => Exclusive'
<1> SUFFICES ASSUME TypeOK /\ Exclusive, [Next]_vars PROVE Exclusive'
  OBVIOUS
<1> USE DEF Exclusive
<1>1. ASSUME NEW c \in Calls, NEW m \in Migrations, Load(c, m) PROVE Exclusive'
  BY <1>1 DEF Load, Goto, TypeOK, database, calls, undoing, observed
<1>2. ASSUME NEW c \in Calls, Record(c) PROVE Exclusive'
  BY <1>2 DEF Record, Goto, TypeOK, database, calls, undoing, observed
<1>3. ASSUME NEW c \in Calls, Abort(c) PROVE Exclusive'
  BY <1>3 DEF Abort, Goto, TypeOK, database, calls, undoing, observed
<1>4. ASSUME NEW c \in Calls, Preflight(c) PROVE Exclusive'
  BY <1>4 DEF Preflight, Goto, TypeOK, database, calls, undoing, observed
<1>5. ASSUME NEW c \in Calls, DryRun(c) PROVE Exclusive'
  BY <1>5 DEF DryRun, Goto, TypeOK, database, calls, undoing, observed
<1>6. ASSUME NEW c \in Calls, Begin(c) PROVE Exclusive'
  BY <1>6 DEF Begin, Goto, TypeOK, database, calls, undoing, observed
<1>7. ASSUME NEW c \in Calls, ExecuteStep(c) PROVE Exclusive'
  BY <1>7 DEF ExecuteStep, Goto, TypeOK, database, calls, undoing, observed
<1>8. ASSUME NEW c \in Calls, InsertVersion(c) PROVE Exclusive'
  BY <1>8 DEF InsertVersion, Goto, TypeOK, database, calls, undoing, observed
<1>9. ASSUME NEW c \in Calls, Commit(c) PROVE Exclusive'
  BY <1>9 DEF Commit, Goto, TypeOK, database, calls, undoing, observed
<1>10. ASSUME NEW c \in Calls, LogCompleted(c) PROVE Exclusive'
  BY <1>10 DEF LogCompleted, Goto, TypeOK, database, calls, undoing, observed
<1>11. ASSUME NEW c \in Calls, ExecutionFails(c) PROVE Exclusive'
  BY <1>11 DEF ExecutionFails, Goto, TypeOK, database, calls, undoing, observed
<1>12. ASSUME NEW c \in Calls, RollbackById(c) PROVE Exclusive'
  BY <1>12 DEF RollbackById, Goto, TypeOK, database, calls, undoing, observed
<1>13. ASSUME NEW r \in Rollbacks, NEW m \in Migrations, StartRollback(r, m) PROVE Exclusive'
  BY <1>13 DEF StartRollback, RGoto, TypeOK, database, calls, undoing, observed
<1>14. ASSUME NEW r \in Rollbacks, UndoStep(r) PROVE Exclusive'
  BY <1>14 DEF UndoStep, RGoto, TypeOK, database, calls, undoing, observed
<1>15. ASSUME NEW r \in Rollbacks, RemoveVersion(r) PROVE Exclusive'
  BY <1>15 DEF RemoveVersion, RGoto, TypeOK, database, calls, undoing, observed
<1>16. ASSUME NEW r \in Rollbacks, NEW c \in Calls, LogRolledBack(r, c) PROVE Exclusive'
  BY <1>16 DEF LogRolledBack, RGoto, TypeOK, database, calls, undoing, observed
<1>17. ASSUME NEW r \in Rollbacks, NEW c \in Calls, RollbackFails(r, c) PROVE Exclusive'
  BY <1>17 DEF RollbackFails, RGoto, TypeOK, database, calls, undoing, observed
<1>18. ASSUME NEW q \in Requests,
           \/ CreateRequest(q) \/ ExpireRequest(q)
           \/ \E decision \in {"approved", "rejected"} : ReadRequest(q, decision) \/ Decide(q, decision)
      PROVE  Exclusive'
  BY <1>18 DEF CreateRequest, ExpireRequest, ReadRequest, Decide, database, calls, undoing, observed
<1>19. ASSUME Crash PROVE Exclusive'
  BY <1>19 DEF Crash, Open, TypeOK, database, observed
<1>20. ASSUME UNCHANGED vars PROVE Exclusive'
  BY <1>20 DEF vars, database, calls, undoing, observed
<1> QED
  BY <1>1, <1>2, <1>3, <1>4, <1>5, <1>6, <1>7, <1>8, <1>9, <1>10, <1>11, <1>12, <1>13, <1>14, <1>15, <1>16, <1>17, <1>18, <1>19, <1>20 DEF Next

\* A version is added where it was missing, and removed with its count.
LEMMA CountedStep == TypeOK /\ Exclusive /\ Counted /\ [Next]_vars => Counted'
<1> SUFFICES ASSUME TypeOK /\ Exclusive /\ Counted, [Next]_vars PROVE Counted'
  OBVIOUS
<1> USE DEF Counted, Exclusive
<1>1. ASSUME NEW c \in Calls, NEW m \in Migrations, Load(c, m) PROVE Counted'
  BY <1>1 DEF Load, Goto, TypeOK, database, calls, undoing, observed
<1>2. ASSUME NEW c \in Calls, Record(c) PROVE Counted'
  BY <1>2 DEF Record, Goto, TypeOK, database, calls, undoing, observed
<1>3. ASSUME NEW c \in Calls, Abort(c) PROVE Counted'
  BY <1>3 DEF Abort, Goto, TypeOK, database, calls, undoing, observed
<1>4. ASSUME NEW c \in Calls, Preflight(c) PROVE Counted'
  BY <1>4 DEF Preflight, Goto, TypeOK, database, calls, undoing, observed
<1>5. ASSUME NEW c \in Calls, DryRun(c) PROVE Counted'
  BY <1>5 DEF DryRun, Goto, TypeOK, database, calls, undoing, observed
<1>6. ASSUME NEW c \in Calls, Begin(c) PROVE Counted'
  BY <1>6 DEF Begin, Goto, TypeOK, database, calls, undoing, observed
<1>7. ASSUME NEW c \in Calls, ExecuteStep(c) PROVE Counted'
  BY <1>7 DEF ExecuteStep, Goto, TypeOK, database, calls, undoing, observed
<1>8. ASSUME NEW c \in Calls, InsertVersion(c) PROVE Counted'
  BY <1>8 DEF InsertVersion, Goto, TypeOK, database, calls, undoing, observed
<1>9. ASSUME NEW c \in Calls, Commit(c) PROVE Counted'
  <2>1. mig[c] \in Migrations /\ mig[c] \notin version
    BY <1>9 DEF Commit, TypeOK, Open
  <2>2. /\ commits' = [commits EXCEPT ![mig[c]] = @ + 1] /\ removals' = removals
        /\ version' = version \union {mig[c]}
    BY <1>9 DEF Commit
  <2>3. \A m \in Migrations : /\ commits[m] \in Nat /\ removals[m] \in Nat
                              /\ commits'[m] = IF m = mig[c] THEN commits[m] + 1 ELSE commits[m]
    BY <2>1, <2>2 DEF TypeOK
  <2>4. \A m \in Migrations : commits'[m] <= removals'[m] + IF m \in version' THEN 1 ELSE 0
    BY <2>1, <2>2, <2>3
  <2>5. \A d \in Calls : pc'[d] \in {"applied", "success"} => commits'[mig'[d]] > 0
    <3> SUFFICES ASSUME NEW d \in Calls, pc'[d] \in {"applied", "success"} PROVE commits'[mig[d]] > 0
      BY <1>9 DEF Commit
    <3>1. mig[d] = mig[c] \/ pc[d] \in {"applied", "success"}
      BY <1>9 DEF Commit, Goto, TypeOK
    <3>2. mig[d] \in Migrations
      BY <2>1, <3>1 DEF TypeOK, Open
    <3> QED
      BY <2>3, <3>1, <3>2
  <2>6. \A r \in Rollbacks : rpc'[r] # "idle" => commits'[target'[r]] > 0
    BY <1>9, <2>3 DEF Commit, TypeOK, undoing
  <2> QED
    BY <2>4, <2>5, <2>6
<1>10. ASSUME NEW c \in Calls, LogCompleted(c) PROVE Counted'
  BY <1>10 DEF LogCompleted, Goto, TypeOK, database, calls, undoing, observed
<1>11. ASSUME NEW c \in Calls, ExecutionFails(c) PROVE Counted'
  BY <1>11 DEF ExecutionFails, Goto, TypeOK, database, calls, undoing, observed
<1>12. ASSUME NEW c \in Calls, RollbackById(c) PROVE Counted'
  BY <1>12 DEF RollbackById, Goto, TypeOK, database, calls, undoing, observed
<1>13. ASSUME NEW r \in Rollbacks, NEW m \in Migrations, StartRollback(r, m) PROVE Counted'
  BY <1>13 DEF StartRollback, RGoto, TypeOK, database, calls, undoing, observed
<1>14. ASSUME NEW r \in Rollbacks, UndoStep(r) PROVE Counted'
  BY <1>14 DEF UndoStep, RGoto, TypeOK, database, calls, undoing, observed
<1>15. ASSUME NEW r \in Rollbacks, RemoveVersion(r) PROVE Counted'
  BY <1>15 DEF RemoveVersion, RGoto, TypeOK, database, calls, undoing, observed
<1>16. ASSUME NEW r \in Rollbacks, NEW c \in Calls, LogRolledBack(r, c) PROVE Counted'
  BY <1>16 DEF LogRolledBack, RGoto, TypeOK, database, calls, undoing, observed
<1>17. ASSUME NEW r \in Rollbacks, NEW c \in Calls, RollbackFails(r, c) PROVE Counted'
  BY <1>17 DEF RollbackFails, RGoto, TypeOK, database, calls, undoing, observed
<1>18. ASSUME NEW q \in Requests,
           \/ CreateRequest(q) \/ ExpireRequest(q)
           \/ \E decision \in {"approved", "rejected"} : ReadRequest(q, decision) \/ Decide(q, decision)
      PROVE  Counted'
  BY <1>18 DEF CreateRequest, ExpireRequest, ReadRequest, Decide, database, calls, undoing, observed
<1>19. ASSUME Crash PROVE Counted'
  BY <1>19 DEF Crash, Open, TypeOK, database, observed
<1>20. ASSUME UNCHANGED vars PROVE Counted'
  BY <1>20 DEF vars, database, calls, undoing, observed
<1> QED
  BY <1>1, <1>2, <1>3, <1>4, <1>5, <1>6, <1>7, <1>8, <1>9, <1>10, <1>11, <1>12, <1>13, <1>14, <1>15, <1>16, <1>17, <1>18, <1>19, <1>20 DEF Next

\* Reading a file resets the patterns; checking one may only mislead the others that are being checked.
LEMMA StaleStep == TypeOK /\ StaleIsShared /\ [Next]_vars => StaleIsShared'
<1> SUFFICES ASSUME TypeOK /\ StaleIsShared, [Next]_vars PROVE StaleIsShared'
  OBVIOUS
<1> USE DEF StaleIsShared, Checking
<1>1. ASSUME NEW c \in Calls, NEW m \in Migrations, Load(c, m) PROVE StaleIsShared'
  BY <1>1 DEF Load, Goto, TypeOK, database, calls, undoing, observed
<1>2. ASSUME NEW c \in Calls, Record(c) PROVE StaleIsShared'
  BY <1>2 DEF Record, Goto, TypeOK, database, calls, undoing, observed
<1>3. ASSUME NEW c \in Calls, Abort(c) PROVE StaleIsShared'
  BY <1>3 DEF Abort, Goto, TypeOK, database, calls, undoing, observed
<1>4. ASSUME NEW c \in Calls, Preflight(c) PROVE StaleIsShared'
  <2>1. PICK found \in Detections(mig[c]), otherwise \in OtherChecks, force \in BOOLEAN :
            IF Critical(c, found, otherwise) /\ ~force
            THEN Goto(c, "failed") /\ stale' = found /\ UNCHANGED forced
            ELSE /\ Goto(c, "checked")
                 /\ forced' = [forced EXCEPT ![c] = force]
                 /\ stale' \in PlanLeaves(mig[c], found)
    BY <1>4 DEF Preflight
  <2>2. /\ pc[c] = "recorded" /\ shared' = shared \union (Checking \ {c})
        /\ UNCHANGED <<environment, mig>>
    BY <1>4 DEF Preflight
  <2>3. \A d \in Calls \ {c} : pc'[d] = pc[d] /\ forced'[d] = forced[d]
    BY <2>1 DEF Goto, TypeOK
  <2>4. pc'[c] = IF Critical(c, found, otherwise) /\ ~force THEN "failed" ELSE "checked"
    BY <2>1 DEF Goto, TypeOK
  <2>5. Checking' \subseteq shared'
    BY <2>2, <2>3, <2>4
  <2>6. ASSUME environment = "production", IsDestructive(mig[c]), pc'[c] = "checked"
        PROVE  forced'[c] \/ c \in shared'
    <3>1. CASE found
      BY <2>1, <2>4, <2>6, <3>1 DEF Critical, AllowDestructive, TypeOK
    <3>2. CASE ~found
      BY <2>2, <2>6, <3>2 DEF Detections
    <3> QED
      BY <3>1, <3>2
  <2> QED
    BY <2>2, <2>3, <2>4, <2>5, <2>6 DEF IsDestructive
<1>5. ASSUME NEW c \in Calls, DryRun(c) PROVE StaleIsShared'
  <2>1. /\ pc[c] = "checked" /\ shared' = shared \union (Checking \ {c})
        /\ UNCHANGED <<environment, mig, forced>>
    BY <1>5 DEF DryRun
  <2>2. pc'[c] = "dry" /\ \A d \in Calls \ {c} : pc'[d] = pc[d]
    BY <1>5 DEF DryRun, Goto, TypeOK
  <2>3. Checking' \subseteq shared'
    BY <2>1, <2>2
  <2> QED
    BY <2>1, <2>2, <2>3 DEF IsDestructive
<1>6. ASSUME NEW c \in Calls, Begin(c) PROVE StaleIsShared'
  BY <1>6 DEF Begin, Goto, TypeOK, database, calls, undoing, observed
<1>7. ASSUME NEW c \in Calls, ExecuteStep(c) PROVE StaleIsShared'
  BY <1>7 DEF ExecuteStep, Goto, TypeOK, database, calls, undoing, observed
<1>8. ASSUME NEW c \in Calls, InsertVersion(c) PROVE StaleIsShared'
  BY <1>8 DEF InsertVersion, Goto, TypeOK, database, calls, undoing, observed
<1>9. ASSUME NEW c \in Calls, Commit(c) PROVE StaleIsShared'
  BY <1>9 DEF Commit, Goto, TypeOK, database, calls, undoing, observed
<1>10. ASSUME NEW c \in Calls, LogCompleted(c) PROVE StaleIsShared'
  BY <1>10 DEF LogCompleted, Goto, TypeOK, database, calls, undoing, observed
<1>11. ASSUME NEW c \in Calls, ExecutionFails(c) PROVE StaleIsShared'
  BY <1>11 DEF ExecutionFails, Goto, TypeOK, database, calls, undoing, observed
<1>12. ASSUME NEW c \in Calls, RollbackById(c) PROVE StaleIsShared'
  BY <1>12 DEF RollbackById, Goto, TypeOK, database, calls, undoing, observed
<1>13. ASSUME NEW r \in Rollbacks, NEW m \in Migrations, StartRollback(r, m) PROVE StaleIsShared'
  BY <1>13 DEF StartRollback, RGoto, TypeOK, database, calls, undoing, observed
<1>14. ASSUME NEW r \in Rollbacks, UndoStep(r) PROVE StaleIsShared'
  BY <1>14 DEF UndoStep, RGoto, TypeOK, database, calls, undoing, observed
<1>15. ASSUME NEW r \in Rollbacks, RemoveVersion(r) PROVE StaleIsShared'
  BY <1>15 DEF RemoveVersion, RGoto, TypeOK, database, calls, undoing, observed
<1>16. ASSUME NEW r \in Rollbacks, NEW c \in Calls, LogRolledBack(r, c) PROVE StaleIsShared'
  BY <1>16 DEF LogRolledBack, RGoto, TypeOK, database, calls, undoing, observed
<1>17. ASSUME NEW r \in Rollbacks, NEW c \in Calls, RollbackFails(r, c) PROVE StaleIsShared'
  BY <1>17 DEF RollbackFails, RGoto, TypeOK, database, calls, undoing, observed
<1>18. ASSUME NEW q \in Requests,
           \/ CreateRequest(q) \/ ExpireRequest(q)
           \/ \E decision \in {"approved", "rejected"} : ReadRequest(q, decision) \/ Decide(q, decision)
      PROVE  StaleIsShared'
  <2>1. UNCHANGED <<environment, pc, mig, forced, shared>> /\ stale' \in {FALSE, stale}
    BY <1>18 DEF CreateRequest, ExpireRequest, ReadRequest, Decide, calls, observed
  <2>2. stale' => stale
    BY <2>1
  <2> QED
    BY <2>1, <2>2 DEF IsDestructive
<1>19. ASSUME Crash PROVE StaleIsShared'
  BY <1>19 DEF Crash, Open, TypeOK, database, observed
<1>20. ASSUME UNCHANGED vars PROVE StaleIsShared'
  BY <1>20 DEF vars, database, calls, undoing, observed
<1> QED
  BY <1>1, <1>2, <1>3, <1>4, <1>5, <1>6, <1>7, <1>8, <1>9, <1>10, <1>11, <1>12, <1>13, <1>14, <1>15, <1>16, <1>17, <1>18, <1>19, <1>20 DEF Next

\* A version is added by a call that has begun, after its last statement.
LEMMA RecordersStep == TypeOK /\ Recorders /\ [Next]_vars => Recorders'
<1> SUFFICES ASSUME TypeOK /\ Recorders, [Next]_vars PROVE Recorders'
  OBVIOUS
<1> USE DEF Recorders, Begun
<1>1. ASSUME NEW c \in Calls, NEW m \in Migrations, Load(c, m) PROVE Recorders'
  BY <1>1 DEF Load, Goto, TypeOK, database, calls, undoing, observed
<1>2. ASSUME NEW c \in Calls, Record(c) PROVE Recorders'
  BY <1>2 DEF Record, Goto, TypeOK, database, calls, undoing, observed
<1>3. ASSUME NEW c \in Calls, Abort(c) PROVE Recorders'
  BY <1>3 DEF Abort, Goto, TypeOK, database, calls, undoing, observed
<1>4. ASSUME NEW c \in Calls, Preflight(c) PROVE Recorders'
  BY <1>4 DEF Preflight, Goto, TypeOK, database, calls, undoing, observed
<1>5. ASSUME NEW c \in Calls, DryRun(c) PROVE Recorders'
  BY <1>5 DEF DryRun, Goto, TypeOK, database, calls, undoing, observed
<1>6. ASSUME NEW c \in Calls, Begin(c) PROVE Recorders'
  BY <1>6 DEF Begin, Goto, TypeOK, database, calls, undoing, observed
<1>7. ASSUME NEW c \in Calls, ExecuteStep(c) PROVE Recorders'
  BY <1>7 DEF ExecuteStep, Goto, TypeOK, database, calls, undoing, observed
<1>8. ASSUME NEW c \in Calls, InsertVersion(c) PROVE Recorders'
  BY <1>8 DEF InsertVersion, Goto, TypeOK, database, calls, undoing, observed
<1>9. ASSUME NEW c \in Calls, Commit(c) PROVE Recorders'
  <2>1. /\ pc[c] = "inserted" /\ mig[c] \in Migrations /\ version' = version \union {mig[c]}
        /\ pc' = [pc EXCEPT ![c] = "applied"] /\ mig' = mig /\ done' = done
    BY <1>9 DEF Commit, Goto, TypeOK, Open
  <2>2. recorder' = [recorder EXCEPT ![mig[c]] = c]
    BY <1>9 DEF Commit
  <2>3. \A d \in Calls : pc'[d] = IF d = c THEN "applied" ELSE pc[d]
    BY <2>1 DEF TypeOK
  <2>4. \A m \in Migrations : recorder'[m] = IF m = mig[c] THEN c ELSE recorder[m]
    BY <2>1, <2>2 DEF TypeOK
  <2>5. \A m \in Migrations : m \in version' => recorder'[m] \in Begun(m)'
    BY <2>1, <2>3, <2>4
  <2> QED
    BY <2>1, <2>3, <2>5
<1>10. ASSUME NEW c \in Calls, LogCompleted(c) PROVE Recorders'
  BY <1>10 DEF LogCompleted, Goto, TypeOK, database, calls, undoing, observed
<1>11. ASSUME NEW c \in Calls, ExecutionFails(c) PROVE Recorders'
  BY <1>11 DEF ExecutionFails, Goto, TypeOK, database, calls, undoing, observed
<1>12. ASSUME NEW c \in Calls, RollbackById(c) PROVE Recorders'
  BY <1>12 DEF RollbackById, Goto, TypeOK, database, calls, undoing, observed
<1>13. ASSUME NEW r \in Rollbacks, NEW m \in Migrations, StartRollback(r, m) PROVE Recorders'
  BY <1>13 DEF StartRollback, RGoto, TypeOK, database, calls, undoing, observed
<1>14. ASSUME NEW r \in Rollbacks, UndoStep(r) PROVE Recorders'
  BY <1>14 DEF UndoStep, RGoto, TypeOK, database, calls, undoing, observed
<1>15. ASSUME NEW r \in Rollbacks, RemoveVersion(r) PROVE Recorders'
  BY <1>15 DEF RemoveVersion, RGoto, TypeOK, database, calls, undoing, observed
<1>16. ASSUME NEW r \in Rollbacks, NEW c \in Calls, LogRolledBack(r, c) PROVE Recorders'
  BY <1>16 DEF LogRolledBack, RGoto, TypeOK, database, calls, undoing, observed
<1>17. ASSUME NEW r \in Rollbacks, NEW c \in Calls, RollbackFails(r, c) PROVE Recorders'
  BY <1>17 DEF RollbackFails, RGoto, TypeOK, database, calls, undoing, observed
<1>18. ASSUME NEW q \in Requests,
           \/ CreateRequest(q) \/ ExpireRequest(q)
           \/ \E decision \in {"approved", "rejected"} : ReadRequest(q, decision) \/ Decide(q, decision)
      PROVE  Recorders'
  BY <1>18 DEF CreateRequest, ExpireRequest, ReadRequest, Decide, database, calls, undoing, observed
<1>19. ASSUME Crash PROVE Recorders'
  BY <1>19 DEF Crash, Open, TypeOK, database, observed
<1>20. ASSUME UNCHANGED vars PROVE Recorders'
  BY <1>20 DEF vars, database, calls, undoing, observed
<1> QED
  BY <1>1, <1>2, <1>3, <1>4, <1>5, <1>6, <1>7, <1>8, <1>9, <1>10, <1>11, <1>12, <1>13, <1>14, <1>15, <1>16, <1>17, <1>18, <1>19, <1>20 DEF Next

\* An effect is taken away only by a rollback, which undercuts whoever relied on it.
LEMMA EffectsStep == TypeOK /\ Effects /\ [Next]_vars => Effects'
<1> SUFFICES ASSUME TypeOK /\ Effects, [Next]_vars PROVE Effects'
  OBVIOUS
<1> USE DEF Effects
<1>1. ASSUME NEW c \in Calls, NEW m \in Migrations, Load(c, m) PROVE Effects'
  BY <1>1 DEF Load, Goto, TypeOK, database, calls, undoing, observed
<1>2. ASSUME NEW c \in Calls, Record(c) PROVE Effects'
  BY <1>2 DEF Record, Goto, TypeOK, database, calls, undoing, observed
<1>3. ASSUME NEW c \in Calls, Abort(c) PROVE Effects'
  BY <1>3 DEF Abort, Goto, TypeOK, database, calls, undoing, observed
<1>4. ASSUME NEW c \in Calls, Preflight(c) PROVE Effects'
  BY <1>4 DEF Preflight, Goto, TypeOK, database, calls, undoing, observed
<1>5. ASSUME NEW c \in Calls, DryRun(c) PROVE Effects'
  BY <1>5 DEF DryRun, Goto, TypeOK, database, calls, undoing, observed
<1>6. ASSUME NEW c \in Calls, Begin(c) PROVE Effects'
  <2>1. pc[c] = "checked" /\ pc' = [pc EXCEPT ![c] = "running"] /\ UNCHANGED <<mig, done, made, objects, undercut>>
    BY <1>6 DEF Begin, Goto, database, observed
  <2> QED
    BY <2>1 DEF TypeOK
<1>7. ASSUME NEW c \in Calls, ExecuteStep(c) PROVE Effects'
  <2>1. PICK s \in Steps : /\ done' = [done EXCEPT ![c] = @ \union {s}]
                            /\ made' = [made EXCEPT ![c] = IF <<mig[c], s>> \in objects THEN @ ELSE @ \union {s}]
    BY <1>7 DEF ExecuteStep
  <2>2. UNCHANGED <<pc, mig, objects, undercut>>
    BY <1>7 DEF ExecuteStep, database, observed
  <2>0. pc[c] = "running"
    BY <1>7 DEF ExecuteStep
  <2>3. done'[c] = done[c] \union {s} /\ \A d \in Calls \ {c} : done'[d] = done[d]
    BY <2>1 DEF TypeOK
  <2>4. made[c] \subseteq made'[c] /\ (<<mig[c], s>> \in objects \/ s \in made'[c])
        /\ \A d \in Calls \ {c} : made'[d] = made[d]
    BY <2>1 DEF TypeOK
  <2>5. ASSUME NEW d \in Calls \ {c}
        PROVE  /\ pc'[d] \in {"idle", "loaded", "recorded", "checked"} => done'[d] = {}
               /\ d \notin undercut' => \A t \in done'[d] : t \in made'[d] \/ <<mig'[d], t>> \in objects'
    BY <2>2, <2>3, <2>4
  <2>6. c \notin undercut' => \A t \in done'[c] : t \in made'[c] \/ <<mig'[c], t>> \in objects'
    BY <2>2, <2>3, <2>4
  <2> QED
    BY <2>0, <2>2, <2>5, <2>6
<1>8. ASSUME NEW c \in Calls, InsertVersion(c) PROVE Effects'
  BY <1>8 DEF InsertVersion, Goto, TypeOK, database, calls, undoing, observed
<1>9. ASSUME NEW c \in Calls, Commit(c) PROVE Effects'
  <2>1. /\ pc' = [pc EXCEPT ![c] = "applied"] /\ objects \subseteq objects'
        /\ UNCHANGED <<mig, done, made, undercut>>
    BY <1>9 DEF Commit, Goto
  <2> QED
    BY <2>1 DEF TypeOK
<1>10. ASSUME NEW c \in Calls, LogCompleted(c) PROVE Effects'
  BY <1>10 DEF LogCompleted, Goto, TypeOK, database, calls, undoing, observed
<1>11. ASSUME NEW c \in Calls, ExecutionFails(c) PROVE Effects'
  BY <1>11 DEF ExecutionFails, Goto, TypeOK, database, calls, undoing, observed
<1>12. ASSUME NEW c \in Calls, RollbackById(c) PROVE Effects'
  BY <1>12 DEF RollbackById, Goto, TypeOK, database, calls, undoing, observed
<1>13. ASSUME NEW r \in Rollbacks, NEW m \in Migrations, StartRollback(r, m) PROVE Effects'
  BY <1>13 DEF StartRollback, RGoto, TypeOK, database, calls, undoing, observed
<1>14. ASSUME NEW r \in Rollbacks, UndoStep(r) PROVE Effects'
  <2>1. PICK s \in Steps : objects' = objects \ {<<target[r], s>>}
    BY <1>14 DEF UndoStep, TypeOK
  <2>2. undercut' = undercut \union Begun(target[r]) /\ UNCHANGED <<pc, mig, done, made>>
    BY <1>14 DEF UndoStep, calls
  <2> SUFFICES ASSUME NEW c \in Calls, c \notin undercut', NEW t \in done[c]
               PROVE  t \in made[c] \/ <<mig[c], t>> \in objects'
    BY <2>2
  <2>3. mig[c] # target[r] /\ c \notin undercut
    BY <2>2 DEF Begun
  <2> QED
    BY <2>1, <2>3
<1>15. ASSUME NEW r \in Rollbacks, RemoveVersion(r) PROVE Effects'
  BY <1>15 DEF RemoveVersion, RGoto, TypeOK, database, calls, undoing, observed
<1>16. ASSUME NEW r \in Rollbacks, NEW c \in Calls, LogRolledBack(r, c) PROVE Effects'
  BY <1>16 DEF LogRolledBack, RGoto, TypeOK, database, calls, undoing, observed
<1>17. ASSUME NEW r \in Rollbacks, NEW c \in Calls, RollbackFails(r, c) PROVE Effects'
  BY <1>17 DEF RollbackFails, RGoto, TypeOK, database, calls, undoing, observed
<1>18. ASSUME NEW q \in Requests,
           \/ CreateRequest(q) \/ ExpireRequest(q)
           \/ \E decision \in {"approved", "rejected"} : ReadRequest(q, decision) \/ Decide(q, decision)
      PROVE  Effects'
  BY <1>18 DEF CreateRequest, ExpireRequest, ReadRequest, Decide, database, calls, undoing, observed
<1>19. ASSUME Crash PROVE Effects'
  BY <1>19 DEF Crash, Open, TypeOK, database, observed
<1>20. ASSUME UNCHANGED vars PROVE Effects'
  BY <1>20 DEF vars, database, calls, undoing, observed
<1> QED
  BY <1>1, <1>2, <1>3, <1>4, <1>5, <1>6, <1>7, <1>8, <1>9, <1>10, <1>11, <1>12, <1>13, <1>14, <1>15, <1>16, <1>17, <1>18, <1>19, <1>20 DEF Next

\* Records and effects change together, except under a rollback.
LEMMA CompleteStep == TypeOK /\ Exclusive /\ Counted /\ Recorders /\ Effects /\ RecordedIsComplete /\ [Next]_vars => RecordedIsComplete'
<1> SUFFICES ASSUME TypeOK /\ Exclusive /\ Counted /\ Recorders /\ Effects /\ RecordedIsComplete, [Next]_vars PROVE RecordedIsComplete'
  OBVIOUS
<1> USE DEF RecordedIsComplete, Counted, Exclusive, Recorders, Effects
<1>1. ASSUME NEW c \in Calls, NEW m \in Migrations, Load(c, m) PROVE RecordedIsComplete'
  BY <1>1 DEF Load, Goto, TypeOK, database, calls, undoing, observed
<1>2. ASSUME NEW c \in Calls, Record(c) PROVE RecordedIsComplete'
  BY <1>2 DEF Record, Goto, TypeOK, database, calls, undoing, observed
<1>3. ASSUME NEW c \in Calls, Abort(c) PROVE RecordedIsComplete'
  BY <1>3 DEF Abort, Goto, TypeOK, database, calls, undoing, observed
<1>4. ASSUME NEW c \in Calls, Preflight(c) PROVE RecordedIsComplete'
  BY <1>4 DEF Preflight, Goto, TypeOK, database, calls, undoing, observed
<1>5. ASSUME NEW c \in Calls, DryRun(c) PROVE RecordedIsComplete'
  BY <1>5 DEF DryRun, Goto, TypeOK, database, calls, undoing, observed
<1>6. ASSUME NEW c \in Calls, Begin(c) PROVE RecordedIsComplete'
  BY <1>6 DEF Begin, Goto, TypeOK, database, calls, undoing, observed
<1>7. ASSUME NEW c \in Calls, ExecuteStep(c) PROVE RecordedIsComplete'
  BY <1>7 DEF ExecuteStep, Goto, TypeOK, database, calls, undoing, observed
<1>8. ASSUME NEW c \in Calls, InsertVersion(c) PROVE RecordedIsComplete'
  BY <1>8 DEF InsertVersion, Goto, TypeOK, database, calls, undoing, observed
<1>9. ASSUME NEW c \in Calls, Commit(c) PROVE RecordedIsComplete'
  <2>1. /\ pc[c] = "inserted" /\ mig[c] \in Migrations /\ done[c] = Steps
        /\ c \in undercut \/ \A s \in Steps : s \in made[c] \/ <<mig[c], s>> \in objects
    BY <1>9 DEF Commit, TypeOK, Open
  <2>2. /\ version' = version \union {mig[c]} /\ undercut' = undercut
        /\ objects' = objects \union ({mig[c]} \X made[c])
    BY <1>9 DEF Commit
  <2>3. \A m \in Migrations : /\ recorder'[m] = IF m = mig[c] THEN c ELSE recorder[m]
                              /\ commits'[m] = IF m = mig[c] THEN commits[m] + 1 ELSE commits[m]
    BY <1>9, <2>1 DEF Commit, TypeOK
  <2>4. \A m \in Migrations : m # mig[c] =>
            \A s \in Steps : <<m, s>> \in objects' <=> <<m, s>> \in objects
    BY <2>2
  <2>5. c \in undercut' \/ \A s \in Steps : <<mig[c], s>> \in objects'
    BY <2>1, <2>2
  <2>6. commits[mig[c]] \in Nat
    BY <2>1 DEF TypeOK
  <2> SUFFICES ASSUME NEW m \in Migrations
               PROVE  /\ m \in version' => (\A s \in Steps : <<m, s>> \in objects') \/ recorder'[m] \in undercut'
                      /\ commits'[m] = 0 => \A s \in Steps : <<m, s>> \notin objects'
    OBVIOUS
  <2>7. CASE m = mig[c]
    BY <2>3, <2>5, <2>6, <2>7
  <2>8. CASE m # mig[c]
    BY <2>2, <2>3, <2>4, <2>8
  <2> QED
    BY <2>7, <2>8
<1>10. ASSUME NEW c \in Calls, LogCompleted(c) PROVE RecordedIsComplete'
  BY <1>10 DEF LogCompleted, Goto, TypeOK, database, calls, undoing, observed
<1>11. ASSUME NEW c \in Calls, ExecutionFails(c) PROVE RecordedIsComplete'
  BY <1>11 DEF ExecutionFails, Goto, TypeOK, database, calls, undoing, observed
<1>12. ASSUME NEW c \in Calls, RollbackById(c) PROVE RecordedIsComplete'
  BY <1>12 DEF RollbackById, Goto, TypeOK, database, calls, undoing, observed
<1>13. ASSUME NEW r \in Rollbacks, NEW m \in Migrations, StartRollback(r, m) PROVE RecordedIsComplete'
  BY <1>13 DEF StartRollback, RGoto, TypeOK, database, calls, undoing, observed
<1>14. ASSUME NEW r \in Rollbacks, UndoStep(r) PROVE RecordedIsComplete'
  <2>1. PICK s \in Steps : objects' = objects \ {<<target[r], s>>}
    BY <1>14 DEF UndoStep, TypeOK
  <2>2. /\ undercut' = undercut \union Begun(target[r])
        /\ UNCHANGED <<version, recorder, commits>>
    BY <1>14 DEF UndoStep
  <2> SUFFICES ASSUME NEW m \in Migrations
               PROVE  /\ m \in version => (\A t \in Steps : <<m, t>> \in objects') \/ recorder[m] \in undercut'
                      /\ commits[m] = 0 => \A t \in Steps : <<m, t>> \notin objects'
    BY <2>2
  <2>3. CASE m = target[r]
    BY <2>1, <2>2, <2>3
  <2>4. CASE m # target[r]
    BY <2>1, <2>2, <2>4
  <2> QED
    BY <2>3, <2>4
<1>15. ASSUME NEW r \in Rollbacks, RemoveVersion(r) PROVE RecordedIsComplete'
  BY <1>15 DEF RemoveVersion, RGoto, TypeOK, database, calls, undoing, observed
<1>16. ASSUME NEW r \in Rollbacks, NEW c \in Calls, LogRolledBack(r, c) PROVE RecordedIsComplete'
  BY <1>16 DEF LogRolledBack, RGoto, TypeOK, database, calls, undoing, observed
<1>17. ASSUME NEW r \in Rollbacks, NEW c \in Calls, RollbackFails(r, c) PROVE RecordedIsComplete'
  BY <1>17 DEF RollbackFails, RGoto, TypeOK, database, calls, undoing, observed
<1>18. ASSUME NEW q \in Requests,
           \/ CreateRequest(q) \/ ExpireRequest(q)
           \/ \E decision \in {"approved", "rejected"} : ReadRequest(q, decision) \/ Decide(q, decision)
      PROVE  RecordedIsComplete'
  BY <1>18 DEF CreateRequest, ExpireRequest, ReadRequest, Decide, database, calls, undoing, observed
<1>19. ASSUME Crash PROVE RecordedIsComplete'
  BY <1>19 DEF Crash, Open, TypeOK, database, observed
<1>20. ASSUME UNCHANGED vars PROVE RecordedIsComplete'
  BY <1>20 DEF vars, database, calls, undoing, observed
<1> QED
  BY <1>1, <1>2, <1>3, <1>4, <1>5, <1>6, <1>7, <1>8, <1>9, <1>10, <1>11, <1>12, <1>13, <1>14, <1>15, <1>16, <1>17, <1>18, <1>19, <1>20 DEF Next

-----------------------------------------------------------------------------
\* The invariant is kept by every step.
THEOREM MigrationsInductive == Spec => []MigrationsIInv
<1>1. MigrationsIInv /\ [Next]_vars => MigrationsIInv'
  BY MigrationsTypeStep, ExclusiveStep, CountedStep, StaleStep, RecordersStep, EffectsStep, CompleteStep DEF MigrationsIInv
<1> QED
  BY MigrationsInitially, <1>1, PTL DEF Spec

\* Every variable stays in its type.
THEOREM MigrationsAreTyped == Spec => []TypeOK
<1>1. MigrationsIInv => TypeOK
  BY DEF MigrationsIInv
<1> QED
  BY MigrationsInductive, <1>1, PTL

\* performExecution's one transaction and the unique key of schema_version: what is
\* recorded has all its statements applied, whatever fails or crashes, unless a
\* rollback undid one after the recording transaction had begun.
THEOREM RecordsAreComplete == Spec => []RecordedIsComplete
<1>1. MigrationsIInv => RecordedIsComplete
  BY DEF MigrationsIInv
<1> QED
  BY MigrationsInductive, <1>1, PTL

\* Two executions of the same file never both commit, unless a rollback came between.
THEOREM MigrationsApplyOnce == Spec => []AppliedOnce
<1>1. MigrationsIInv => AppliedOnce
  BY DEF MigrationsIInv, TypeOK, Counted, AppliedOnce
<1> QED
  BY MigrationsInductive, <1>1, PTL

\* checkDestructiveOperations stops a destructive file in production, although its
\* patterns remember where they stopped, unless another file was checked, or planned
\* again by a dry run, at once.
THEOREM ProductionIsProtected == Spec => []DestructiveIsStopped
<1>1. MigrationsIInv => DestructiveIsStopped
  BY DEF MigrationsIInv, StaleIsShared, DestructiveIsStopped, IsDestructive
<1> QED
  BY MigrationsInductive, <1>1, PTL

-----------------------------------------------------------------------------
(***************************************************************************)
(* Recovery points and alerts: while a key is cooling, its last alert is   *)
(* as old as the time that the cooldown has already run.                   *)
(***************************************************************************)

PointStates == {"none", "making", "stored", "deleted"}
RestoreStates == {"idle", "found", "error", "failed"}

MonitorTypes ==
    /\ point \in [Points -> PointStates] /\ age \in [Points -> Nat] /\ failedBackup \subseteq Points
    /\ epc \in [Restores -> RestoreStates] /\ source \in [Restores -> Points]
    /\ cooling \in [Keys -> Nat] /\ since \in [Keys -> Nat]

CoolingIsRecent == \A k \in Keys : cooling[k] > 0 => since[k] + cooling[k] = Cooldown

MonitorIInv == MonitorTypes /\ CoolingIsRecent /\ UnhealthyIsAlerted /\ PointsAreKept

\* An alert of a key is raised unless a recent one keeps it back.
LEMMA AlertIsRecent ==
    ASSUME MonitorTypes, CoolingIsRecent, NEW k \in Keys, CreateAlert(k)
    PROVE  /\ cooling' \in [Keys -> Nat] /\ since' \in [Keys -> Nat] /\ CoolingIsRecent'
           /\ since'[k] < Cooldown
           /\ \A j \in Keys : j # k => since'[j] = since[j]
<1>1. CASE cooling[k] > 0
  <2>1. UNCHANGED <<cooling, since>>
    BY <1>1 DEF CreateAlert, alerts
  <2>2. since[k] + cooling[k] = Cooldown /\ since[k] \in Nat /\ cooling[k] \in Nat
    BY <1>1 DEF CoolingIsRecent, MonitorTypes
  <2>3. CoolingIsRecent'
    BY <2>1 DEF CoolingIsRecent
  <2> QED
    BY <1>1, <2>1, <2>2, <2>3 DEF MonitorTypes
<1>2. CASE ~(cooling[k] > 0)
  <2>1. cooling' = [cooling EXCEPT ![k] = Cooldown] /\ since' = [since EXCEPT ![k] = 0]
    BY <1>2 DEF CreateAlert
  <2>2. /\ cooling' \in [Keys -> Nat] /\ since' \in [Keys -> Nat]
        /\ cooling'[k] = Cooldown /\ since'[k] = 0 /\ Cooldown \in Nat /\ 0 < Cooldown
        /\ \A j \in Keys : j # k => cooling'[j] = cooling[j] /\ since'[j] = since[j]
    BY <2>1, PeriodsAssumption DEF MonitorTypes
  <2>3. ASSUME NEW j \in Keys, cooling'[j] > 0 PROVE since'[j] + cooling'[j] = Cooldown
    <3>1. CASE j = k
      BY <2>2, <3>1
    <3>2. CASE j # k
      BY <2>2, <2>3, <3>2 DEF CoolingIsRecent
    <3> QED
      BY <3>1, <3>2
  <2>4. CoolingIsRecent'
    BY <2>3 DEF CoolingIsRecent
  <2> QED
    BY <2>2, <2>4
<1> QED
  BY <1>1, <1>2

LEMMA MonitorInductive == MonitorIInv /\ [MonitorNext]_monitorVars => MonitorIInv'
<1> SUFFICES ASSUME MonitorIInv, [MonitorNext]_monitorVars PROVE MonitorIInv'
  OBVIOUS
<1>1. MonitorTypes /\ CoolingIsRecent /\ UnhealthyIsAlerted /\ PointsAreKept
  BY DEF MonitorIInv
<1>2. ASSUME NEW p \in Points, CreatePoint(p) \/ StartBackup(p) \/ WriteBackup(p) PROVE MonitorIInv'
  <2>1. /\ point' = [point EXCEPT ![p] = "stored"] \/ point' = [point EXCEPT ![p] = "making"]
        /\ UNCHANGED <<age, failedBackup, epc, source, health, cooling, since>>
    BY <1>2 DEF CreatePoint, StartBackup, WriteBackup, alerts
  <2>2. point' \in [Points -> PointStates] /\ \A q \in Points : point'[q] = "deleted" => point[q] = "deleted"
    BY <1>1, <2>1 DEF MonitorTypes, PointStates
  <2>3. PointsAreKept'
    BY <1>1, <2>1, <2>2 DEF PointsAreKept
  <2> QED
    BY <1>1, <2>1, <2>2, <2>3 DEF MonitorIInv, MonitorTypes, CoolingIsRecent, UnhealthyIsAlerted
<1>3. ASSUME NEW p \in Points, BackupFails(p) PROVE MonitorIInv'
  <2>1. /\ point' = [point EXCEPT ![p] = "deleted"] \/ point' = [point EXCEPT ![p] = "stored"]
        /\ failedBackup' = failedBackup \union {p}
        /\ UNCHANGED <<age, epc, source, health, cooling, since>>
    BY <1>3 DEF BackupFails, alerts
  <2>2. point' \in [Points -> PointStates] /\ \A q \in Points : point'[q] = "deleted" => point[q] = "deleted" \/ q = p
    BY <1>1, <2>1 DEF MonitorTypes, PointStates
  <2>3. PointsAreKept'
    BY <1>1, <2>1, <2>2 DEF PointsAreKept
  <2> QED
    BY <1>1, <2>1, <2>2, <2>3 DEF MonitorIInv, MonitorTypes, CoolingIsRecent, UnhealthyIsAlerted
<1>4. ASSUME NEW r \in Restores, FindPoint(r) \/ Restore(r) PROVE MonitorIInv'
  <2>1. /\ \E s \in RestoreStates : epc' = [epc EXCEPT ![r] = s]
        /\ UNCHANGED <<point, age, failedBackup, source, health, cooling, since>>
    <3>1. CASE FindPoint(r)
      BY <3>1 DEF FindPoint, RestoreStates, store, alerts
    <3>2. CASE Restore(r)
      BY <3>2 DEF Restore, ChecksumMatches, RestoreStates, store, alerts
    <3> QED
      BY <1>4, <3>1, <3>2
  <2> QED
    BY <1>1, <2>1 DEF MonitorIInv, MonitorTypes, CoolingIsRecent, UnhealthyIsAlerted, PointsAreKept
<1>5. ASSUME HealthCheck PROVE MonitorIInv'
  <2> DEFINE taken == OlderThan(CleanupDays)
  <2>1. /\ Delete(taken)
        /\ IF health' = "healthy" THEN UNCHANGED alerts ELSE CreateAlert(HealthKey)
        /\ UNCHANGED <<age, failedBackup, epc, source>>
    BY <1>5 DEF HealthCheck
  <2>2. point' \in [Points -> PointStates] /\ \A q \in Points : point'[q] = "deleted" => point[q] = "deleted" \/ age[q] > CleanupDays
    BY <1>1, <2>1 DEF Delete, OlderThan, MonitorTypes, PointStates
  <2>3. PointsAreKept'
    BY <1>1, <2>1, <2>2 DEF PointsAreKept
  <2>4. cooling' \in [Keys -> Nat] /\ since' \in [Keys -> Nat] /\ CoolingIsRecent' /\ UnhealthyIsAlerted'
    <3>1. HealthKey \in Keys
      BY DEF Keys
    <3>2. CASE health' = "healthy"
      BY <1>1, <2>1, <3>2 DEF alerts, MonitorTypes, CoolingIsRecent, UnhealthyIsAlerted
    <3>3. CASE health' # "healthy"
      BY <1>1, <2>1, <3>1, <3>3, AlertIsRecent DEF UnhealthyIsAlerted
    <3> QED
      BY <3>2, <3>3
  <2> QED
    BY <1>1, <2>1, <2>2, <2>3, <2>4 DEF MonitorIInv, MonitorTypes
<1>6. ASSUME NEW k \in Keys \ {HealthKey}, RecordEvent(k) PROVE MonitorIInv'
  <2>1. CreateAlert(k) /\ UNCHANGED <<point, age, failedBackup, epc, source, health>>
    BY <1>6 DEF RecordEvent, store
  <2>2. cooling' \in [Keys -> Nat] /\ since' \in [Keys -> Nat] /\ CoolingIsRecent' /\ since'[HealthKey] = since[HealthKey]
    BY <1>1, <1>6, <2>1, AlertIsRecent DEF Keys
  <2> QED
    BY <1>1, <2>1, <2>2 DEF MonitorIInv, MonitorTypes, UnhealthyIsAlerted, PointsAreKept
<1>7. ASSUME NEW k \in Keys, ResolveAlert(k) PROVE MonitorIInv'
  <2>1. UNCHANGED <<point, age, failedBackup, epc, source, health, cooling, since>>
    BY <1>7 DEF ResolveAlert, store
  <2> QED
    BY <1>1, <2>1 DEF MonitorIInv, MonitorTypes, CoolingIsRecent, UnhealthyIsAlerted, PointsAreKept
<1>8. ASSUME Minute PROVE MonitorIInv'
  <2>1. /\ health' = "none" /\ cooling' = [k \in Keys |-> AtLeastOne(cooling[k])]
        /\ since' = [k \in Keys |-> IF since[k] > Cooldown THEN since[k] ELSE since[k] + 1]
        /\ UNCHANGED <<point, age, failedBackup, epc, source>>
    BY <1>8 DEF Minute, store
  <2>2. \A n \in Nat : AtLeastOne(n) \in Nat /\ (AtLeastOne(n) > 0 => n > 0 /\ AtLeastOne(n) = n - 1)
    BY DEF AtLeastOne
  <2>3. Cooldown \in Nat /\ \A k \in Keys : cooling[k] \in Nat /\ since[k] \in Nat
    BY <1>1, PeriodsAssumption DEF MonitorTypes
  <2>4. cooling' \in [Keys -> Nat] /\ since' \in [Keys -> Nat]
    BY <2>1, <2>2, <2>3
  <2>5. ASSUME NEW k \in Keys, cooling'[k] > 0 PROVE since'[k] + cooling'[k] = Cooldown
    <3>1. cooling[k] > 0 /\ cooling'[k] = cooling[k] - 1
      BY <2>1, <2>2, <2>3, <2>5
    <3>2. since[k] + cooling[k] = Cooldown
      BY <1>1, <3>1 DEF CoolingIsRecent
    <3>3. ~(since[k] > Cooldown)
      BY <2>3, <3>2
    <3>4. since'[k] = since[k] + 1
      BY <2>1, <3>3
    <3> QED
      BY <2>3, <3>1, <3>2, <3>4
  <2> QED
    BY <1>1, <2>1, <2>4, <2>5 DEF MonitorIInv, MonitorTypes, CoolingIsRecent, UnhealthyIsAlerted, PointsAreKept
<1>9. ASSUME Day PROVE MonitorIInv'
  <2>1. /\ health' = "none" /\ cooling' = [k \in Keys |-> 0] /\ since' = [k \in Keys |-> Cooldown + 1]
        /\ age' = [p \in Points |-> IF point[p] \in {"making", "stored"} /\ age[p] < OldestAge THEN age[p] + 1 ELSE age[p]]
        /\ UNCHANGED <<point, failedBackup, epc, source>>
    BY <1>9 DEF Day
  <2>2. age' \in [Points -> Nat] /\ \A p \in Points : point[p] = "deleted" => age'[p] = age[p]
    BY <1>1, <2>1 DEF MonitorTypes
  <2>3. cooling' \in [Keys -> Nat] /\ since' \in [Keys -> Nat] /\ CoolingIsRecent' /\ UnhealthyIsAlerted'
    BY <2>1, PeriodsAssumption DEF CoolingIsRecent, UnhealthyIsAlerted
  <2>4. PointsAreKept'
    BY <1>1, <2>1, <2>2 DEF PointsAreKept
  <2> QED
    BY <1>1, <2>1, <2>2, <2>3, <2>4 DEF MonitorIInv, MonitorTypes
<1>10. CASE UNCHANGED monitorVars
  <2>1. UNCHANGED <<point, age, failedBackup, epc, source, health, cooling, since>>
    BY <1>10 DEF monitorVars, store, alerts
  <2> QED
    BY <1>1, <2>1 DEF MonitorIInv, MonitorTypes, CoolingIsRecent, UnhealthyIsAlerted, PointsAreKept
<1> QED
  BY <1>2, <1>3, <1>4, <1>5, <1>6, <1>7, <1>8, <1>9, <1>10 DEF MonitorNext

\* For any recovery points, rollbacks and alerted migrations, and any periods: a
\* minute that was not healthy has an alert younger than the cooldown, an emergency
\* rollback answers success only if it restored its point, and a point is there for
\* as long as the cleanup keeps it, unless its backup failed.
THEOREM MonitoringStaysSound == MonitorSpec => []MonitoringIsSound
<1>1. MonitorInit => MonitorIInv
  BY PeriodsAssumption DEF MonitorInit, MonitorIInv, MonitorTypes, PointStates, RestoreStates, CoolingIsRecent,
                           UnhealthyIsAlerted, PointsAreKept
<1>2. MonitorIInv => MonitoringIsSound
  <2>1. MonitorIInv => SuccessMeansRestored
    BY DEF MonitorIInv, MonitorTypes, RestoreStates, SuccessMeansRestored
  <2> QED
    BY <2>1 DEF MonitorIInv, MonitoringIsSound
<1> QED
  BY <1>1, <1>2, MonitorInductive, PTL DEF MonitorSpec

-----------------------------------------------------------------------------
(***************************************************************************)
(* Metrics: the limit on keys, and what the counters add up to.            *)
(***************************************************************************)

Responses == {[at |-> "none"], [at |-> "open"]} \union [at : {"ended"}, route : MetricRoutes, code : Codes]

MetricsTypes ==
    /\ response \in [Traffic -> Responses]
    /\ counters \in [CounterKeys -> Nat] /\ observations \in [HistogramKeys -> Nat]
    /\ cardinalityCount \in Nat /\ resets \in BOOLEAN
    /\ IsFiniteSet(Kept)

MetricsIInv == MetricsTypes /\ MetricsAddUp

\* Of keys that are recorded one after the other while there is room, no more than
\* fit are new; and as long as there is room after them, none was left out.
RecordedOf(keys, n, kept) ==
    {i \in 1 .. n :
        \/ keys[i] \in kept
        \/ cardinalityCount + Cardinality({m \in 1 .. i : keys[m] \notin kept}) <= MaxCardinality}

LEMMA RecordedFit ==
    ASSUME NEW n \in Nat, NEW keys, NEW kept,
           cardinalityCount \in Nat, cardinalityCount <= MaxCardinality
    PROVE  LET recorded == RecordedOf(keys, n, kept)
               new == Cardinality({i \in recorded : keys[i] \notin kept})
           IN  /\ new \in Nat /\ cardinalityCount + new <= MaxCardinality
               /\ cardinalityCount + new < MaxCardinality => recorded = 1 .. n
<1> DEFINE recorded == RecordedOf(keys, n, kept)
           fresh == {i \in recorded : keys[i] \notin kept}
           upTo(i) == {m \in 1 .. i : keys[m] \notin kept}
<1>0. MaxCardinality \in Nat
  BY MetricsAssumption
<1>1. ASSUME NEW i \in 1 .. n
      PROVE  IsFiniteSet(upTo(i)) /\ Cardinality(upTo(i)) \in Nat
  <2>1. IsFiniteSet(1 .. i) /\ upTo(i) \in SUBSET (1 .. i)
    BY FS_Interval
  <2>2. IsFiniteSet(upTo(i))
    BY <2>1, FS_Subset
  <2> QED
    BY <2>2, FS_CardinalityType
<1>2. recorded \in SUBSET (1 .. n) /\ fresh \in SUBSET (1 .. n) /\ IsFiniteSet(1 .. n)
  BY FS_Interval DEF RecordedOf
<1>3. IsFiniteSet(fresh) /\ Cardinality(fresh) \in Nat
  <2>1. IsFiniteSet(fresh)
    BY <1>2, FS_Subset
  <2> QED
    BY <2>1, FS_CardinalityType
<1>4. \A i \in fresh : i \in 1 .. n /\ cardinalityCount + Cardinality(upTo(i)) <= MaxCardinality
  BY DEF RecordedOf
<1>5. cardinalityCount + Cardinality(fresh) <= MaxCardinality
  <2>1. CASE fresh = {}
    BY <2>1, FS_EmptySet
  <2>2. CASE fresh # {}
    <3> DEFINE left == {n - i : i \in fresh}
    <3>1. left \in SUBSET Nat /\ left # {}
      BY <1>2, <2>2
    <3>2. PICK least \in left : \A k \in left : least <= k
      <4> HIDE DEF left
      <4> QED
        BY <3>1, LeastNumber
    <3>3. PICK last \in fresh : least = n - last
      BY <3>2
    <3>4. \A i \in fresh : i <= last
      <4>1. \A i \in fresh : n - last <= n - i
        BY <3>2, <3>3
      <4> HIDE DEF fresh
      <4> QED
        BY <1>2, <3>3, <4>1
    <3>5. fresh \in SUBSET upTo(last) /\ last \in 1 .. n
      BY <1>2, <3>3, <3>4
    <3>6. Cardinality(fresh) <= Cardinality(upTo(last))
      BY <1>1, <3>5, FS_Subset
    <3>7. cardinalityCount + Cardinality(upTo(last)) <= MaxCardinality
      BY <1>4
    <3>8. Cardinality(upTo(last)) \in Nat
      BY <1>1, <3>5
    <3> HIDE DEF fresh, upTo
    <3> QED
      BY <1>0, <1>3, <3>6, <3>7, <3>8
  <2> QED
    BY <2>1, <2>2
<1>6. ASSUME recorded # 1 .. n PROVE ~(cardinalityCount + Cardinality(fresh) < MaxCardinality)
  <2> DEFINE missing == (1 .. n) \ recorded
  <2>1. missing \in SUBSET Nat /\ missing # {}
    <3>1. \E i \in 1 .. n : i \notin recorded
      <4> HIDE DEF recorded
      <4> QED
        BY <1>2, <1>6, Zenon
    <3> QED
      BY <3>1
  <2>2. PICK first \in missing : \A m \in missing : first <= m
    <3> HIDE DEF missing
    <3> QED
      BY <2>1, LeastNumber
  <2>3. /\ first \in 1 .. n /\ keys[first] \notin kept
        /\ ~(cardinalityCount + Cardinality(upTo(first)) <= MaxCardinality)
    BY <2>2 DEF RecordedOf
  <2>4. first \in upTo(first) /\ upTo(first) \ {first} \in SUBSET fresh
    BY <2>2, <2>3
  <2>5. Cardinality(upTo(first) \ {first}) = Cardinality(upTo(first)) - 1
    BY <1>1, <2>3, <2>4, FS_RemoveElement
  <2>6. Cardinality(upTo(first) \ {first}) <= Cardinality(fresh)
    BY <1>3, <2>4, FS_Subset
  <2>7. Cardinality(upTo(first)) \in Nat
    BY <1>1, <2>3
  <2> HIDE DEF fresh, upTo, recorded, missing
  <2> QED
    BY <1>0, <1>3, <2>3, <2>5, <2>6, <2>7
<1> QED
  BY <1>3, <1>5, <1>6

\* The keys of one response are different ones.
LEMMA TouchedDiffer ==
    ASSUME NEW route \in MetricRoutes, NEW code \in Codes
    PROVE  LET keys == Touched(route, code)
               n == IF code < 400 THEN 2 ELSE 3
           IN  /\ DOMAIN keys = 1 .. n
               /\ \A i \in 1 .. n : keys[i] \in CounterKeys \union HistogramKeys
               /\ \A i, j \in 1 .. n : keys[i] = keys[j] => i = j
               /\ {keys[i] : i \in 1 .. n} \intersect CounterKeys
                    = {HttpKey(route, code)} \union (IF code < 400 THEN {} ELSE {ErrorKey(route, code)})
<1> DEFINE http == HttpKey(route, code)
           duration == DurationKey(route, code)
           error == ErrorKey(route, code)
<1>1. http \in CounterKeys /\ duration \in HistogramKeys /\ (code >= 400 => error \in CounterKeys)
  BY DEF CounterKeys, HistogramKeys, Codes
<1>2. http # duration /\ http # error /\ duration # error
  BY DEF HttpKey, DurationKey, ErrorKey
<1>3. duration \notin CounterKeys
  BY DEF CounterKeys, DurationKey, HttpKey, ErrorKey
<1>4. Touched(route, code) = IF code < 400 THEN <<http, duration>> ELSE <<http, duration, error>>
  BY DEF Touched
<1> DEFINE keys == Touched(route, code)
<1>5. CASE code < 400
  <2>1. keys = <<http, duration>>
    BY <1>4, <1>5
  <2> HIDE DEF keys, http, duration, error
  <2>2. DOMAIN keys = 1 .. 2 /\ keys[1] = http /\ keys[2] = duration
    BY <2>1
  <2>3. {keys[i] : i \in 1 .. 2} = {http, duration} /\ \A i, j \in 1 .. 2 : keys[i] = keys[j] => i = j
    BY <1>2, <2>2
  <2>4. \A i \in 1 .. 2 : keys[i] \in CounterKeys \union HistogramKeys
    BY <1>1, <2>2
  <2>5. {keys[i] : i \in 1 .. 2} \intersect CounterKeys = {http}
    BY <1>1, <1>3, <2>3
  <2> QED
    BY <1>5, <2>2, <2>3, <2>4, <2>5 DEF keys, http
<1>6. CASE ~(code < 400)
  <2>1. keys = <<http, duration, error>>
    BY <1>4, <1>6
  <2>2. error \in CounterKeys
    BY <1>1, <1>6 DEF Codes
  <2> HIDE DEF keys, http, duration, error
  <2>3. DOMAIN keys = 1 .. 3 /\ keys[1] = http /\ keys[2] = duration /\ keys[3] = error
    BY <2>1
  <2>4. {keys[i] : i \in 1 .. 3} = {http, duration, error} /\ \A i, j \in 1 .. 3 : keys[i] = keys[j] => i = j
    BY <1>2, <2>3
  <2>5. \A i \in 1 .. 3 : keys[i] \in CounterKeys \union HistogramKeys
    BY <1>1, <2>2, <2>3
  <2>6. {keys[i] : i \in 1 .. 3} \intersect CounterKeys = {http, error}
    BY <1>1, <1>3, <2>2, <2>4
  <2>7. {http, error} = {http} \union {error}
    OBVIOUS
  <2> QED
    BY <1>6, <2>3, <2>4, <2>5, <2>6, <2>7 DEF keys, http, error
<1> QED
  BY <1>5, <1>6

RecordedKeys(route, code) == {Touched(route, code)[n] : n \in Recorded(Touched(route, code))}

\* What one response adds to the keys, and to their number.
LEMMA ResponseAddsKeys ==
    ASSUME MetricsTypes, cardinalityCount = Cardinality(Kept), cardinalityCount <= MaxCardinality,
           NEW t \in Traffic, NEW route \in MetricRoutes, NEW code \in Codes, Ends(t, route, code)
    PROVE  LET recorded == RecordedKeys(route, code) IN
           /\ Kept' = Kept \union recorded /\ IsFiniteSet(Kept')
           /\ cardinalityCount' = Cardinality(Kept') /\ cardinalityCount' <= MaxCardinality
           /\ cardinalityCount <= cardinalityCount' /\ cardinalityCount' \in Nat
           /\ recorded \intersect CounterKeys \subseteq {HttpKey(route, code), ErrorKey(route, code)}
           /\ cardinalityCount' < MaxCardinality =>
                recorded \intersect CounterKeys =
                  {HttpKey(route, code)} \union (IF code < 400 THEN {} ELSE {ErrorKey(route, code)})
<1> DEFINE keys == Touched(route, code)
           n == IF code < 400 THEN 2 ELSE 3
           recorded == RecordedKeys(route, code)
           indices == RecordedOf(keys, n, Kept)
           fresh == {i \in indices : keys[i] \notin Kept}
<1>0. MaxCardinality \in Nat /\ MaxPoints \in Nat \ {0} /\ cardinalityCount \in Nat
  BY MetricsAssumption DEF MetricsTypes
<1>1. /\ DOMAIN keys = 1 .. n /\ n \in Nat
      /\ \A i \in 1 .. n : keys[i] \in CounterKeys \union HistogramKeys
      /\ \A i, j \in 1 .. n : keys[i] = keys[j] => i = j
      /\ {keys[i] : i \in 1 .. n} \intersect CounterKeys
           = {HttpKey(route, code)} \union (IF code < 400 THEN {} ELSE {ErrorKey(route, code)})
  BY TouchedDiffer
<1>2. Recorded(keys) = indices
  BY <1>1 DEF Recorded, RecordedOf
<1>3. recorded = {keys[i] : i \in indices} /\ indices \in SUBSET (1 .. n)
  BY <1>2 DEF RecordedKeys, RecordedOf
<1> HIDE DEF keys, n
<1>4. /\ Cardinality(fresh) \in Nat /\ cardinalityCount + Cardinality(fresh) <= MaxCardinality
      /\ cardinalityCount + Cardinality(fresh) < MaxCardinality => indices = 1 .. n
  BY <1>0, <1>1, RecordedFit
<1>5. /\ counters' = [k \in CounterKeys |-> IF k \in recorded THEN counters[k] + 1 ELSE counters[k]]
      /\ observations' = [k \in HistogramKeys |->
           IF k \in recorded /\ observations[k] < MaxPoints THEN observations[k] + 1 ELSE observations[k]]
      /\ cardinalityCount' = cardinalityCount + Cardinality(recorded \ Kept)
  BY DEF Ends, RecordedKeys
<1> HIDE DEF recorded, indices
<1>6. recorded \subseteq CounterKeys \union HistogramKeys
  BY <1>1, <1>3
<1>7. Kept' = Kept \union recorded
  <2>1. \A k \in CounterKeys : counters[k] \in Nat /\ (counters'[k] > 0 <=> counters[k] > 0 \/ k \in recorded)
    BY <1>5 DEF MetricsTypes
  <2>2. \A k \in HistogramKeys : observations'[k] > 0 <=> observations[k] > 0 \/ k \in recorded
    BY <1>0, <1>5 DEF MetricsTypes
  <2>3. {k \in CounterKeys : counters'[k] > 0} = {k \in CounterKeys : counters[k] > 0} \union (recorded \intersect CounterKeys)
    BY <2>1
  <2>4. {k \in HistogramKeys : observations'[k] > 0}
          = {k \in HistogramKeys : observations[k] > 0} \union (recorded \intersect HistogramKeys)
    BY <2>2
  <2> QED
    BY <1>6, <2>3, <2>4 DEF Kept
<1>8. IsFiniteSet(recorded \ Kept) /\ Cardinality(recorded \ Kept) = Cardinality(fresh)
  <2> DEFINE f == [i \in fresh |-> keys[i]]
  <2>1. fresh \in SUBSET (1 .. n) /\ IsFiniteSet(1 .. n)
    BY <1>1, <1>3, FS_Interval
  <2>2. IsFiniteSet(fresh)
    BY <2>1, FS_Subset
  <2>3. f \in Surjection(fresh, recorded \ Kept)
    BY <1>3 DEF Surjection
  <2>4. f \in Injection(fresh, recorded \ Kept)
    <3>1. f \in [fresh -> recorded \ Kept] /\ \A i \in fresh : f[i] = keys[i]
      BY <2>3 DEF Surjection
    <3>2. \A i, j \in fresh : keys[i] = keys[j] => i = j
      BY <1>1, <2>1
    <3> HIDE DEF f, fresh
    <3> QED
      BY <3>1, <3>2 DEF Injection, IsInjective
  <2> HIDE DEF f, fresh
  <2> QED
    BY <2>2, <2>3, <2>4, FS_Surjection
<1>9. IsFiniteSet(Kept') /\ Cardinality(Kept') = Cardinality(Kept) + Cardinality(recorded \ Kept)
  <2>1. Kept' = Kept \union (recorded \ Kept) /\ Kept \intersect (recorded \ Kept) = {}
    BY <1>7
  <2>2. IsFiniteSet(Kept) /\ Cardinality(Kept) \in Nat
    BY <1>0 DEF MetricsTypes
  <2>3. /\ IsFiniteSet(Kept \union (recorded \ Kept))
        /\ Cardinality(Kept \union (recorded \ Kept))
             = Cardinality(Kept) + Cardinality(recorded \ Kept) - Cardinality({})
    BY <1>8, <2>1, <2>2, FS_Union
  <2>4. Cardinality({}) = 0
    BY FS_EmptySet
  <2> QED
    BY <1>4, <1>8, <2>1, <2>2, <2>3, <2>4
<1> DEFINE added == Cardinality(fresh)
<1>10. /\ cardinalityCount' = cardinalityCount + added /\ added \in Nat
       /\ cardinalityCount' = Cardinality(Kept')
  BY <1>4, <1>5, <1>8, <1>9
<1>11. recorded \intersect CounterKeys \subseteq {HttpKey(route, code), ErrorKey(route, code)}
  <2>1. recorded \subseteq {keys[i] : i \in 1 .. n}
    BY <1>3
  <2> QED
    BY <1>1, <2>1
<1>12. ASSUME cardinalityCount' < MaxCardinality
       PROVE  recorded \intersect CounterKeys =
                {HttpKey(route, code)} \union (IF code < 400 THEN {} ELSE {ErrorKey(route, code)})
  <2>1. indices = 1 .. n
    BY <1>4, <1>10, <1>12
  <2> QED
    BY <1>1, <1>3, <2>1
<1>13. /\ cardinalityCount' <= MaxCardinality /\ cardinalityCount <= cardinalityCount' /\ cardinalityCount' \in Nat
  <2> HIDE DEF added
  <2>1. cardinalityCount + added <= MaxCardinality
    BY <1>4 DEF added
  <2> QED
    BY <1>0, <1>10, <2>1
<1> QED
  BY <1>7, <1>9, <1>10, <1>11, <1>12, <1>13 DEF recorded

\* The responses that ended with a code, when one more ends.
LEMMA OneMoreEnds ==
    ASSUME MetricsTypes, NEW t \in Traffic, NEW route \in MetricRoutes, NEW code \in Codes, Ends(t, route, code)
    PROVE  \A c \in Codes : /\ Ended(c) \in Nat
                            /\ Ended(c)' = IF c = code THEN Ended(c) + 1 ELSE Ended(c)
<1> SUFFICES ASSUME NEW c \in Codes
             PROVE  Ended(c) \in Nat /\ Ended(c)' = IF c = code THEN Ended(c) + 1 ELSE Ended(c)
  OBVIOUS
<1>1. EndedWith(c) \in SUBSET Traffic /\ t \notin EndedWith(c)
  BY DEF EndedWith, Ends
<1>2. IsFiniteSet(EndedWith(c))
  BY <1>1, MetricsAssumption, FS_Subset
<1>3. Ended(c) \in Nat
  BY <1>2, FS_CardinalityType DEF Ended
<1>4. response \in [Traffic -> Responses] /\ response' = [response EXCEPT ![t] = [at |-> "ended", route |-> route, code |-> code]]
  BY DEF Ends, MetricsTypes
<1>5. EndedWith(c)' = IF c = code THEN EndedWith(c) \union {t} ELSE EndedWith(c)
  <2>1. \A q \in Traffic \ {t} : response'[q] = response[q]
    BY <1>4
  <2>2. response'[t].at = "ended" /\ response'[t].code = code
    BY <1>4
  <2> QED
    BY <1>1, <2>1, <2>2 DEF EndedWith
<1>6. Cardinality(EndedWith(c) \union {t}) = Cardinality(EndedWith(c)) + 1
  BY <1>1, <1>2, FS_AddElement
<1> QED
  BY <1>3, <1>5, <1>6 DEF Ended

\* A sum over the routes, when the counter of one route grows by one, or none does.
LEMMA OneMoreCounted ==
    ASSUME NEW f, NEW g, NEW route \in MetricRoutes,
           \A r \in MetricRoutes : f[r] \in Nat /\ g[r] \in Nat,
           \A r \in MetricRoutes \ {route} : g[r] = f[r],
           DOMAIN f = MetricRoutes, DOMAIN g = MetricRoutes
    PROVE  SumFunction(f) \in Int /\ SumFunction(g) = SumFunction(f) + (g[route] - f[route])
<1>1. IsFiniteSet(MetricRoutes)
  BY MetricsAssumption
<1>2. \A r \in MetricRoutes : f[r] \in Int /\ g[r] \in Int
  OBVIOUS
<1>3. SumFunctionOnSet(g, MetricRoutes) = SumFunctionOnSet(f, MetricRoutes) + (g[route] - f[route])
  BY <1>1, <1>2, SumChanges
<1>4. SumFunctionOnSet(f, MetricRoutes) \in Int
  BY <1>1, <1>2, SumIsInt
<1> QED
  BY <1>3, <1>4 DEF SumFunction

LEMMA ResponsesAddUp ==
    ASSUME MetricsIInv, NEW t \in Traffic, NEW route \in MetricRoutes, NEW code \in Codes, Ends(t, route, code)
    PROVE  MetricsAddUp'
<1>0. MetricsTypes /\ MetricsAddUp
  BY DEF MetricsIInv
<1> DEFINE recorded == RecordedKeys(route, code)
<1>1. /\ cardinalityCount' = Cardinality(Kept') /\ cardinalityCount' <= MaxCardinality
      /\ cardinalityCount <= cardinalityCount' /\ cardinalityCount' \in Nat /\ cardinalityCount \in Nat
      /\ recorded \intersect CounterKeys \subseteq {HttpKey(route, code), ErrorKey(route, code)}
      /\ cardinalityCount' < MaxCardinality =>
           recorded \intersect CounterKeys =
             {HttpKey(route, code)} \union (IF code < 400 THEN {} ELSE {ErrorKey(route, code)})
  BY <1>0, ResponseAddsKeys DEF MetricsAddUp, MetricsTypes
<1>2. counters' = [k \in CounterKeys |-> IF k \in recorded THEN counters[k] + 1 ELSE counters[k]]
  BY DEF Ends, RecordedKeys
<1>3. counters \in [CounterKeys -> Nat] /\ MaxCardinality \in Nat /\ resets' = resets
  BY <1>0, MetricsAssumption DEF MetricsTypes, Ends
<1>4. \A c \in Codes : Ended(c) \in Nat /\ Ended(c)' = IF c = code THEN Ended(c) + 1 ELSE Ended(c)
  BY <1>0, OneMoreEnds
<1> HIDE DEF recorded
<1>5. \A r \in MetricRoutes, c \in Codes : HttpKey(r, c) \in CounterKeys /\ (c >= 400 => ErrorKey(r, c) \in CounterKeys)
  BY DEF CounterKeys, Codes
<1>6. ASSUME ~resets' PROVE activeConnections' = Cardinality(OpenResponses')
  <2>1. activeConnections = Cardinality(OpenResponses) /\ t \in OpenResponses
    BY <1>0, <1>3, <1>6 DEF MetricsAddUp, OpenResponses, Ends
  <2>2. OpenResponses' = OpenResponses \ {t}
    <3>1. response' = [response EXCEPT ![t] = [at |-> "ended", route |-> route, code |-> code]]
      BY DEF Ends
    <3>2. \A q \in Traffic \ {t} : response'[q] = response[q]
      BY <3>1, <1>0 DEF MetricsTypes
    <3>3. response'[t].at = "ended"
      BY <3>1, <1>0 DEF MetricsTypes
    <3> QED
      BY <3>2, <3>3 DEF OpenResponses
  <2>3. IsFiniteSet(OpenResponses)
    <3>1. OpenResponses \in SUBSET Traffic
      BY DEF OpenResponses
    <3> QED
      BY <3>1, MetricsAssumption, FS_Subset
  <2>4. Cardinality(OpenResponses \ {t}) = Cardinality(OpenResponses) - 1 /\ Cardinality(OpenResponses \ {t}) \in Nat
    BY <2>1, <2>3, FS_RemoveElement, FS_CardinalityType
  <2>5. Cardinality(OpenResponses) # 0
    BY <2>3, <2>4, FS_CardinalityType
  <2> QED
    BY <2>1, <2>2, <2>4, <2>5 DEF Ends
<1>7. ASSUME ~resets', NEW key \in CounterKeys PROVE counters'[key] <= Ended(key[3])'
  <2>1. counters[key] <= Ended(key[3]) /\ counters[key] \in Nat
    BY <1>0, <1>3, <1>7 DEF MetricsAddUp
  <2>2. key[3] \in Codes
    BY DEF CounterKeys, HttpKey, ErrorKey
  <2>3. key \in recorded => key[3] = code
    BY <1>1 DEF HttpKey, ErrorKey
  <2>4. counters'[key] = IF key \in recorded THEN counters[key] + 1 ELSE counters[key]
    BY <1>2
  <2>5. key[3]' = key[3]
    OBVIOUS
  <2>6. Ended(key[3]) \in Nat /\ Ended(key[3])' = IF key[3] = code THEN Ended(key[3]) + 1 ELSE Ended(key[3])
    BY <1>4, <2>2
  <2> QED
    BY <2>1, <2>3, <2>4, <2>6
<1>8. ASSUME ~resets', cardinalityCount' < MaxCardinality, NEW c \in Codes
      PROVE  HttpRequests(c)' = Ended(c)' /\ (c >= 400 => ErrorsOf(c)' = Ended(c)')
  <2>1. HttpRequests(c) = Ended(c) /\ (c >= 400 => ErrorsOf(c) = Ended(c))
    BY <1>0, <1>1, <1>3, <1>8 DEF MetricsAddUp
  <2>2. recorded \intersect CounterKeys =
          {HttpKey(route, code)} \union (IF code < 400 THEN {} ELSE {ErrorKey(route, code)})
    BY <1>1, <1>8
  <2>3. Ended(c) \in Nat /\ Ended(c)' = IF c = code THEN Ended(c) + 1 ELSE Ended(c)
    BY <1>4
  <2>4. HttpRequests(c)' = Ended(c)'
    <3> DEFINE f == [r \in MetricRoutes |-> counters[HttpKey(r, c)]]
               g == [r \in MetricRoutes |-> counters'[HttpKey(r, c)]]
    <3>1. \A r \in MetricRoutes : HttpKey(r, c) \in CounterKeys
      BY <1>5
    <3>2. \A r \in MetricRoutes : HttpKey(r, c) \in recorded <=> r = route /\ c = code
      BY <2>2, <3>1 DEF HttpKey, ErrorKey
    <3>3. \A r \in MetricRoutes : /\ counters[HttpKey(r, c)] \in Nat
                                  /\ counters'[HttpKey(r, c)] = IF r = route /\ c = code THEN counters[HttpKey(r, c)] + 1
                                                                ELSE counters[HttpKey(r, c)]
      BY <1>2, <1>3, <3>1, <3>2
    <3>4. \A r \in MetricRoutes : f[r] \in Nat /\ g[r] = IF r = route /\ c = code THEN f[r] + 1 ELSE f[r]
      BY <3>3
    <3>5. DOMAIN f = MetricRoutes /\ DOMAIN g = MetricRoutes
      OBVIOUS
    <3>6. HttpRequests(c) = SumFunction(f) /\ HttpRequests(c)' = SumFunction(g)
      BY DEF HttpRequests
    <3> HIDE DEF f, g
    <3>7. SumFunction(f) \in Int /\ SumFunction(g) = SumFunction(f) + (g[route] - f[route])
      BY <3>4, <3>5, OneMoreCounted
    <3>8. f[route] \in Nat /\ g[route] = IF c = code THEN f[route] + 1 ELSE f[route]
      BY <3>4
    <3> QED
      BY <2>1, <2>3, <3>6, <3>7, <3>8
  <2>5. ASSUME c >= 400 PROVE ErrorsOf(c)' = Ended(c)'
    <3> DEFINE f == [r \in MetricRoutes |-> counters[ErrorKey(r, c)]]
               g == [r \in MetricRoutes |-> counters'[ErrorKey(r, c)]]
    <3>1. \A r \in MetricRoutes : ErrorKey(r, c) \in CounterKeys
      BY <1>5, <2>5
    <3>2. \A r \in MetricRoutes : ErrorKey(r, c) \in recorded <=> r = route /\ c = code
      BY <2>2, <2>5, <3>1 DEF HttpKey, ErrorKey, Codes
    <3>3. \A r \in MetricRoutes : /\ counters[ErrorKey(r, c)] \in Nat
                                  /\ counters'[ErrorKey(r, c)] = IF r = route /\ c = code THEN counters[ErrorKey(r, c)] + 1
                                                                 ELSE counters[ErrorKey(r, c)]
      BY <1>2, <1>3, <3>1, <3>2
    <3>4. \A r \in MetricRoutes : f[r] \in Nat /\ g[r] = IF r = route /\ c = code THEN f[r] + 1 ELSE f[r]
      BY <3>3
    <3>5. DOMAIN f = MetricRoutes /\ DOMAIN g = MetricRoutes
      OBVIOUS
    <3>6. ErrorsOf(c) = SumFunction(f) /\ ErrorsOf(c)' = SumFunction(g)
      BY DEF ErrorsOf
    <3> HIDE DEF f, g
    <3>7. SumFunction(f) \in Int /\ SumFunction(g) = SumFunction(f) + (g[route] - f[route])
      BY <3>4, <3>5, OneMoreCounted
    <3>8. f[route] \in Nat /\ g[route] = IF c = code THEN f[route] + 1 ELSE f[route]
      BY <3>4
    <3> QED
      BY <2>1, <2>3, <2>5, <3>6, <3>7, <3>8
  <2> QED
    BY <2>4, <2>5
<1> QED
  BY <1>1, <1>6, <1>7, <1>8 DEF MetricsAddUp

\* What only looks at counters that stay as they are stays as it is.
LEMMA CountersStay ==
    ASSUME UNCHANGED <<counters, observations>>
    PROVE  /\ Kept' = Kept
           /\ \A c \in Codes : HttpRequests(c)' = HttpRequests(c) /\ ErrorsOf(c)' = ErrorsOf(c)
  BY DEF Kept, HttpRequests, ErrorsOf

LEMMA NothingIsKept ==
    ASSUME counters = [k \in CounterKeys |-> 0], observations = [k \in HistogramKeys |-> 0]
    PROVE  Kept = {} /\ Cardinality(Kept) = 0 /\ IsFiniteSet(Kept)
<1>1. Kept = {}
  BY DEF Kept
<1> QED
  BY <1>1, FS_EmptySet

LEMMA MetricsInductive ==
    ASSUME MetricsIInv, [MetricsNext]_metricVars
    PROVE  MetricsIInv'
<1>0. MetricsTypes /\ MetricsAddUp
  BY DEF MetricsIInv
<1>1. ASSUME NEW t \in Traffic, Arrives(t) PROVE MetricsIInv'
  <2>1. /\ UNCHANGED <<counters, observations, cardinalityCount, resets>> /\ response[t].at = "none"
        /\ response' = [response EXCEPT ![t] = [at |-> "open"]] /\ activeConnections' = activeConnections + 1
    BY <1>1 DEF Arrives
  <2>2. Kept' = Kept /\ \A c \in Codes : HttpRequests(c)' = HttpRequests(c) /\ ErrorsOf(c)' = ErrorsOf(c)
    BY <2>1, CountersStay
  <2>3. response' \in [Traffic -> Responses]
    BY <1>0, <2>1 DEF MetricsTypes, Responses
  <2>4. \A q \in Traffic \ {t} : response'[q] = response[q]
    BY <1>0, <2>1 DEF MetricsTypes
  <2>5. response'[t].at = "open"
    BY <1>0, <2>1 DEF MetricsTypes
  <2>6. \A c \in Codes : EndedWith(c)' = EndedWith(c)
    BY <2>1, <2>4, <2>5 DEF EndedWith
  <2>7. \A c \in Codes : Ended(c)' = Ended(c)
    BY <2>6 DEF Ended
  <2>8. OpenResponses' = OpenResponses \union {t} /\ t \notin OpenResponses /\ OpenResponses \in SUBSET Traffic
    BY <2>1, <2>4, <2>5 DEF OpenResponses
  <2>9. IsFiniteSet(OpenResponses)
    BY <2>8, MetricsAssumption, FS_Subset
  <2>10. Cardinality(OpenResponses') = Cardinality(OpenResponses) + 1
    BY <2>8, <2>9, FS_AddElement
  <2>11. MetricsTypes'
    BY <1>0, <2>1, <2>2, <2>3 DEF MetricsTypes
  <2>12. \A key \in CounterKeys : key[3] \in Codes
    BY DEF CounterKeys, HttpKey, ErrorKey
  <2>13. \A key \in CounterKeys : counters'[key] = counters[key] /\ Ended(key[3])' = Ended(key[3])
    BY <2>1, <2>7, <2>12
  <2>14. ~resets' => activeConnections' = Cardinality(OpenResponses')
    BY <1>0, <2>1, <2>10 DEF MetricsAddUp
  <2>15. ~resets' /\ cardinalityCount' < MaxCardinality =>
           \A c \in Codes : HttpRequests(c)' = Ended(c)' /\ (c >= 400 => ErrorsOf(c)' = Ended(c)')
    BY <1>0, <2>1, <2>2, <2>7 DEF MetricsAddUp
  <2>16. ~resets' => \A key \in CounterKeys : counters'[key] <= Ended(key[3])'
    BY <1>0, <2>1, <2>13 DEF MetricsAddUp
  <2>17. cardinalityCount' = Cardinality(Kept') /\ cardinalityCount' <= MaxCardinality
    BY <1>0, <2>1, <2>2 DEF MetricsAddUp
  <2>18. MetricsAddUp'
    BY <2>14, <2>15, <2>16, <2>17 DEF MetricsAddUp
  <2> QED
    BY <2>11, <2>18 DEF MetricsIInv
<1>2. ASSUME NEW t \in Traffic, NEW route \in MetricRoutes, NEW code \in Codes, Ends(t, route, code)
      PROVE  MetricsIInv'
  <2>1. MetricsAddUp'
    BY <1>2, ResponsesAddUp
  <2>2. IsFiniteSet(Kept') /\ cardinalityCount' \in Nat
    BY <1>0, <1>2, ResponseAddsKeys DEF MetricsAddUp
  <2>3. response' \in [Traffic -> Responses]
    BY <1>0, <1>2 DEF MetricsTypes, Responses, Ends
  <2>4. counters' \in [CounterKeys -> Nat] /\ resets' = resets
    BY <1>0, <1>2 DEF MetricsTypes, Ends
  <2>5. observations' \in [HistogramKeys -> Nat]
    BY <1>0, <1>2 DEF MetricsTypes, Ends
  <2> QED
    BY <1>0, <2>1, <2>2, <2>3, <2>4, <2>5 DEF MetricsTypes, MetricsIInv
<1>3. CASE Reset
  <2>1. /\ counters' = [k \in CounterKeys |-> 0] /\ observations' = [k \in HistogramKeys |-> 0]
        /\ cardinalityCount' = 0 /\ resets' = TRUE /\ response' = response
    BY <1>3 DEF Reset
  <2>2. Kept' = {}
    BY <2>1 DEF Kept
  <2>3. IsFiniteSet(Kept') /\ Cardinality(Kept') = 0
    BY <2>2, FS_EmptySet
  <2>4. MetricsTypes'
    BY <1>0, <2>1, <2>3 DEF MetricsTypes
  <2>5. MetricsAddUp'
    BY <2>1, <2>3, MetricsAssumption DEF MetricsAddUp
  <2> QED
    BY <2>4, <2>5 DEF MetricsIInv
<1>4. CASE UNCHANGED metricVars
  <2>1. UNCHANGED <<counters, observations, cardinalityCount, resets, response, activeConnections>>
    BY <1>4 DEF metricVars
  <2>2. Kept' = Kept /\ \A c \in Codes : HttpRequests(c)' = HttpRequests(c) /\ ErrorsOf(c)' = ErrorsOf(c)
    BY <2>1, CountersStay
  <2>3. OpenResponses' = OpenResponses /\ \A c : Ended(c)' = Ended(c)
    BY <2>1 DEF OpenResponses, Ended, EndedWith
  <2>4. MetricsTypes'
    BY <1>0, <2>1, <2>2 DEF MetricsTypes
  <2>5. \A key \in CounterKeys : counters'[key] = counters[key] /\ Ended(key[3])' = Ended(key[3])
    BY <2>1, <2>3
  <2>6. MetricsAddUp'
    BY <1>0, <2>1, <2>2, <2>3, <2>5 DEF MetricsAddUp
  <2> QED
    BY <2>4, <2>6 DEF MetricsIInv
<1> QED
  BY <1>1, <1>2, <1>3, <1>4 DEF MetricsNext

LEMMA MetricsInitially == MetricsInit => MetricsIInv
<1> SUFFICES ASSUME MetricsInit PROVE MetricsIInv
  OBVIOUS
<1>1. Cardinality(Kept) = 0 /\ IsFiniteSet(Kept)
  BY NothingIsKept DEF MetricsInit
<1>2. MetricsTypes
  BY <1>1 DEF MetricsInit, MetricsTypes, Responses
<1>3. OpenResponses = {} /\ \A c : EndedWith(c) = {}
  BY DEF MetricsInit, OpenResponses, EndedWith
<1>4. Cardinality(OpenResponses) = 0 /\ \A c : Ended(c) = 0
  BY <1>3, FS_EmptySet DEF Ended
<1>5. \A c \in Codes : HttpRequests(c) = 0 /\ (c >= 400 => ErrorsOf(c) = 0)
  <2>1. ASSUME NEW f, DOMAIN f = MetricRoutes, \A r \in MetricRoutes : f[r] = 0
        PROVE  SumFunction(f) = 0
    BY <2>1, MetricsAssumption, SumOfZeros DEF SumFunction
  <2>2. ASSUME NEW c \in Codes PROVE HttpRequests(c) = 0
    <3>1. \A r \in MetricRoutes : HttpKey(r, c) \in CounterKeys
      BY DEF CounterKeys
    <3>2. \A r \in MetricRoutes : counters[HttpKey(r, c)] = 0
      BY <3>1 DEF MetricsInit
    <3> QED
      BY <2>1, <3>2 DEF HttpRequests
  <2>3. ASSUME NEW c \in Codes, c >= 400 PROVE ErrorsOf(c) = 0
    <3>1. \A r \in MetricRoutes : ErrorKey(r, c) \in CounterKeys
      BY <2>3 DEF CounterKeys, Codes
    <3>2. \A r \in MetricRoutes : counters[ErrorKey(r, c)] = 0
      BY <3>1 DEF MetricsInit
    <3> QED
      BY <2>1, <3>2 DEF ErrorsOf
  <2> QED
    BY <2>2, <2>3
<1>6. \A key \in CounterKeys : counters[key] = 0
  BY DEF MetricsInit
<1>7. cardinalityCount = 0 /\ activeConnections = 0
  BY DEF MetricsInit
<1>8. MetricsAddUp
  BY <1>1, <1>4, <1>5, <1>6, <1>7, MetricsAssumption DEF MetricsAddUp
<1> QED
  BY <1>2, <1>8 DEF MetricsIInv

\* For any requests, routes and limits: the limit on keys is exact; and until it is
\* reached, or the collector is reset, the counters add up to the responses.
THEOREM MetricsAlwaysAddUp == MetricsSpec => []MetricsAddUp
<1>1. MetricsIInv => MetricsAddUp
  BY DEF MetricsIInv
<1> QED
  BY <1>1, MetricsInitially, MetricsInductive, PTL DEF MetricsSpec
=============================================================================
