--------------------------- MODULE SessionRotation ---------------------------
(***************************************************************************)
(* Login, refresh-token rotation with reuse detection, and logout          *)
(* (src/src/auth/{login,refresh,logout}) over the sessions table           *)
(* (src/src/db/repositories/sessionRepository.ts).                         *)
(*                                                                         *)
(* A request runs its SQL statements one at a time inside a READ COMMITTED *)
(* transaction: what it has written stays in its own write set, under row  *)
(* locks, until it commits.  A recursive UPDATE visits its rows one by one *)
(* and can wait for each of them.  A refresh token is named by its session *)
(* (the token carries the session id and its hash is stored in the row).   *)
(***************************************************************************)
EXTENDS FiniteSets, Naturals

CONSTANTS
    Sessions,   \* session ids that crypto.randomUUID() can draw (a bound)
    Requests,   \* requests in progress at the same time
    MaxLogins,  \* logins, that is session families (a bound)
    None        \* no session, no request

ASSUME NoneAssumption == None \notin Sessions /\ None \notin Requests

VARIABLES
    \* The committed contents of the sessions table.
    rows,       \* rows that exist
    born,       \* ids that ever were a row; a deleted id is never drawn again
    parent,     \* column parent_id, kept as history when a row is deleted
    consumed,   \* token_consumed_at is set (kept when the row is deleted)
    revoked,    \* revoked_at is set (kept when the row is deleted)
    lock,       \* the transaction that holds each row's lock
    \* The requests.
    pc,         \* the statement a request runs next
    sid,        \* session named by the token presented
    token,      \* which of the session's two JWTs was presented
    found,      \* result of the recursive CTE
    todo,       \* rows the UPDATE or DELETE still has to visit
    want,       \* the row it waits for
    \* What its transaction has written and not committed.
    consuming, revoking, deleting, child,
    \* The clients.
    issued      \* sessions whose tokens reached a client

table    == <<rows, born, parent, consumed, revoked>>
writeset == <<consuming, revoking, deleting, child>>
request  == <<sid, token, found>>
scan     == <<todo, want>>
vars     == <<table, lock, pc, request, scan, writeset, issued>>

TokenKinds == {"refresh", "access"}
Maybe(S) == S \union {None}

Init ==
    /\ rows = {} /\ born = {} /\ consumed = {} /\ revoked = {} /\ issued = {}
    /\ parent = [s \in Sessions |-> None]
    /\ lock = [s \in Sessions |-> None]
    /\ pc = [r \in Requests |-> "idle"]
    /\ sid = [r \in Requests |-> None]
    /\ token = [r \in Requests |-> "refresh"]
    /\ want = [r \in Requests |-> None]
    /\ child = [r \in Requests |-> None]
    /\ found = [r \in Requests |-> {}]
    /\ todo = [r \in Requests |-> {}]
    /\ consuming = [r \in Requests |-> {}]
    /\ revoking = [r \in Requests |-> {}]
    /\ deleting = [r \in Requests |-> {}]

Goto(r, label) == pc' = [pc EXCEPT ![r] = label]

\* An id that no row ever had and no open transaction has drawn.
Fresh == {s \in Sessions \ born : \A r \in Requests : child[r] # s}

LockFree(r, s) == lock[s] \in {None, r}
Children(s) == {c \in rows : parent[c] = s}

\* The CTE of revokeSessionAndDescendants: the least set of rows that holds s
\* and the children of its members.
Descendants(s) ==
    {t \in rows : \A D \in SUBSET rows :
        (s \in D /\ \A d \in D : Children(d) \subseteq D) => t \in D}

\* createRequireAuth: the row exists and stores the hash of the bearer token,
\* which is the hash of the refresh token.  revoked_at is not looked at.
BearerAccepted(s) == s \in rows

-----------------------------------------------------------------------------
(* Requests arrive.                                                        *)

\* LoginService.login: one INSERT, committed at once; the tokens are returned.
Login ==
    /\ Cardinality({s \in born : parent[s] = None}) < MaxLogins
    /\ \E s \in Fresh :
        /\ rows' = rows \union {s}
        /\ born' = born \union {s}
        /\ issued' = issued \union {s}
    /\ UNCHANGED <<parent, consumed, revoked, lock, pc, request, scan, writeset>>

\* RefreshService.refresh with a token that verifies; BEGIN.  A client may
\* present any token it ever received, as often as it likes; access and refresh
\* tokens are signed alike, so verifyRefreshToken accepts both.
StartRefresh(r) ==
    /\ pc[r] = "idle"
    /\ \E s \in issued, k \in TokenKinds :
        /\ sid' = [sid EXCEPT ![r] = s]
        /\ token' = [token EXCEPT ![r] = k]
    /\ Goto(r, "find")
    /\ UNCHANGED <<table, lock, found, scan, writeset, issued>>

\* POST /api/auth/logout: createRequireAuth lets the bearer through, then
\* deleteSessionById runs one DELETE whose foreign key cascades.
StartLogout(r) ==
    /\ pc[r] = "idle"
    /\ \E s \in issued :
        /\ BearerAccepted(s)
        /\ sid' = [sid EXCEPT ![r] = s]
        /\ todo' = [todo EXCEPT ![r] = {s}]
    /\ Goto(r, "delete")
    /\ UNCHANGED <<table, lock, token, found, want, writeset, issued>>

-----------------------------------------------------------------------------
(* The rotation transaction.                                               *)

\* Mutant: revoked_at is not looked at.
SuspiciousIgnoresRevoked(r) == token[r] # "refresh" \/ sid[r] \in consumed

\* The checks that follow the locked read: hash, token_consumed_at, revoked_at.
Suspicious(r) ==
    \/ token[r] # "refresh"
    \/ sid[r] \in consumed
    \/ sid[r] \in revoked

\* SELECT ... FOR UPDATE found nothing: return null, and COMMIT.
SessionGone(r) ==
    /\ pc[r] = "find"
    /\ sid[r] \notin rows
    /\ Goto(r, "commit")
    /\ UNCHANGED <<table, lock, request, scan, writeset, issued>>

\* Mutant: findSessionById, a SELECT without FOR UPDATE.
FindWithoutLock(r) ==
    /\ pc[r] = "find"
    /\ sid[r] \in rows
    /\ Goto(r, IF Suspicious(r) THEN "cte" ELSE "probe")
    /\ UNCHANGED <<table, lock, request, scan, writeset, issued>>

FindForUpdate(r) ==
    /\ pc[r] = "find"
    /\ sid[r] \in rows
    /\ LockFree(r, sid[r])
    /\ lock' = [lock EXCEPT ![sid[r]] = r]
    /\ Goto(r, IF Suspicious(r) THEN "cte" ELSE "probe")
    /\ token' = [token EXCEPT ![r] = "refresh"]   \* not looked at again
    /\ UNCHANGED <<table, sid, found, scan, writeset, issued>>

\* findSessionByParentId, the reuse probe.
ProbeChild(r) ==
    /\ pc[r] = "probe"
    /\ Goto(r, IF Children(sid[r]) # {} THEN "cte" ELSE "consume")
    /\ UNCHANGED <<table, lock, request, scan, writeset, issued>>

\* Mutant: the UPDATE goes through the pool, outside the transaction.
ConsumeOutsideTransaction(r) ==
    /\ pc[r] = "consume"
    /\ consumed' = consumed \union {sid[r]}
    /\ Goto(r, "create")
    /\ UNCHANGED <<rows, born, parent, revoked, lock, request, scan, writeset, issued>>

SetSessionConsumed(r) ==
    /\ pc[r] = "consume"
    /\ consuming' = [consuming EXCEPT ![r] = {sid[r]}]
    /\ Goto(r, "create")
    /\ UNCHANGED <<table, lock, request, scan, revoking, deleting, child, issued>>

CreateSession(r) ==
    /\ pc[r] = "create"
    /\ \E c \in Fresh : child' = [child EXCEPT ![r] = c]
    /\ Goto(r, "commit")
    /\ UNCHANGED <<table, lock, request, scan, consuming, revoking, deleting, issued>>

-----------------------------------------------------------------------------
(* revokeSessionAndDescendants, one statement: its snapshot is taken when  *)
(* it starts, and a row that changed since is looked at again once its     *)
(* lock is free.                                                           *)

TakeSnapshot(r) ==
    /\ pc[r] = "cte"
    /\ found' = [found EXCEPT ![r] = Descendants(sid[r])]
    /\ todo' = [todo EXCEPT ![r] = Descendants(sid[r]) \ revoked]
    /\ Goto(r, "update")
    /\ UNCHANGED <<table, lock, sid, token, want, writeset, issued>>

\* The scan reaches s, which another transaction has locked.
WaitForRow(r, s) ==
    /\ pc[r] \in {"update", "delete"}
    /\ want[r] = None /\ s \in todo[r] /\ ~LockFree(r, s)
    /\ want' = [want EXCEPT ![r] = s]
    /\ UNCHANGED <<table, lock, pc, request, todo, writeset, issued>>

\* The scan reaches s, or goes on from s, now that nobody else holds its lock.
Visit(r, s) ==
    /\ s \in todo[r] /\ want[r] \in {None, s} /\ LockFree(r, s)
    /\ want' = [want EXCEPT ![r] = None]

\* Mutant: rows that are locked are skipped.
UpdateRowSkipLocked(r, s) ==
    /\ pc[r] = "update"
    /\ s \in todo[r]
    /\ todo' = [todo EXCEPT ![r] = @ \ {s}]
    /\ IF s \in rows /\ s \notin revoked /\ LockFree(r, s)
       THEN /\ lock' = [lock EXCEPT ![s] = r]
            /\ revoking' = [revoking EXCEPT ![r] = @ \union {s}]
       ELSE UNCHANGED <<lock, revoking>>
    /\ UNCHANGED <<table, pc, request, want, consuming, deleting, child, issued>>

UpdateRow(r, s) ==
    /\ pc[r] = "update"
    /\ Visit(r, s)
    /\ todo' = [todo EXCEPT ![r] = @ \ {s}]
    /\ IF s \in rows /\ s \notin revoked
       THEN /\ lock' = [lock EXCEPT ![s] = r]
            /\ revoking' = [revoking EXCEPT ![r] = @ \union {s}]
       ELSE UNCHANGED <<lock, revoking>>
    /\ UNCHANGED <<table, pc, request, consuming, deleting, child, issued>>

\* Mutant: the foreign key does not cascade.
DeleteRowOnly(r, s) ==
    /\ pc[r] = "delete"
    /\ Visit(r, s)
    /\ todo' = [todo EXCEPT ![r] = @ \ {s}]
    /\ lock' = [lock EXCEPT ![s] = r]
    /\ deleting' = [deleting EXCEPT ![r] = @ \union ({s} \intersect rows)]
    /\ UNCHANGED <<table, pc, request, consuming, revoking, child, issued>>

\* DELETE of a row; ON DELETE CASCADE then looks for its children with a
\* snapshot of its own.
DeleteRow(r, s) ==
    /\ pc[r] = "delete"
    /\ Visit(r, s)
    /\ IF s \in rows
       THEN /\ lock' = [lock EXCEPT ![s] = r]
            /\ deleting' = [deleting EXCEPT ![r] = @ \union {s}]
            /\ todo' = [todo EXCEPT ![r] = (@ \ {s}) \union Children(s)]
       ELSE /\ todo' = [todo EXCEPT ![r] = @ \ {s}]
            /\ UNCHANGED <<lock, deleting>>
    /\ UNCHANGED <<table, pc, request, consuming, revoking, child, issued>>

ScanDone(r) ==
    /\ pc[r] \in {"update", "delete"}
    /\ todo[r] = {}
    /\ Goto(r, "commit")
    /\ UNCHANGED <<table, lock, request, scan, writeset, issued>>

-----------------------------------------------------------------------------
(* withTransaction: COMMIT or ROLLBACK, and the request is over.           *)

\* Mutant: the connection goes back to the pool with the transaction open.
EndRequestKeepsLocks(r) ==
    /\ UNCHANGED lock
    /\ sid' = [sid EXCEPT ![r] = None]
    /\ token' = [token EXCEPT ![r] = "refresh"]
    /\ found' = [found EXCEPT ![r] = {}]
    /\ todo' = [todo EXCEPT ![r] = {}]
    /\ want' = [want EXCEPT ![r] = None]
    /\ consuming' = [consuming EXCEPT ![r] = {}]
    /\ revoking' = [revoking EXCEPT ![r] = {}]
    /\ deleting' = [deleting EXCEPT ![r] = {}]
    /\ child' = [child EXCEPT ![r] = None]
    /\ Goto(r, "idle")

EndRequest(r) ==
    /\ lock' = [s \in Sessions |-> IF lock[s] = r THEN None ELSE lock[s]]
    /\ sid' = [sid EXCEPT ![r] = None]
    /\ token' = [token EXCEPT ![r] = "refresh"]
    /\ found' = [found EXCEPT ![r] = {}]
    /\ todo' = [todo EXCEPT ![r] = {}]
    /\ want' = [want EXCEPT ![r] = None]
    /\ consuming' = [consuming EXCEPT ![r] = {}]
    /\ revoking' = [revoking EXCEPT ![r] = {}]
    /\ deleting' = [deleting EXCEPT ![r] = {}]
    /\ child' = [child EXCEPT ![r] = None]
    /\ Goto(r, "idle")

Created(r) == {child[r]} \ {None}

\* The reply can be lost on its way to the client, COMMIT's own reply included.
Commit(r) ==
    /\ pc[r] = "commit"
    /\ rows' = (rows \union Created(r)) \ deleting[r]
    /\ born' = born \union Created(r)
    /\ parent' = [s \in Sessions |-> IF s \in Created(r) THEN sid[r] ELSE parent[s]]
    /\ consumed' = consumed \union consuming[r]
    /\ revoked' = revoked \union revoking[r]
    /\ issued' \in {issued, issued \union Created(r)}
    /\ EndRequest(r)

\* A statement fails, the connection is lost or the process stops.
Rollback(r) ==
    /\ pc[r] # "idle"
    /\ EndRequest(r)
    /\ UNCHANGED <<table, issued>>

\* PostgreSQL's deadlock detector cancels a transaction on a cycle of waits.
Awaited(r) == IF pc[r] = "find" THEN sid[r] ELSE want[r]
Waiting(r) == pc[r] # "idle" /\ Awaited(r) \in Sessions /\ ~LockFree(r, Awaited(r))
Deadlocked(r) ==
    \E C \in SUBSET Requests :
        /\ r \in C
        /\ \A q \in C : Waiting(q)
        /\ {lock[Awaited(q)] : q \in C} = C

DetectDeadlock(r) == Deadlocked(r) /\ Rollback(r)

\* Bound: every id of Sessions has been drawn, so the INSERT fails.
IdsExhausted(r) == pc[r] = "create" /\ Fresh = {} /\ Rollback(r)

-----------------------------------------------------------------------------
Statement(r) ==
    \/ SessionGone(r) \/ FindForUpdate(r) \/ ProbeChild(r)
    \/ SetSessionConsumed(r) \/ CreateSession(r)
    \/ TakeSnapshot(r) \/ ScanDone(r)
    \/ \E s \in Sessions : WaitForRow(r, s) \/ UpdateRow(r, s) \/ DeleteRow(r, s)
    \/ Commit(r)

Next ==
    \/ Login
    \/ \E r \in Requests :
        \/ StartRefresh(r) \/ StartLogout(r)
        \/ Statement(r)
        \/ Rollback(r) \/ DetectDeadlock(r) \/ IdsExhausted(r)

Spec == Init /\ [][Next]_vars

\* Row locks are granted in the order of the waiters' queue, so a statement
\* that can run again and again does run (strong fairness); the detector
\* inspects every wait that lasts.  Nothing promises a login, a logout or a
\* failure.
Fairness ==
    \A r \in Requests :
        /\ SF_vars(Statement(r))
        /\ WF_vars(DetectDeadlock(r))
        /\ WF_vars(IdsExhausted(r))

FairSpec == Spec /\ Fairness

-----------------------------------------------------------------------------
Labels == {"idle", "find", "probe", "consume", "create", "cte", "update", "delete", "commit"}

\* Every variable stays in its type.
TypeOK ==
    /\ rows \subseteq Sessions /\ born \subseteq Sessions
    /\ consumed \subseteq Sessions /\ revoked \subseteq Sessions
    /\ issued \subseteq Sessions
    /\ parent \in [Sessions -> Maybe(Sessions)]
    /\ lock \in [Sessions -> Maybe(Requests)]
    /\ pc \in [Requests -> Labels]
    /\ sid \in [Requests -> Maybe(Sessions)]
    /\ \A r \in Requests : pc[r] # "idle" => sid[r] \in Sessions
    /\ token \in [Requests -> TokenKinds]
    /\ want \in [Requests -> Maybe(Sessions)]
    /\ child \in [Requests -> Maybe(Sessions)]
    /\ found \in [Requests -> SUBSET Sessions]
    /\ todo \in [Requests -> SUBSET Sessions]
    /\ consuming \in [Requests -> SUBSET Sessions]
    /\ revoking \in [Requests -> SUBSET Sessions]
    /\ deleting \in [Requests -> SUBSET Sessions]

\* A refresh token is exchanged at most once, however many requests present it
\* at the same time and whatever failed, was logged out or was lost before
\* (refreshService.ts: "Each refresh token is single-use").
SingleUse ==
    \A c, d \in born : parent[c] # None /\ parent[c] = parent[d] => c = d

\* A consumed token has a successor and a session with a successor is consumed:
\* the two writes of a rotation take effect together or not at all.
RotationIsAtomic ==
    \A s \in born : s \in consumed <=> \E c \in born : parent[c] = s

\* A session whose refresh token still works.
Live == rows \ (consumed \union revoked)

\* The table stays a forest over ids that were rows: what a drawn id inherits
\* from a row deleted long ago is nothing.
Lineage ==
    /\ rows \union consumed \union revoked \union issued \subseteq born
    /\ \A s \in Sessions :
        IF s \in born THEN parent[s] \in Maybe(born) ELSE parent[s] = None

\* What a request read under its row lock stays true until it commits: the
\* session it is rotating is live and locked, the id it drew is unused, and
\* whatever it has written is a row that it has locked.  SingleUse and
\* RotationIsAtomic rest on it.
Rotating(r) ==
    \/ pc[r] \in {"probe", "consume", "create"}
    \/ child[r] # None

Protected(r) ==
    /\ Rotating(r) => sid[r] \in Live /\ lock[sid[r]] = r
    /\ consuming[r] = IF pc[r] = "create" \/ child[r] # None THEN {sid[r]} ELSE {}
    /\ child[r] # None =>
        /\ pc[r] = "commit"
        /\ child[r] \notin born
        /\ \A q \in Requests : child[q] = child[r] => q = r
    /\ \A s \in revoking[r] \union deleting[r] : s \in rows /\ lock[s] = r
    /\ \A s \in Sessions : lock[s] = r => s \in rows /\ pc[r] # "idle"

LocksProtect == \A r \in Requests : Protected(r)

\* A token whose session is revoked, consumed or deleted when the rotation
\* commits is never rotated, although all three were read statements earlier.
RotatesOnlyLiveSessions ==
    [][\A c \in Sessions : c \in born' \ born /\ parent'[c] # None
            => parent'[c] \in Live]_vars

\* A revocation that commits has revoked every row its CTE found, a row that
\* it had to wait for included.
RevocationCoversSnapshot ==
    [][\A r \in Requests : Commit(r) => found[r] \intersect rows' \subseteq revoked']_vars

\* "marks the target session and all its descendants as revoked"
\* (docs/user-session-repositories.md): when the revocation commits, so is
\* every descendant that exists then.
RevokesWholeTree ==
    [][\A r \in Requests, s \in Sessions :
            Commit(r) /\ found[r] # {} /\ s = sid[r]
                => Descendants(s)' \subseteq revoked']_vars

\* Every request is answered: no cycle of row locks and no lock left behind
\* keeps it waiting for ever.
EveryRequestEnds ==
    \A r \in Requests : pc[r] # "idle" ~> pc[r] = "idle"

\* The rotation protocol implements TokenFamily: each commit is one atomic step
\* of it, and everything a request does before it commits is invisible.
StatusOf(s) ==
    CASE s \notin born   -> "unborn"
      [] s \in born \ rows -> "gone"
      [] s \in rows \intersect revoked -> "revoked"
      [] s \in (rows \intersect consumed) \ revoked -> "used"
      [] s \in Live -> "live"

statusOf == [s \in Sessions |-> StatusOf(s)]

Family == INSTANCE TokenFamily WITH status <- statusOf
ImplementsTokenFamily == Family!FSpec
=============================================================================
