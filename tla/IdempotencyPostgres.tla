------------------------- MODULE IdempotencyPostgres -------------------------
(***************************************************************************)
(* createIdempotencyMiddleware with the PostgresIdempotencyStore           *)
(* (src/src/middleware/idempotency.ts) shared by several instances, for    *)
(* one idempotency key: rows of different keys share only the connection   *)
(* pool.  checkAndReserve is a READ COMMITTED transaction of two           *)
(* statements; save and release are single statements that nobody awaits.  *)
(***************************************************************************)
EXTENDS FiniteSets, Naturals, FiniteSetsExt

CONSTANTS
    Requests,      \* HTTP requests with the same Idempotency-Key
    Fingerprints,  \* what fingerprint(req) tells payloads apart by
    PoolSize,      \* connections of the pool that the requests share
    Faults,        \* which faults may happen (a bound)
    None           \* no request

FaultKinds == {"db error", "expiry", "client gone", "crash"}

ASSUME NoneAssumption == None \notin Requests
ASSUME PoolAssumption == PoolSize \in Nat \ {0}
ASSUME FaultsAssumption == Faults \subseteq FaultKinds

VARIABLES
    \* The committed row of the key, and the transaction that has it locked.
    state,     \* "none" (no row), "inflight", "completed" or "released"
    response,  \* the request whose response its columns hold
    overdue,   \* expires_at has passed
    lock,      \* who has locked the row or inserted it
    \* The requests.
    pc, fp,
    conns,     \* connections each request holds
    source,    \* the request whose response it was replayed
    saves,     \* responses sent whose save has not run yet
    releases,  \* releases that have not run yet
    \* Observed, not stored anywhere.
    overlapped,  \* two requests were inside checkAndReserve at the same time
    troubled     \* a fault happened

row      == <<state, response, overdue>>
pending  == <<saves, releases>>
observed == <<overlapped, troubled>>
vars     == <<row, lock, pc, fp, conns, source, pending, observed>>

Checking == {"connect", "select", "delete", "insert", "commit"}
Labels == Checking \union
    {"unsent", "handling", "orphaned", "stored", "released",
     "replayed", "conflict", "busy", "rejected", "lost"}

Init ==
    /\ state = "none" /\ response = None /\ overdue = FALSE /\ lock = None
    /\ pc = [r \in Requests |-> "unsent"]
    /\ fp \in [Requests -> Fingerprints]
    /\ conns = [r \in Requests |-> 0]
    /\ source = [r \in Requests |-> None]
    /\ saves = {} /\ releases = {}
    /\ overlapped = FALSE /\ troubled = FALSE

Goto(r, label) == pc' = [pc EXCEPT ![r] = label]
LockFree(r) == lock \in {None, r}
InUse == MapThenSumSet(LAMBDA r : conns[r], Requests)
\* Mutant: the query selects reservations only.
ValidReservation == state = "inflight" /\ ~overdue

\* expires_at IS NULL OR expires_at > NOW().
Valid == state # "none" /\ ~overdue
InCheck == {r \in Requests : pc[r] \in Checking}
Trouble(kind) == kind \in Faults /\ troubled' = TRUE

-----------------------------------------------------------------------------
(* checkAndReserve.                                                        *)

Receive(r) ==
    /\ pc[r] = "unsent"
    /\ overlapped' = (overlapped \/ InCheck # {})
    /\ Goto(r, "connect")
    /\ UNCHANGED <<row, lock, fp, conns, source, pending, troubled>>

\* pool.connect() and BEGIN.
Connect(r) ==
    /\ pc[r] = "connect"
    /\ InUse < PoolSize
    /\ conns' = [conns EXCEPT ![r] = @ + 1]
    /\ Goto(r, "select")
    /\ UNCHANGED <<row, lock, fp, source, pending, observed>>

\* The check ends: every connection that r holds, the ones of the calls that
\* called this one included, is released, and r's locks with them.
Leave(r, label) ==
    /\ Goto(r, label)
    /\ conns' = [conns EXCEPT ![r] = 0]
    /\ lock' = IF lock = r THEN None ELSE lock

\* Mutant: a pool without connectionTimeoutMillis.
ConnectWaitsForEver(r) == pc[r] = "connect" /\ InUse > PoolSize /\ UNCHANGED vars

\* No connection becomes free for connectionTimeoutMillis.  The first call
\* rejects, and the middleware never calls next(); a call made by an outer call
\* rejects into the outer catch, which fails open.
ConnectTimesOut(r) ==
    /\ pc[r] = "connect"
    /\ InUse = PoolSize
    /\ Leave(r, IF conns[r] = 0 THEN "rejected" ELSE "handling")
    /\ troubled' = TRUE
    /\ UNCHANGED <<row, fp, source, pending, overlapped>>

\* SELECT ... FOR UPDATE sees no valid row.
SelectNothing(r) ==
    /\ pc[r] = "select"
    /\ ~Valid
    /\ Goto(r, "insert")
    /\ UNCHANGED <<row, lock, fp, conns, source, pending, observed>>

\* It sees a row, waits for its lock, and ROLLBACK.
SelectInFlight(r) ==
    /\ pc[r] = "select"
    /\ LockFree(r) /\ Valid /\ state = "inflight"
    /\ Leave(r, "busy")
    /\ UNCHANGED <<row, fp, source, pending, observed>>

SelectCompleted(r) ==
    /\ pc[r] = "select"
    /\ LockFree(r) /\ Valid /\ state = "completed"
    /\ IF fp[response] = fp[r]
       THEN Leave(r, "replayed") /\ source' = [source EXCEPT ![r] = response]
       ELSE Leave(r, "conflict") /\ UNCHANGED source
    /\ UNCHANGED <<row, fp, pending, observed>>

\* ROLLBACK, and the transaction is over, but its client is only released when
\* the calls that follow have returned.
SelectReleased(r) ==
    /\ pc[r] = "select"
    /\ LockFree(r) /\ Valid /\ state = "released"
    /\ Goto(r, "delete")
    /\ UNCHANGED <<row, lock, fp, conns, source, pending, observed>>

\* deleteKey, on a connection of its own, then checkAndReserve again.
DeleteKey(r) ==
    /\ pc[r] = "delete"
    /\ InUse < PoolSize /\ LockFree(r)
    /\ state' = "none" /\ response' = None /\ overdue' = FALSE
    /\ Goto(r, "connect")
    /\ UNCHANGED <<lock, fp, conns, source, pending, observed>>

\* deleteKey swallows its error.
DeleteFails(r) ==
    /\ pc[r] = "delete"
    /\ InUse = PoolSize
    /\ Goto(r, "connect")
    /\ troubled' = TRUE
    /\ UNCHANGED <<row, lock, fp, conns, source, pending, overlapped>>

\* INSERT ... ON CONFLICT (key) DO UPDATE: waits for whoever inserts or updates
\* the same key, and then overwrites what it wrote.
Insert(r) ==
    /\ pc[r] = "insert"
    /\ LockFree(r)
    /\ lock' = r
    /\ Goto(r, "commit")
    /\ UNCHANGED <<row, fp, conns, source, pending, observed>>

\* Mutant: the row is written only when the response is known.
CommitNothing(r) ==
    /\ pc[r] = "commit"
    /\ Leave(r, "handling")
    /\ UNCHANGED <<row, fp, source, pending, observed>>

Commit(r) ==
    /\ pc[r] = "commit"
    /\ state' = "inflight" /\ overdue' = FALSE
    /\ Leave(r, "handling")
    /\ UNCHANGED <<response, fp, source, pending, observed>>

\* A statement fails: ROLLBACK, and 'new'.
FailOpen(r) ==
    /\ pc[r] \in {"select", "insert", "commit"}
    /\ Trouble("db error")
    /\ Leave(r, "handling")
    /\ UNCHANGED <<row, fp, source, pending, overlapped>>

-----------------------------------------------------------------------------
(* The handler and what the middleware does when the response ends.        *)

Finish(r) ==
    /\ pc[r] = "handling"
    /\ Goto(r, "stored")
    /\ saves' = saves \union {r}
    /\ UNCHANGED <<row, lock, fp, conns, source, releases, observed>>

FinishError(r) ==
    /\ pc[r] = "handling"
    /\ Goto(r, "released")
    /\ releases' = releases \union {r}
    /\ UNCHANGED <<row, lock, fp, conns, source, saves, observed>>

\* 'close' before 'finish'; the handler goes on.
ClientGone(r) ==
    /\ pc[r] = "handling"
    /\ Trouble("client gone")
    /\ Goto(r, "orphaned")
    /\ releases' = releases \union {r}
    /\ UNCHANGED <<row, lock, fp, conns, source, saves, overlapped>>

OrphanEnds(r) ==
    /\ pc[r] = "orphaned"
    /\ Goto(r, "lost")
    /\ UNCHANGED <<row, lock, fp, conns, source, pending, observed>>

\* save: UPDATE ... WHERE key, whatever state the row is in.
Save(r) ==
    /\ r \in saves
    /\ InUse < PoolSize /\ LockFree(r)
    /\ IF state = "none" THEN UNCHANGED row
       ELSE state' = "completed" /\ response' = r /\ overdue' = FALSE
    /\ saves' = saves \ {r}
    /\ UNCHANGED <<lock, pc, fp, conns, source, releases, observed>>

\* release: UPDATE ... WHERE key AND state = 'inflight'.
Release(r) ==
    /\ r \in releases
    /\ InUse < PoolSize /\ LockFree(r)
    /\ state' = IF state = "inflight" THEN "released" ELSE state
    /\ releases' = releases \ {r}
    /\ UNCHANGED <<response, overdue, lock, pc, fp, conns, source, saves, observed>>

\* Either of them fails, or finds no connection; the error is logged.
AfterwardsFails(r) ==
    /\ r \in saves \union releases
    /\ InUse = PoolSize \/ "db error" \in Faults
    /\ troubled' = TRUE
    /\ saves' = saves \ {r} /\ releases' = releases \ {r}
    /\ UNCHANGED <<row, lock, pc, fp, conns, source, overlapped>>

-----------------------------------------------------------------------------
(* The rest of the world.                                                  *)

Expire ==
    /\ Valid
    /\ Trouble("expiry")
    /\ overdue' = TRUE
    /\ UNCHANGED <<state, response, lock, pc, fp, conns, source, pending, overlapped>>

CleanupExpired ==
    /\ overdue /\ lock = None
    /\ state' = "none" /\ response' = None /\ overdue' = FALSE
    /\ UNCHANGED <<lock, pc, fp, conns, source, pending, observed>>

\* The instance that serves r stops, and with it r's transaction and whatever
\* it had not sent to the database yet.
Crash(r) ==
    /\ pc[r] \in Checking \union {"handling", "orphaned"} \/ r \in saves \union releases
    /\ Trouble("crash")
    /\ Leave(r, IF pc[r] \in Checking \union {"handling", "orphaned"} THEN "lost" ELSE pc[r])
    /\ saves' = saves \ {r} /\ releases' = releases \ {r}
    /\ UNCHANGED <<row, fp, source, overlapped>>

Statement(r) ==
    \/ Connect(r) \/ ConnectTimesOut(r)
    \/ SelectNothing(r) \/ SelectInFlight(r) \/ SelectCompleted(r) \/ SelectReleased(r)
    \/ DeleteKey(r) \/ DeleteFails(r)
    \/ Insert(r) \/ Commit(r)

Afterwards(r) == Save(r) \/ Release(r)

Next ==
    \/ \E r \in Requests :
        \/ Receive(r) \/ Statement(r) \/ FailOpen(r)
        \/ Finish(r) \/ FinishError(r) \/ ClientGone(r) \/ OrphanEnds(r)
        \/ Afterwards(r) \/ AfterwardsFails(r)
        \/ Crash(r)
    \/ Expire \/ CleanupExpired

Spec == Init /\ [][Next]_vars

\* Statements run, a wait for a connection is cut short by the pool's timeout,
\* and row locks are granted in turn; a handler may take as long as it likes.
FairSpec == Spec /\ \A r \in Requests : SF_vars(Statement(r))

-----------------------------------------------------------------------------
\* Every variable stays in its type.
TypeOK ==
    /\ state \in {"none", "inflight", "completed", "released"}
    /\ response \in Requests \union {None} /\ lock \in Requests \union {None}
    /\ {overdue, overlapped, troubled} \subseteq BOOLEAN
    /\ pc \in [Requests -> Labels]
    /\ fp \in [Requests -> Fingerprints]
    /\ conns \in [Requests -> 0 .. PoolSize]
    /\ source \in [Requests -> Requests \union {None}]
    /\ saves \subseteq Requests /\ releases \subseteq Requests

\* The work of a key is never being done twice at once (idempotency.ts:
\* "Concurrent requests with the same idempotency key are serialized").
OneHandlerAtATime ==
    \A r, q \in Requests :
        /\ pc[r] \in {"handling", "orphaned"} /\ pc[q] \in {"handling", "orphaned"}
        => r = q

\* It is not, as long as no two requests are inside checkAndReserve together
\* and no statement fails, no client leaves, nothing expires or crashes: a retry
\* that comes after the reservation is caught.
SequentialRetriesAreCaught == ~overlapped /\ ~troubled => OneHandlerAtATime

\* A replay is the stored response to a request with the same payload, whatever
\* races the reservations lost.
ReplayIsFaithful ==
    \A r \in Requests : pc[r] = "replayed" =>
        source[r] # None /\ pc[source[r]] = "stored" /\ fp[source[r]] = fp[r]

\* What a client that retries may rely on.
RetriesAreSound == SequentialRetriesAreCaught /\ ReplayIsFaithful

\* A response that was saved is replayed until it expires: neither a late
\* release nor a reservation takes the key back while nothing overlaps or fails.
SavedResponsesStay ==
    [][state = "completed" /\ ~overdue /\ ~overlapped' /\ ~troubled'
        => state' = "completed"]_vars

\* Every check ends, although it can ask for a second connection while it holds
\* one and the pool may have none.
ChecksEnd == \A r \in Requests : pc[r] \in Checking ~> pc[r] \notin Checking
=============================================================================
