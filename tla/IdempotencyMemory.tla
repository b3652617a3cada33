-------------------------- MODULE IdempotencyMemory --------------------------
(***************************************************************************)
(* createIdempotencyMiddleware with its default store, the                 *)
(* InMemoryIdempotencyStore (src/src/middleware/idempotency.ts), as        *)
(* POST /api/investments uses it.  The store's methods run to completion   *)
(* in one turn of the event loop; requests overlap because the route       *)
(* handler waits for the database, and because a client that disconnects   *)
(* does not stop it.                                                       *)
(***************************************************************************)
EXTENDS FiniteSets, Naturals

CONSTANTS
    Requests,      \* HTTP requests, each sent once (a retry is another one)
    Keys,          \* idempotency keys
    Fingerprints,  \* what fingerprint(req) tells payloads apart by
    None           \* no request

ASSUME NoneAssumption == None \notin Requests

VARIABLES
    records,   \* Map: the request whose response is stored under each key
    expired,   \* keys whose record is past its expiresAt
    inFlight,  \* Set: keys that are reserved
    pc,        \* where each request is
    key, fp,   \* its Idempotency-Key header and its fingerprint
    source,    \* the request whose response it was replayed
    effects,   \* observed: requests whose handler has done its work
    reopened   \* observed: how often each key was reserved or answered, then freed

store   == <<records, expired, inFlight>>
request == <<key, fp, source>>
vars    == <<store, pc, request, effects, reopened>>

Labels == {"unsent",     \* not received yet
           "handling",   \* reserved 'new'; the handler runs
           "orphaned",   \* the same, and the client is gone
           "stored", "released",           \* answered by the handler
           "replayed", "conflict", "busy", \* answered by the middleware
           "lost"}       \* the process stopped, or nobody was left to answer

Init ==
    /\ records = [k \in Keys |-> None]
    /\ expired = {} /\ inFlight = {} /\ effects = {}
    /\ pc = [r \in Requests |-> "unsent"]
    /\ key \in [Requests -> Keys]
    /\ fp \in [Requests -> Fingerprints]
    /\ source = [r \in Requests |-> None]
    /\ reopened = [k \in Keys |-> 0]

Goto(r, label) == pc' = [pc EXCEPT ![r] = label]
Reopen(k) == reopened' = [reopened EXCEPT ![k] = @ + 1]

\* pruneExpired leaves a record only while its time has not come.
Cached(k) == records[k] # None /\ k \notin expired

\* Mutant: the fingerprint is not compared.
ReplayAnyPayload(r) ==
    /\ pc[r] = "unsent"
    /\ Cached(key[r])
    /\ Goto(r, "replayed")
    /\ source' = [source EXCEPT ![r] = records[key[r]]]
    /\ UNCHANGED <<store, key, fp, effects, reopened>>

\* checkAndReserve finds a record: replayed, or 409 for another payload.
Replay(r) ==
    /\ pc[r] = "unsent"
    /\ Cached(key[r])
    /\ IF fp[records[key[r]]] = fp[r]
       THEN /\ Goto(r, "replayed")
            /\ source' = [source EXCEPT ![r] = records[key[r]]]
       ELSE Goto(r, "conflict") /\ UNCHANGED source
    /\ UNCHANGED <<store, key, fp, effects, reopened>>

\* Prunes an expired record, whatever it returns.
Prune(k) ==
    /\ records' = [records EXCEPT ![k] = IF k \in expired THEN None ELSE @]
    /\ expired' = expired \ {k}

\* checkAndReserve returns 'inflight': 409.
RefuseInFlight(r) ==
    /\ pc[r] = "unsent"
    /\ ~Cached(key[r]) /\ key[r] \in inFlight
    /\ Prune(key[r])
    /\ Goto(r, "busy")
    /\ UNCHANGED <<inFlight, request, effects, reopened>>

\* Mutant: the check and the reservation are not one turn of the event loop.
ReserveUnchecked(r) ==
    /\ pc[r] = "unsent"
    /\ ~Cached(key[r])
    /\ Prune(key[r])
    /\ inFlight' = inFlight \union {key[r]}
    /\ Goto(r, "handling")
    /\ UNCHANGED <<request, effects, reopened>>

\* checkAndReserve returns 'new': the handler is called.
Reserve(r) ==
    /\ pc[r] = "unsent"
    /\ ~Cached(key[r]) /\ key[r] \notin inFlight
    /\ Prune(key[r])
    /\ inFlight' = inFlight \union {key[r]}
    /\ Goto(r, "handling")
    /\ UNCHANGED <<request, effects, reopened>>

\* The handler does what the request asks for, answered or not.
Handle(r) ==
    /\ pc[r] \in {"handling", "orphaned"}
    /\ effects' = effects \union {r}
    /\ UNCHANGED <<store, pc, request, reopened>>

\* Mutant: a response is stored without giving the reservation back.
FinishKeepsReservation(r) ==
    /\ pc[r] = "handling"
    /\ records' = [records EXCEPT ![key[r]] = r]
    /\ expired' = expired \ {key[r]}
    /\ Goto(r, "stored")
    /\ UNCHANGED <<inFlight, request, effects, reopened>>

\* 'finish' with a status below 500: save.
Finish(r) ==
    /\ pc[r] = "handling"
    /\ records' = [records EXCEPT ![key[r]] = r]
    /\ expired' = expired \ {key[r]}
    /\ inFlight' = inFlight \ {key[r]}
    /\ Goto(r, "stored")
    /\ UNCHANGED <<request, effects, reopened>>

\* 'finish' with a status of 500 or more: release, so that a retry may run.
FinishError(r) ==
    /\ pc[r] = "handling"
    /\ inFlight' = inFlight \ {key[r]}
    /\ Reopen(key[r])
    /\ Goto(r, "released")
    /\ UNCHANGED <<records, expired, request, effects>>

\* 'close' before 'finish': the client is gone, the key is released and the
\* handler goes on.
ClientGone(r) ==
    /\ pc[r] = "handling"
    /\ inFlight' = inFlight \ {key[r]}
    /\ Reopen(key[r])
    /\ Goto(r, "orphaned")
    /\ UNCHANGED <<records, expired, request, effects>>

\* An orphaned handler ends; its response goes nowhere and emits no 'finish'.
OrphanEnds(r) ==
    /\ pc[r] = "orphaned"
    /\ Goto(r, "lost")
    /\ UNCHANGED <<store, request, effects, reopened>>

\* ttlMs pass (when the store has a TTL).
Expire(k) ==
    /\ Cached(k)
    /\ expired' = expired \union {k}
    /\ Reopen(k)
    /\ UNCHANGED <<records, inFlight, pc, request, effects>>

\* The process restarts: the Map and the Set are gone, and so are the handlers.
Restart ==
    /\ inFlight # {} \/ \E k \in Keys : Cached(k)
    /\ records' = [k \in Keys |-> None]
    /\ expired' = {} /\ inFlight' = {}
    /\ reopened' = [k \in Keys |->
          IF k \in inFlight \/ Cached(k) THEN reopened[k] + 1 ELSE reopened[k]]
    /\ pc' = [r \in Requests |-> IF pc[r] \in {"handling", "orphaned"} THEN "lost" ELSE pc[r]]
    /\ UNCHANGED <<request, effects>>

HandlerEnds(r) == Finish(r) \/ FinishError(r) \/ ClientGone(r)

Next ==
    \/ \E r \in Requests :
        \/ Replay(r) \/ RefuseInFlight(r) \/ Reserve(r)
        \/ Handle(r) \/ HandlerEnds(r) \/ OrphanEnds(r)
    \/ \E k \in Keys : Expire(k)
    \/ Restart

Spec == Init /\ [][Next]_vars

\* A handler answers or its client goes away.
FairSpec == Spec /\ \A r \in Requests : WF_vars(HandlerEnds(r))

-----------------------------------------------------------------------------
Active(k) == {r \in Requests : pc[r] = "handling" /\ key[r] = k}

\* Every variable stays in its type; only a record has an expiresAt.
TypeOK ==
    /\ records \in [Keys -> Requests \union {None}]
    /\ expired \subseteq {k \in Keys : records[k] # None} /\ inFlight \subseteq Keys
    /\ pc \in [Requests -> Labels]
    /\ key \in [Requests -> Keys] /\ fp \in [Requests -> Fingerprints]
    /\ source \in [Requests -> Requests \union {None}]
    /\ effects \subseteq Requests
    /\ reopened \in [Keys -> Nat]

\* A key is reserved exactly while one request with a client waiting is being
\* handled under it.
ReservedWhileHandled ==
    \A k \in Keys :
        IF k \in inFlight THEN \E r \in Requests : Active(k) = {r} ELSE Active(k) = {}

\* A replay is the response to a request with the same key and payload whose
\* handler ran to its end, across expiry, release and restart.
ReplayIsFaithful ==
    \A r \in Requests : pc[r] = "replayed" =>
        /\ source[r] # None
        /\ pc[source[r]] = "stored" /\ key[source[r]] = key[r] /\ fp[source[r]] = fp[r]

\* No key stays reserved for ever ("preventing permanent lock-out after an
\* upstream error").
ReservationsEnd == \A k \in Keys : k \in inFlight ~> k \notin inFlight

\* The store implements IdempotentKey.
holderOf ==
    [k \in Keys |-> IF k \in inFlight THEN CHOOSE r \in Requests : r \in Active(k) ELSE None]
answerOf == [k \in Keys |-> IF Cached(k) THEN records[k] ELSE None]

Abstract == INSTANCE IdempotentKey WITH holder <- holderOf, answer <- answerOf
ImplementsIdempotentKey == Abstract!KSpec
=============================================================================
