---------------------------- MODULE SessionStore ----------------------------
(***************************************************************************)
(* The server-side sessions of src/src/lib/sessionStore.ts behind the      *)
(* middleware and routes of src/src/middleware/session.ts.  The store's    *)
(* methods run to completion; a request waits between the lookup of its    *)
(* session and what its route does with it, where others, and the sweep,   *)
(* go on.                                                                  *)
(***************************************************************************)
EXTENDS Naturals, FiniteSets

CONSTANTS
    Opaque,     \* tokens that create may draw
    Visits,     \* authenticated requests
    Ttl,        \* ttlMs
    MaxClock    \* time that passes (a bound)

ASSUME TokensAssumption == Opaque # {} /\ Ttl \in Nat

VARIABLES
    ssClock,
    stored,         \* sessions: tokens in the Map
    expiresAt,      \* their expiresAt
    totalCreated, expiredCleaned,
    visit,          \* each request: where it is, its route and its token
    drawn,          \* observed: tokens created
    ended,          \* observed: tokens logged out or past their expiresAt
    removed         \* observed: sessions removed by delete and stop

storeVars == <<ssClock, stored, expiresAt, totalCreated, expiredCleaned, visit, drawn, ended, removed>>

Routes == {"me", "logout", "touch"}
Expired(t) == ssClock >= expiresAt[t]

StoreInit ==
    /\ ssClock = 0
    /\ stored = {} /\ expiresAt = [t \in Opaque |-> 0]
    /\ totalCreated = 0 /\ expiredCleaned = 0
    /\ visit = [v \in Visits |-> [at |-> "idle", route |-> "me", token |-> CHOOSE t \in Opaque : TRUE]]
    /\ drawn = {} /\ ended = {} /\ removed = 0

Goes(v, at) == visit' = [visit EXCEPT ![v].at = at]

\* POST /session/login.
Create(t) ==
    /\ t \notin drawn /\ drawn' = drawn \union {t}
    /\ stored' = stored \union {t}
    /\ expiresAt' = [expiresAt EXCEPT ![t] = ssClock + Ttl]
    /\ totalCreated' = totalCreated + 1
    /\ UNCHANGED <<ssClock, expiredCleaned, visit, ended, removed>>

\* Evict the expired sessions of S.
Evict(S) ==
    LET gone == {t \in S \intersect stored : Expired(t)} IN
    /\ stored' = stored \ gone
    /\ expiredCleaned' = expiredCleaned + Cardinality(gone)

\* sessionAuth: the middleware of every route below; get evicts what expired.
Authenticate(v, r, t) ==
    /\ visit[v].at = "idle"
    /\ visit' = [visit EXCEPT ![v] =
         [at |-> IF t \in stored /\ ~Expired(t) THEN "authenticated" ELSE "unauthorized",
          route |-> r, token |-> t]]
    /\ Evict({t})
    /\ UNCHANGED <<ssClock, expiresAt, totalCreated, drawn, ended, removed>>

ReadMe(v) ==
    /\ visit[v].at = "authenticated" /\ visit[v].route = "me"
    /\ Goes(v, "answered")
    /\ UNCHANGED <<ssClock, stored, expiresAt, totalCreated, expiredCleaned, drawn, ended, removed>>

\* POST /session/logout; the session may have gone since.
Logout(v) ==
    LET t == visit[v].token IN
    /\ visit[v].at = "authenticated" /\ visit[v].route = "logout"
    /\ Goes(v, "answered")
    /\ stored' = stored \ {t}
    /\ removed' = removed + Cardinality(stored \intersect {t})
    /\ ended' = ended \union {t}
    /\ UNCHANGED <<ssClock, expiresAt, totalCreated, expiredCleaned, drawn>>

Extend(t) == expiresAt' = [expiresAt EXCEPT ![t] = ssClock + Ttl]

\* Mutant: the session is written back as it was read.
TouchWritesBack(v) ==
    LET t == visit[v].token IN
    /\ visit[v].at = "authenticated" /\ visit[v].route = "touch"
    /\ Goes(v, "answered")
    /\ stored' = stored \union {t} /\ Extend(t)
    /\ UNCHANGED <<ssClock, totalCreated, expiredCleaned, drawn, ended, removed>>

\* touch, which looks the session up again; only a route of a caller's own calls it.
Touch(v) ==
    LET t == visit[v].token IN
    /\ visit[v].at = "authenticated" /\ visit[v].route = "touch"
    /\ Goes(v, "answered")
    /\ Evict({t})
    /\ IF t \in stored /\ ~Expired(t) THEN Extend(t) ELSE UNCHANGED expiresAt
    /\ UNCHANGED <<ssClock, totalCreated, drawn, ended, removed>>

Sweep ==
    /\ Evict(Opaque)
    /\ UNCHANGED <<ssClock, expiresAt, totalCreated, visit, drawn, ended, removed>>

\* Graceful shutdown clears the Map; requests in progress still end.
StopStore ==
    /\ stored # {} /\ stored' = {}
    /\ removed' = removed + Cardinality(stored) /\ ended' = ended \union stored
    /\ UNCHANGED <<ssClock, expiresAt, totalCreated, expiredCleaned, visit, drawn>>

PassTime ==
    /\ ssClock < MaxClock /\ ssClock' = ssClock + 1
    /\ ended' = ended \union {t \in drawn : ssClock' >= expiresAt[t]}
    /\ UNCHANGED <<stored, expiresAt, totalCreated, expiredCleaned, visit, drawn, removed>>

StoreNext ==
    \/ \E t \in Opaque : Create(t)
    \/ \E v \in Visits :
        \/ \E r \in Routes, t \in Opaque : Authenticate(v, r, t)
        \/ ReadMe(v) \/ Logout(v) \/ Touch(v)
    \/ Sweep \/ StopStore \/ PassTime

StoreSpec == StoreInit /\ [][StoreNext]_storeVars

-----------------------------------------------------------------------------
\* A session that was logged out, or whose time was over once, is never live again,
\* whatever requests were already authenticated with it; and every session created
\* is stored, or was removed, or is in the count of expired ones.
EndedSessionsStayEnded ==
    /\ \A t \in ended : t \in stored => Expired(t)
    /\ totalCreated = Cardinality(stored) + expiredCleaned + removed
=============================================================================
