----------------------------- MODULE RateLimits -----------------------------
(***************************************************************************)
(* The rate limiters, each for the requests of one client:                 *)
(*   - "registration": the sliding window of                               *)
(*     middleware/startupRegisterRateLimit.ts;                             *)
(*   - "tiers": fixed windows in memory (middleware/rateLimit.ts, which    *)
(*     bruteForceProtection.ts follows too), under the tiers of            *)
(*     middleware/startupAuthRateTierPolicy.ts, which share one store;     *)
(*   - "redis": the fixed window of security/rateLimit.ts in Redis, where  *)
(*     INCR and EXPIRE are two commands and errors let requests through.   *)
(* A limiter whose key is missing (perUser without a user) passes every    *)
(* request and keeps nothing.                                              *)
(***************************************************************************)
EXTENDS Integers, Sequences, FiniteSets

CONSTANTS
    TierLimit,   \* the limit of each tier
    MaxAllowed,  \* maxRequests of the sliding window and of the one in Redis
    Window,      \* windowMs
    MaxTime,     \* time that passes (a bound)
    MaxFailures, \* errors of Redis, and crashes (a bound)
    Never        \* no TTL

Tiers == DOMAIN TierLimit

ASSUME LimitsAssumption ==
    /\ TierLimit \in [Tiers -> Nat \ {0}] /\ MaxAllowed \in Nat \ {0}
    /\ "standard" \in Tiers /\ Tiers \intersect {"registration", "redis"} = {}
ASSUME TimesAssumption == {Window, MaxTime} \subseteq Nat /\ Never \notin 0 .. MaxTime /\ MaxFailures \in Nat

VARIABLES
    limiter,     \* the limiter of this behaviour
    rlClock,
    stamps,      \* timestamps of the client's RateLimitEntry
    windows,     \* the client's WindowEntry under each tier's prefix
    counter,     \* the key in Redis; count = 0: absent
    expiring,    \* a request has made it 1, and not set its TTL yet
    rlFaults,
    passed       \* observed: when requests were let through, since the start

limitVars == <<limiter, rlClock, stamps, windows, counter, expiring, rlFaults, passed>>

Counts == {"registration", "redis"} \union Tiers

NoWindow == [count |-> 0, resetAt |-> 0]
NoCounter == [count |-> 0, expiry |-> Never]

RateLimitsInit ==
    /\ limiter \in {"registration", "tiers", "redis"}
    /\ rlClock = 0 /\ rlFaults = 0
    /\ stamps = <<>>
    /\ windows = [t \in Tiers |-> NoWindow]
    /\ counter = NoCounter /\ expiring = FALSE
    /\ passed = [c \in Counts |-> <<>>]

Pass(c) == passed' = [passed EXCEPT ![c] = Append(@, rlClock)]

-----------------------------------------------------------------------------
\* The timestamps that filter keeps: they are in order, so the old ones come first.
Recent(ts) ==
    LET old == {n \in DOMAIN ts : ts[n] <= rlClock - Window}
    IN  SubSeq(ts, Cardinality(old) + 1, Len(ts))

\* Mutant: one request more.
FullAfterOneMore(ts) == Len(ts) > MaxAllowed

Full(ts) == Len(ts) >= MaxAllowed

\* createStartupRegisterRateLimit; a refused request only prunes the entry.
RegisterRequest ==
    /\ limiter = "registration"
    /\ LET entry == Recent(stamps) IN
       IF Full(entry)
       THEN stamps' = entry /\ UNCHANGED passed
       ELSE stamps' = Append(entry, rlClock) /\ Pass("registration")
    /\ UNCHANGED <<limiter, rlClock, windows, counter, expiring, rlFaults>>

-----------------------------------------------------------------------------
\* resolveTier: a privileged tier needs the shared secret.
TierOf(requested, secretMatches) ==
    IF requested \in Tiers /\ secretMatches THEN requested ELSE "standard"

\* InMemoryRateLimitStore.increment.
Increment(w) ==
    IF w.count = 0 \/ rlClock >= w.resetAt
    THEN [count |-> 1, resetAt |-> rlClock + Window]
    ELSE [w EXCEPT !.count = @ + 1]

\* Requests over the limit are counted as well; more than one is not told apart.
TierRequest(requested, secretMatches) ==
    LET t == TierOf(requested, secretMatches)
        w == Increment(windows[t])
    IN  /\ limiter = "tiers"
        /\ w.count <= TierLimit[t] + 1
        /\ windows' = [windows EXCEPT ![t] = w]
        /\ IF w.count > TierLimit[t] THEN UNCHANGED passed ELSE Pass(t)
        /\ UNCHANGED <<limiter, rlClock, stamps, counter, expiring, rlFaults>>

-----------------------------------------------------------------------------
Fails == rlFaults < MaxFailures /\ rlFaults' = rlFaults + 1

\* RedisRateLimitStore.increment: the request that made the counter 1 goes on with
\* EXPIRE, the others are decided at once.
Incr ==
    /\ limiter = "redis" /\ counter.count <= MaxAllowed
    /\ counter' = [counter EXCEPT !.count = @ + 1]
    /\ IF counter.count = 0
       THEN expiring' = TRUE /\ UNCHANGED passed
       ELSE /\ UNCHANGED expiring
            /\ IF counter.count + 1 > MaxAllowed THEN UNCHANGED passed ELSE Pass("redis")
    /\ UNCHANGED <<limiter, rlClock, stamps, windows, rlFaults>>

Expire ==
    /\ expiring /\ expiring' = FALSE
    /\ counter' = [counter EXCEPT !.expiry = rlClock + Window]
    /\ Pass("redis")
    /\ UNCHANGED <<limiter, rlClock, stamps, windows, rlFaults>>

\* INCR or EXPIRE fails, and the middleware lets the request through.
RedisFails ==
    /\ limiter = "redis" /\ Fails
    /\ expiring' \in {expiring, FALSE}
    /\ Pass("redis")
    /\ UNCHANGED <<limiter, rlClock, stamps, windows, counter>>

\* The process stops: what it kept in memory is gone, a counter stays as it is.
LimiterRestarts ==
    /\ Fails
    /\ stamps' = <<>>
    /\ windows' = [t \in Tiers |-> NoWindow]
    /\ expiring' = FALSE
    /\ passed' = [c \in Counts |-> IF c = "redis" THEN passed[c] ELSE <<>>]
    /\ UNCHANGED <<limiter, rlClock, counter>>

Tick ==
    /\ rlClock < MaxTime /\ rlClock' = rlClock + 1
    /\ counter' = IF counter.expiry = rlClock' THEN NoCounter ELSE counter
    /\ UNCHANGED <<limiter, stamps, windows, expiring, rlFaults, passed>>

RateLimitsNext ==
    \/ RegisterRequest
    \/ \E requested \in Tiers, secretMatches \in BOOLEAN : TierRequest(requested, secretMatches)
    \/ Incr \/ Expire \/ RedisFails
    \/ LimiterRestarts \/ Tick

RateLimitsSpec == RateLimitsInit /\ [][RateLimitsNext]_limitVars

-----------------------------------------------------------------------------
\* Requests that c let through in the Window that ends at time t.
PassedBefore(c, t) ==
    Cardinality({n \in DOMAIN passed[c] : t - Window < passed[c][n] /\ passed[c][n] <= t})

\* Wherever a Window is put, the sliding limiter lets at most its limit through in
\* it, and a fixed one at most twice its limit, whatever the other tiers do; in
\* Redis, as long as no command failed, whatever passes between INCR and EXPIRE.
AdmissionsAreBounded ==
    \A t \in 0 .. MaxTime :
        /\ PassedBefore("registration", t) <= MaxAllowed
        /\ \A tier \in Tiers : PassedBefore(tier, t) <= 2 * TierLimit[tier]
        /\ rlFaults = 0 => PassedBefore("redis", t) <= 2 * MaxAllowed
=============================================================================
