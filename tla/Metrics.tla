------------------------------ MODULE Metrics ------------------------------
(***************************************************************************)
(* MetricsCollector (src/src/lib/metrics.ts) under metricsMiddleware       *)
(* (src/src/middleware/metricsMiddleware.ts), which records a request when *)
(* its response ends.  A key is a metric's name with its labels.           *)
(***************************************************************************)
EXTENDS Integers, FiniteSets, Functions

CONSTANTS
    Traffic,         \* requests
    MetricRoutes,    \* label "route"
    MaxCardinality,  \* maxCardinality
    MaxPoints        \* maxPoints

ASSUME MetricsAssumption ==
    /\ IsFiniteSet(Traffic) /\ IsFiniteSet(MetricRoutes)
    /\ MaxCardinality \in Nat /\ MaxPoints \in Nat \ {0}

VARIABLES
    response,        \* each request: where it is, its route and its status
    counters,        \* counter of each key; 0: absent
    observations,    \* number of observations of each histogram; 0: absent
    cardinalityCount,
    activeConnections,
    resets           \* observed: reset has been called

metricVars == <<response, counters, observations, cardinalityCount, activeConnections, resets>>

Codes == {200, 404, 500}
ClassOf(code) == code \div 100

HttpKey(route, code) == <<"http_requests_total", route, code>>
ErrorKey(route, code) == <<"errors_total", route, code>>
DurationKey(route, code) == <<"http_request_duration_ms", route, ClassOf(code)>>

CounterKeys == {HttpKey(r, c) : r \in MetricRoutes, c \in Codes}
                 \union {ErrorKey(r, c) : r \in MetricRoutes, c \in Codes \ {200}}
HistogramKeys == {DurationKey(r, c) : r \in MetricRoutes, c \in Codes}

Kept == {k \in CounterKeys : counters[k] > 0} \union {k \in HistogramKeys : observations[k] > 0}

MetricsInit ==
    /\ response = [t \in Traffic |-> [at |-> "none"]]
    /\ counters = [k \in CounterKeys |-> 0] /\ observations = [k \in HistogramKeys |-> 0]
    /\ cardinalityCount = 0 /\ activeConnections = 0 /\ resets = FALSE

Arrives(t) ==
    /\ response[t].at = "none"
    /\ response' = [response EXCEPT ![t] = [at |-> "open"]]
    /\ activeConnections' = activeConnections + 1
    /\ UNCHANGED <<counters, observations, cardinalityCount, resets>>

\* The keys that one response touches, in the order in which they are recorded.
Touched(route, code) ==
    IF code < 400 THEN <<HttpKey(route, code), DurationKey(route, code)>>
    ELSE <<HttpKey(route, code), DurationKey(route, code), ErrorKey(route, code)>>

\* Mutant: the limit is looked at once for all of them.
RecordedTogether(keys) ==
    {n \in DOMAIN keys : keys[n] \in Kept \/ cardinalityCount < MaxCardinality}

\* checkCardinality, for each key of the list after the ones before it: a key that is
\* there already is recorded, a new one while there is room.
Recorded(keys) ==
    {n \in DOMAIN keys :
        \/ keys[n] \in Kept
        \/ cardinalityCount + Cardinality({m \in 1 .. n : keys[m] \notin Kept}) <= MaxCardinality}

\* res.end: incrementCounter and recordHistogram; an observation beyond maxPoints
\* pushes the oldest out.
Ends(t, route, code) ==
    LET keys == Touched(route, code)
        recorded == {keys[n] : n \in Recorded(keys)}
    IN  /\ response[t].at = "open"
        /\ response' = [response EXCEPT ![t] = [at |-> "ended", route |-> route, code |-> code]]
        /\ activeConnections' = IF activeConnections = 0 THEN 0 ELSE activeConnections - 1
        /\ counters' = [k \in CounterKeys |-> IF k \in recorded THEN counters[k] + 1 ELSE counters[k]]
        /\ observations' = [k \in HistogramKeys |->
             IF k \in recorded /\ observations[k] < MaxPoints THEN observations[k] + 1 ELSE observations[k]]
        /\ cardinalityCount' = cardinalityCount + Cardinality(recorded \ Kept)
        /\ UNCHANGED resets

Reset ==
    /\ counters' = [k \in CounterKeys |-> 0] /\ observations' = [k \in HistogramKeys |-> 0]
    /\ cardinalityCount' = 0 /\ activeConnections' = 0
    /\ resets' = TRUE
    /\ UNCHANGED response

MetricsNext ==
    \/ \E t \in Traffic :
        Arrives(t) \/ \E route \in MetricRoutes, code \in Codes : Ends(t, route, code)
    \/ Reset

MetricsSpec == MetricsInit /\ [][MetricsNext]_metricVars

-----------------------------------------------------------------------------
\* collectApplicationMetrics: requests by status, errors by type.
HttpRequests(code) == SumFunction([r \in MetricRoutes |-> counters[HttpKey(r, code)]])
ErrorsOf(code) == SumFunction([r \in MetricRoutes |-> counters[ErrorKey(r, code)]])

EndedWith(code) == {t \in Traffic : response[t].at = "ended" /\ response[t].code = code}
Ended(code) == Cardinality(EndedWith(code))
OpenResponses == {t \in Traffic : response[t].at = "open"}

\* The limit on distinct keys is exact and holds across counters and histograms; and
\* until it is reached, and nobody resets the collector, the counters account for
\* every response, the errors for every one that failed, and the connections for
\* every one that is open.
MetricsAddUp ==
    /\ cardinalityCount = Cardinality(Kept) /\ cardinalityCount <= MaxCardinality
    /\ ~resets =>
         /\ activeConnections = Cardinality(OpenResponses)
         /\ cardinalityCount < MaxCardinality =>
              \A code \in Codes : HttpRequests(code) = Ended(code)
                                    /\ (code >= 400 => ErrorsOf(code) = Ended(code))
         /\ \A key \in CounterKeys : counters[key] <= Ended(key[3])
=============================================================================
