------------------------------- MODULE Health -------------------------------
(***************************************************************************)
(* The health endpoints (src/src/routes/health.ts, and /health of          *)
(* src/src/index.ts, which hides the graph there): each asks some of       *)
(* PostgreSQL and Horizon, which come and go meanwhile.                    *)
(***************************************************************************)
EXTENDS Naturals

CONSTANTS
    Probes,     \* requests
    MaxChanges  \* changes of the dependencies (a bound)

VARIABLES
    postgres,   \* "up", "busy" (the pool nearly used up) or "down"
    horizon,    \* "up", "refuses" (not 2xx), "hangs" or "unreachable"
    probe,      \* each request: its route, and what its checks came to
    changes,
    witnessed   \* observed: per request, dependencies that were up, or not, meanwhile

healthVars == <<postgres, horizon, probe, changes, witnessed>>

HealthRoutes == {"basic", "graph", "live", "startup", "ready"}
Dependencies == {"database", "stellar-horizon"}

\* What a route asks; /ready one after the other, the graph at the same time.
Asks(route) ==
    CASE route = "live" -> {}
      [] route \in {"basic", "startup"} -> {"database"}
      [] route \in {"graph", "ready"} -> Dependencies

NoChecks == [d \in Dependencies |-> "unknown"]

HealthInit ==
    /\ postgres = "up" /\ horizon = "up" /\ changes = 0
    /\ probe = [p \in Probes |-> [at |-> "idle", route |-> "live", check |-> NoChecks, code |-> 0]]
    /\ witnessed = [p \in Probes |-> {}]

Conditions ==
    {<<"database", IF postgres = "down" THEN "down" ELSE "up">>,
     <<"stellar-horizon", IF horizon = "up" THEN "up" ELSE "down">>}

Pending(p, d) == probe[p].at = "checking" /\ d \in Asks(probe[p].route) /\ probe[p].check[d] = "unknown"

Witness(p) == witnessed' = [witnessed EXCEPT ![p] = @ \union Conditions]

Ask(p, route) ==
    /\ probe[p].at = "idle"
    /\ probe' = [probe EXCEPT ![p] = [@ EXCEPT !.at = "checking", !.route = route]]
    /\ UNCHANGED <<postgres, horizon, changes, witnessed>>

Checked(p, d, status) == probe' = [probe EXCEPT ![p].check[d] = status]

\* checkDatabase, dbHealth and classifyPoolStatus: SELECT 1.
CheckDatabase(p) ==
    /\ Pending(p, "database")
    /\ Checked(p, "database",
         CASE postgres = "up" -> "up"
           [] postgres = "busy" -> IF probe[p].route = "graph" THEN "degraded" ELSE "up"
           [] postgres = "down" -> "down")
    /\ Witness(p)
    /\ UNCHANGED <<postgres, horizon, changes>>

\* checkStellarHorizon: a fetch that is aborted after HORIZON_TIMEOUT_MS.  /ready
\* gets there when the database answered.
CheckStellarHorizon(p) ==
    /\ Pending(p, "stellar-horizon")
    /\ probe[p].route = "ready" => probe[p].check["database"] = "up"
    /\ Checked(p, "stellar-horizon", IF horizon = "up" THEN "up" ELSE "down")
    /\ Witness(p)
    /\ UNCHANGED <<postgres, horizon, changes>>

Found(p, status) == \E d \in Dependencies : probe[p].check[d] = status

\* Mutant: a degraded dependency makes the service unhealthy.
NothingBelowUp(p) == IF Found(p, "down") \/ Found(p, "degraded") THEN 503 ELSE 200

\* evaluateOverallStatus, and the answers of the others: 503 when a check failed.
CodeOf(p) == IF Found(p, "down") THEN 503 ELSE 200

AnswerProbe(p) ==
    /\ probe[p].at = "checking"
    /\ \/ \A d \in Asks(probe[p].route) : ~Pending(p, d)
       \/ probe[p].route = "ready" /\ Found(p, "down")
    /\ probe' = [probe EXCEPT ![p] = [@ EXCEPT !.at = "answered", !.code = CodeOf(p)]]
    /\ UNCHANGED <<postgres, horizon, changes, witnessed>>

Change ==
    /\ changes < MaxChanges /\ changes' = changes + 1
    /\ postgres' \in {"up", "busy", "down"}
    /\ horizon' \in {"up", "refuses", "hangs", "unreachable"}
    /\ UNCHANGED <<probe, witnessed>>

HealthNext ==
    \/ \E p \in Probes :
        \/ \E route \in HealthRoutes : Ask(p, route)
        \/ CheckDatabase(p) \/ CheckStellarHorizon(p) \/ AnswerProbe(p)
    \/ Change

HealthSpec == HealthInit /\ [][HealthNext]_healthVars

-----------------------------------------------------------------------------
\* An answer is 200 only if every dependency its route asks was up during the
\* request, and 503 only if one of them was down then, however they change between
\* the checks.
AnswersWereTrue ==
    \A p \in Probes : probe[p].at = "answered" =>
        /\ probe[p].code = 200 =>
             \A d \in Asks(probe[p].route) : <<d, "up">> \in witnessed[p]
        /\ probe[p].code = 503 =>
             \E d \in Asks(probe[p].route) : <<d, "down">> \in witnessed[p]
=============================================================================
