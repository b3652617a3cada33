----------------------------- MODULE MCPlatform -----------------------------
(***************************************************************************)
(* The migration executor, and the parts of the server that share no state *)
(* with it or with each other.  A behaviour steps one part; the others     *)
(* stay where they start, at one of their initial states.                  *)
(***************************************************************************)
EXTENDS Migrations, MigrationMonitor, Accounts, SessionStore, EventOrdering, WebhookDelivery,
        StellarFailures, Health, JwtKeys, RateLimits, Metrics, FiniteSets, TLC

VARIABLE part

TierLimits == [standard |-> 1, trusted |-> 2]
RetryAfterSeconds == {-1, 0, 30, 3600}

Parts == {"executor", "monitor", "accounts", "limiters", "store", "events", "delivery", "failures", "health", "metrics", "keys"}

PartInit ==
    /\ part \in Parts
    /\ part # "executor" => environment = "production" /\ role = [c \in Calls |-> "admin"]
    /\ part # "limiters" => limiter = "tiers"
    /\ part # "delivery" => subscribed = {}
    /\ part # "failures" => failure = CHOOSE f \in Failures : ~f.syntax /\ f.status = 0 /\ f.retryAfter = 0
    /\ Init
    /\ MonitorInit
    /\ AccountsInit
    /\ RateLimitsInit
    /\ StoreInit
    /\ OrderingInit
    /\ DeliveryInit
    /\ FailuresInit
    /\ HealthInit
    /\ MetricsInit
    /\ JwtInit

\* A step of one part leaves the variables of the others as they are.
PartNext ==
    \/ /\ part = "executor" /\ Next
       /\ UNCHANGED <<part, monitorVars, accountVars, limitVars, storeVars, orderingVars,
                        deliveryVars, failureVars, healthVars, metricVars,
                        jwtVars>>
    \/ /\ part = "monitor" /\ MonitorNext
       /\ UNCHANGED <<part, vars, accountVars, limitVars, storeVars, orderingVars,
                        deliveryVars, failureVars, healthVars, metricVars,
                        jwtVars>>
    \/ /\ part = "accounts" /\ AccountsNext
       /\ UNCHANGED <<part, vars, monitorVars, limitVars, storeVars, orderingVars,
                        deliveryVars, failureVars, healthVars, metricVars,
                        jwtVars>>
    \/ /\ part = "limiters" /\ RateLimitsNext
       /\ UNCHANGED <<part, vars, monitorVars, accountVars, storeVars, orderingVars,
                        deliveryVars, failureVars, healthVars, metricVars,
                        jwtVars>>
    \/ /\ part = "store" /\ StoreNext
       /\ UNCHANGED <<part, vars, monitorVars, accountVars, limitVars, orderingVars,
                        deliveryVars, failureVars, healthVars, metricVars,
                        jwtVars>>
    \/ /\ part = "events" /\ OrderingNext
       /\ UNCHANGED <<part, vars, monitorVars, accountVars, limitVars, storeVars,
                        deliveryVars, failureVars, healthVars, metricVars,
                        jwtVars>>
    \/ /\ part = "delivery" /\ DeliveryNext
       /\ UNCHANGED <<part, vars, monitorVars, accountVars, limitVars, storeVars,
                        orderingVars, failureVars, healthVars, metricVars,
                        jwtVars>>
    \/ /\ part = "failures" /\ Classify
       /\ UNCHANGED <<part, vars, monitorVars, accountVars, limitVars, storeVars,
                        orderingVars, deliveryVars, healthVars, metricVars,
                        jwtVars>>
    \/ /\ part = "health" /\ HealthNext
       /\ UNCHANGED <<part, vars, monitorVars, accountVars, limitVars, storeVars,
                        orderingVars, deliveryVars, failureVars, metricVars,
                        jwtVars>>
    \/ /\ part = "metrics" /\ MetricsNext
       /\ UNCHANGED <<part, vars, monitorVars, accountVars, limitVars, storeVars,
                        orderingVars, deliveryVars, failureVars, healthVars,
                        jwtVars>>
    \/ /\ part = "keys" /\ JwtNext
       /\ UNCHANGED <<part, vars, monitorVars, accountVars, limitVars, storeVars,
                        orderingVars, deliveryVars, failureVars, healthVars,
                        metricVars>>

PartSpec == PartInit /\ [][PartNext]_<<part, vars, monitorVars, accountVars, limitVars, storeVars,
    orderingVars, deliveryVars, failureVars, healthVars,
    metricVars, jwtVars>>

\* A bound: an approval request, which no call finds, is explored next to one call.
RequestsNextToOneCall ==
    (\E q \in Requests : request[q] # "none") => Cardinality({c \in Calls : pc[c] # "idle"}) <= 1

CallSymmetry == Permutations(Calls)
=============================================================================
