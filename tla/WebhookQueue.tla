---------------------------- MODULE WebhookQueue ----------------------------
(***************************************************************************)
(* WebhookQueue (src/src/index.ts): delivery of webhooks with retries,     *)
(* over the webhook_deliveries table.  Several server instances may share  *)
(* the table; each keeps its retry timers in memory and reads the table    *)
(* for unfinished deliveries only when it starts.                          *)
(***************************************************************************)
EXTENDS Naturals, FiniteSets

CONSTANTS
    Deliveries,      \* deliveries, each to an endpoint of its own
    Instances,       \* server processes
    MaxRetries,      \* MAX_RETRIES
    MaxCrashes,      \* crashes that may happen (a bound)
    MaxErrors,       \* repository calls that may fail (a bound)
    MayDeactivate    \* whether endpoints may be deactivated

ASSUME RetriesAssumption == MaxRetries \in Nat \ {0}
ASSUME FaultsAssumption == {MaxCrashes, MaxErrors} \subseteq Nat /\ MayDeactivate \in BOOLEAN

VARIABLES
    \* webhook_deliveries and webhook_endpoints.
    status,     \* "none": no row yet
    attempts,
    due,        \* next_retry_at: "never" (NULL), "later" or "now" (has passed)
    active,     \* endpoints with active = TRUE
    \* Per instance and delivery.
    up,         \* instances that run
    stage,      \* where processDelivery is; "timer" waits for setTimeout
    attempt,    \* currentAttempt
    \* Observed.
    sent,       \* requests sent to the receiver
    received,   \* deliveries that the receiver has accepted at least once
    crashes, errors,
    abandoned,  \* deliveries whose last processDelivery ended without a decision
    shared      \* deliveries that two instances have worked on at once

rows     == <<status, attempts, due>>
observed == <<sent, received, crashes, errors, abandoned, shared>>
vars     == <<rows, active, up, stage, attempt, observed>>

Calls == Instances \X Deliveries
Final == {"completed", "failed", "dead_letter"}
Outcomes == {"ok", "retryable", "permanent"}
Stages == {"idle", "listed", "called", "sending", "timer"} \union Outcomes

Init ==
    /\ status = [d \in Deliveries |-> "none"]
    /\ attempts = [d \in Deliveries |-> 0]
    /\ due = [d \in Deliveries |-> "never"]
    /\ active = Deliveries
    /\ up = Instances
    /\ stage = [c \in Calls |-> "idle"]
    /\ attempt = [c \in Calls |-> 0]
    /\ sent = [d \in Deliveries |-> 0]
    /\ received = {}
    /\ crashes = 0 /\ errors = 0
    /\ abandoned = {} /\ shared = {}

At(i, d, s) == i \in up /\ stage[<<i, d>>] = s
Move(i, d, s) == stage' = [stage EXCEPT ![<<i, d>>] = s]

\* getBackoffDelay returns -1: no further attempt.
RetriesExhausted(n) == n >= MaxRetries

-----------------------------------------------------------------------------
(* processDelivery.                                                        *)

\* A caller asks for a new delivery.
Submit(i, d) ==
    /\ At(i, d, "idle")
    /\ status[d] = "none" /\ \A j \in Instances : stage[<<j, d>>] = "idle"
    /\ d \notin abandoned
    /\ Move(i, d, "called")
    /\ UNCHANGED <<rows, active, up, attempt, observed>>

\* The URL is unsafe (its DNS answer can change) or no active endpoint has it:
\* return false, and the row stays as it is.
NoEndpoint(i, d) ==
    /\ At(i, d, "called")
    /\ d \notin active
    /\ Move(i, d, "idle")
    /\ abandoned' = abandoned \union {d}
    /\ UNCHANGED <<rows, active, up, attempt, sent, received, crashes, errors, shared>>

\* findDeliveryById, or createDelivery when there is no row; the row's status
\* is not looked at.
LoadDelivery(i, d) ==
    /\ At(i, d, "called")
    /\ d \in active
    /\ status' = [status EXCEPT ![d] = IF @ = "none" THEN "pending" ELSE @]
    /\ attempt' = [attempt EXCEPT ![<<i, d>>] = attempts[d] + 1]
    /\ Move(i, d, "sending")
    /\ UNCHANGED <<attempts, due, active, up, observed>>

\* Mutant: a timeout counts as a success.
OutcomesOptimistic(got) == IF got THEN {"ok"} ELSE {"ok", "permanent"}

\* What sendAttempt can report: a receiver that accepted the request answered,
\* or its answer was lost or late (a timeout); one that did not is unreachable,
\* overloaded (5xx, 429) or refuses (4xx).
OutcomesOf(got) == IF got THEN {"ok", "retryable"} ELSE {"retryable", "permanent"}

SendAttempt(i, d) ==
    /\ At(i, d, "sending")
    /\ \E got \in BOOLEAN, outcome \in Outcomes :
        /\ outcome \in OutcomesOf(got)
        /\ received' = IF got THEN received \union {d} ELSE received
        /\ Move(i, d, outcome)
    /\ sent' = [sent EXCEPT ![d] = @ + 1]
    /\ UNCHANGED <<rows, active, up, attempt, crashes, errors, abandoned, shared>>

Succeeded(i, d) ==
    /\ At(i, d, "ok")
    /\ status' = [status EXCEPT ![d] = "completed"]
    /\ attempts' = [attempts EXCEPT ![d] = attempt[<<i, d>>]]
    /\ due' = [due EXCEPT ![d] = "never"]
    /\ Move(i, d, "idle")
    /\ UNCHANGED <<active, up, attempt, observed>>

\* Mutant: the attempt is not written back.
RetryWithoutCounting(i, d) ==
    /\ At(i, d, "retryable")
    /\ ~RetriesExhausted(attempt[<<i, d>>])
    /\ due' = [due EXCEPT ![d] = "later"]
    /\ Move(i, d, "timer")
    /\ UNCHANGED <<status, attempts, active, up, attempt, observed>>

\* Mutant: next_retry_at is written, and no timer is set.
RetryWithoutTimer(i, d) ==
    /\ At(i, d, "retryable")
    /\ ~RetriesExhausted(attempt[<<i, d>>])
    /\ attempts' = [attempts EXCEPT ![d] = attempt[<<i, d>>]]
    /\ due' = [due EXCEPT ![d] = "later"]
    /\ Move(i, d, "idle")
    /\ UNCHANGED <<status, active, up, attempt, observed>>

\* The update leaves the status alone; the timer is set after it.
ScheduleRetry(i, d) ==
    /\ At(i, d, "retryable")
    /\ ~RetriesExhausted(attempt[<<i, d>>])
    /\ attempts' = [attempts EXCEPT ![d] = attempt[<<i, d>>]]
    /\ due' = [due EXCEPT ![d] = "later"]
    /\ Move(i, d, "timer")
    /\ UNCHANGED <<status, active, up, attempt, observed>>

GiveUp(i, d) ==
    /\ At(i, d, "permanent") \/ (At(i, d, "retryable") /\ RetriesExhausted(attempt[<<i, d>>]))
    /\ status' = [status EXCEPT ![d] =
          IF RetriesExhausted(attempt[<<i, d>>]) THEN "dead_letter" ELSE "failed"]
    /\ attempts' = [attempts EXCEPT ![d] = attempt[<<i, d>>]]
    /\ due' = [due EXCEPT ![d] = "never"]
    /\ Move(i, d, "idle")
    /\ UNCHANGED <<active, up, attempt, observed>>

FireTimer(i, d) ==
    /\ At(i, d, "timer")
    /\ Move(i, d, "called")
    /\ UNCHANGED <<rows, active, up, attempt, observed>>

\* A repository call rejects.  Nobody awaits processDelivery: the rejection is
\* unhandled, so it ends alone where those are ignored, and takes the process with
\* it where they are not (Crash follows).
RepositoryFails(i, d) ==
    /\ i \in up /\ stage[<<i, d>>] \in {"called"} \union Outcomes
    /\ errors < MaxErrors /\ errors' = errors + 1
    /\ Move(i, d, "idle")
    /\ abandoned' = abandoned \union {d}
    /\ UNCHANGED <<rows, active, up, attempt, sent, received, crashes, shared>>

-----------------------------------------------------------------------------
(* Time, endpoints, crashes and restarts.                                  *)

\* next_retry_at <= NOW().
TimePasses(d) ==
    /\ due[d] = "later"
    /\ due' = [due EXCEPT ![d] = "now"]
    /\ UNCHANGED <<status, attempts, active, up, stage, attempt, observed>>

Deactivate(d) ==
    /\ MayDeactivate /\ d \in active
    /\ active' = active \ {d}
    /\ UNCHANGED <<rows, up, stage, attempt, observed>>

\* The process stops: its calls and its timers are gone.
Crash(i) ==
    /\ i \in up
    /\ crashes < MaxCrashes /\ crashes' = crashes + 1
    /\ up' = up \ {i}
    /\ stage' = [c \in Calls |-> IF c[1] = i THEN "idle" ELSE stage[c]]
    /\ abandoned' = abandoned \union {d \in Deliveries : stage[<<i, d>>] # "idle"}
    /\ UNCHANGED <<rows, active, attempt, sent, received, errors, shared>>

\* getPendingDeliveries: a row whose retry lies in the future is not listed.
PendingDeliveries == {d \in Deliveries : status[d] = "pending" /\ due[d] # "later"}

\* resumePending at startup lists the rows, then takes them one by one.
Start(i) ==
    /\ i \notin up
    /\ up' = up \union {i}
    /\ stage' = [c \in Calls |->
          IF c[1] = i /\ c[2] \in PendingDeliveries THEN "listed" ELSE stage[c]]
    /\ shared' = shared \union
          {d \in PendingDeliveries : \E j \in up : stage[<<j, d>>] # "idle"}
    /\ UNCHANGED <<rows, active, attempt, sent, received, crashes, errors, abandoned>>

ResumeNext(i, d) ==
    /\ At(i, d, "listed")
    /\ Move(i, d, "called")
    /\ UNCHANGED <<rows, active, up, attempt, observed>>

Step(i, d) ==
    \/ NoEndpoint(i, d) \/ LoadDelivery(i, d) \/ SendAttempt(i, d)
    \/ Succeeded(i, d) \/ ScheduleRetry(i, d) \/ GiveUp(i, d)
    \/ FireTimer(i, d) \/ ResumeNext(i, d)

Next ==
    \/ \E i \in Instances, d \in Deliveries :
        Submit(i, d) \/ Step(i, d) \/ RepositoryFails(i, d)
    \/ \E d \in Deliveries : TimePasses(d) \/ Deactivate(d)
    \/ \E i \in Instances : Crash(i) \/ Start(i)

Spec == Init /\ [][Next]_vars

\* Calls that have started go on, timers fire, time passes, and a process that
\* stopped is started again.
FairSpec ==
    /\ Spec
    /\ \A i \in Instances, d \in Deliveries : WF_vars(Step(i, d))
    /\ \A d \in Deliveries : WF_vars(TimePasses(d))
    /\ \A i \in Instances : WF_vars(Start(i))

-----------------------------------------------------------------------------
\* Every variable stays in its type; no row counts more than MAX_RETRIES
\* attempts, unless two instances took it up.
TypeOK ==
    /\ status \in [Deliveries -> {"none", "pending"} \union Final]
    /\ attempts \in [Deliveries -> Nat]
    /\ \A d \in Deliveries \ shared : attempts[d] <= MaxRetries
    /\ due \in [Deliveries -> {"never", "later", "now"}]
    /\ active \subseteq Deliveries /\ up \subseteq Instances
    /\ stage \in [Calls -> Stages]
    /\ attempt \in [Calls -> Nat]
    /\ sent \in [Deliveries -> Nat]
    /\ {received, abandoned, shared} \subseteq SUBSET Deliveries
    /\ crashes \in 0 .. MaxCrashes /\ errors \in 0 .. MaxErrors

\* A delivery is marked completed only if the receiver has accepted it, however
\* many instances work on it.
CompletedWasReceived ==
    \A d \in Deliveries : status[d] = "completed" => d \in received

\* A delivery is given up as a dead letter only when MAX_RETRIES requests for
\* it have gone out.
DeadLettersWereTried ==
    \A d \in Deliveries : status[d] = "dead_letter" => sent[d] >= MaxRetries

\* What a row says of its delivery is what happened to it.
OutcomesAreTrue == CompletedWasReceived /\ DeadLettersWereTried

\* What the receiver can be sent is bounded: MAX_RETRIES requests and one more
\* for each crash or failed update, unless two instances took the same row up.
SendsAreBounded ==
    \A d \in Deliveries \ shared : sent[d] <= MaxRetries + crashes + errors

\* Every delivery is decided in the end, when no process stops, no repository
\* call fails and its endpoint stays: no retry is forgotten.
UndisturbedDeliveriesEnd ==
    \A d \in Deliveries :
        status[d] = "pending" ~> status[d] \in Final \/ d \in abandoned

\* Every delivery is decided in the end (007_create_webhook_deliveries.sql:
\* "Persists webhook delivery attempts for durable retry").
EveryDeliveryEnds ==
    \A d \in Deliveries : status[d] = "pending" ~> status[d] \in Final
=============================================================================
