-------------------------- MODULE WebhookDelivery --------------------------
(***************************************************************************)
(* WebhookService.emit and deliver (src/src/services/webhookService.ts):   *)
(* every endpoint subscribed to an event is tried up to maxRetries times.  *)
(* Nothing is stored: a delivery is a call waiting for its answer or for   *)
(* the timer of its next attempt.                                          *)
(***************************************************************************)
EXTENDS Naturals

CONSTANTS
    Emits,       \* events that are emitted
    Receivers,   \* webhook endpoints
    MaxRetries,  \* maxRetries
    MaxStops     \* how often the process stops (a bound)

\* With maxRetries 0 nothing would be sent.
ASSUME RetriesAssumption == MaxRetries \in Nat \ {0} /\ MaxStops \in Nat

VARIABLES
    subscribed,  \* receivers with an active row for the event
    emitted,     \* events whose emit has been called
    place,       \* where each delivery is, or how it ended
    tries,       \* attempts
    took,        \* observed: deliveries the receiver answered 2xx to
    stops

deliveryVars == <<subscribed, emitted, place, tries, took, stops>>

Pairs == Emits \X Receivers
UnderWay == {"sending", "waiting"}
Decided == {"delivered", "rejected", "exhausted"}

DeliveryInit ==
    /\ subscribed \in SUBSET Receivers /\ emitted = {}
    /\ place = [d \in Pairs |-> "none"] /\ tries = [d \in Pairs |-> 0]
    /\ took = {} /\ stops = 0

\* emit: the endpoints are listed once; deactivating one later stops nothing.
Emit(e) ==
    /\ e \notin emitted /\ emitted' = emitted \union {e}
    /\ place' = [d \in Pairs |-> IF d[1] = e /\ d[2] \in subscribed THEN "sending" ELSE place[d]]
    /\ tries' = [d \in Pairs |-> IF d[1] = e /\ d[2] \in subscribed THEN 1 ELSE tries[d]]
    /\ UNCHANGED <<subscribed, took, stops>>

\* The listing fails: the event is dropped.
EmitFails(e) ==
    /\ e \notin emitted /\ emitted' = emitted \union {e}
    /\ UNCHANGED <<subscribed, place, tries, took, stops>>

Becomes(d, p) == place' = [place EXCEPT ![d] = p]

Succeeds(d) ==
    /\ place[d] = "sending" /\ Becomes(d, "delivered")
    /\ took' = took \union {d}
    /\ UNCHANGED <<subscribed, emitted, tries, stops>>

\* A 4xx other than 429.
Rejects(d) ==
    /\ place[d] = "sending" /\ Becomes(d, "rejected")
    /\ UNCHANGED <<subscribed, emitted, tries, took, stops>>

\* Mutant: the last attempt waits as well.
RetryAlways(d) ==
    /\ place[d] = "sending" /\ Becomes(d, "waiting")
    /\ took' \in {took, took \union {d}}
    /\ UNCHANGED <<subscribed, emitted, tries, stops>>

\* Any other status, an error of fetch, or timeoutMs, in which case the receiver
\* may have accepted the event.
FailsForNow(d) ==
    /\ place[d] = "sending"
    /\ Becomes(d, IF tries[d] < MaxRetries THEN "waiting" ELSE "exhausted")
    /\ took' \in {took, took \union {d}}
    /\ UNCHANGED <<subscribed, emitted, tries, stops>>

\* The timer of initialDelayMs * 2^(attempt - 2) fires.
Retry(d) ==
    /\ place[d] = "waiting" /\ tries[d] < MaxRetries
    /\ Becomes(d, "sending")
    /\ tries' = [tries EXCEPT ![d] = @ + 1]
    /\ UNCHANGED <<subscribed, emitted, took, stops>>

Unsubscribe(r) ==
    /\ r \in subscribed /\ subscribed' = subscribed \ {r}
    /\ UNCHANGED <<emitted, place, tries, took, stops>>

\* The process stops; a request under way may still arrive.
Stop ==
    /\ stops < MaxStops /\ stops' = stops + 1
    /\ place' = [d \in Pairs |-> IF place[d] \in UnderWay THEN "lost" ELSE place[d]]
    /\ took' \in {took \union S : S \in SUBSET {d \in Pairs : place[d] = "sending"}}
    /\ UNCHANGED <<subscribed, emitted, tries>>

Answer(d) == Succeeds(d) \/ Rejects(d) \/ FailsForNow(d)

DeliveryNext ==
    \/ \E e \in Emits : Emit(e) \/ EmitFails(e)
    \/ \E d \in Pairs : Answer(d) \/ Retry(d)
    \/ \E r \in Receivers : Unsubscribe(r)
    \/ Stop

DeliverySpec == DeliveryInit /\ [][DeliveryNext]_deliveryVars

-----------------------------------------------------------------------------
\* A delivery that waits for its timer has an attempt left, one that is given up had
\* all of them, one reported as delivered was taken by the receiver, and only a stop
\* of the process loses one.
StartedDeliveriesAreDecided ==
    \A d \in Pairs :
        /\ place[d] = "waiting" => tries[d] < MaxRetries
        /\ place[d] = "exhausted" => tries[d] = MaxRetries
        /\ place[d] = "delivered" => d \in took
        /\ place[d] = "lost" => stops > 0
=============================================================================
