---------------------------- MODULE EventOrdering ----------------------------
(***************************************************************************)
(* EventOrderingTracker and createEventOrderingMiddleware                  *)
(* (src/src/middleware/webhookEventOrdering.ts) for the events of one      *)
(* entity.  The tracker's methods run to completion; what overlaps is the  *)
(* route's handling of the events that the middleware lets through, which  *)
(* ends with a call of markProcessed and goes on with the buffered events  *)
(* that markProcessed returns (the handler is not part of the repository). *)
(***************************************************************************)
EXTENDS Integers, Sequences, FiniteSets, FiniteSetsExt, SequencesExt

CONSTANTS
    LastEvent,      \* events are numbered 0 .. LastEvent (a bound)
    Handlers,       \* requests handled at the same time (a bound)
    MaxBufferSize,  \* maxBufferSize
    MaxCopies,      \* how often an accepted event is sent again (a bound)
    MayAge,         \* whether maxWaitTimeMs can pass before an event arrives
    MaxRestarts     \* restarts of the process (a bound)

ASSUME EventsAssumption == LastEvent \in Nat

VARIABLES
    lastProcessed,  \* lastProcessedSequence, -1 if the entity is not there
    buffer,         \* eventBuffer: copies of each event
    old,            \* events older than maxWaitTimeMs
    queue,          \* events that each handler has in hand, in order
    accepted,       \* how often the sender was answered 2xx for each event
    handled,        \* observed: events handled, in order
    restarts

orderingVars == <<lastProcessed, buffer, old, queue, accepted, handled, restarts>>

Events == 0 .. LastEvent

OrderingInit ==
    /\ lastProcessed = -1
    /\ buffer = [s \in Events |-> 0]
    /\ old = {}
    /\ queue = [h \in Handlers |-> <<>>]
    /\ accepted = [s \in Events |-> 0]
    /\ handled = <<>>
    /\ restarts = 0

BufferSize == MapThenSumSet(LAMBDA s : buffer[s], Events)

\* The sender sends what was not accepted until it is, and MaxCopies more.
Sends(s) == accepted[s] <= MaxCopies

\* shouldProcessEvent decides 'process'; nothing remembers that it did.
InSequence(s) == s = lastProcessed + 1

Accept(s) == accepted' = [accepted EXCEPT ![s] = @ + 1]

\* The middleware calls next().
Process(h, s) ==
    /\ Sends(s) /\ InSequence(s)
    /\ queue[h] = <<>>
    /\ queue' = [queue EXCEPT ![h] = <<s>>]
    /\ Accept(s)
    /\ UNCHANGED <<lastProcessed, buffer, old, handled, restarts>>

Room == BufferSize < MaxBufferSize

\* shouldProcessEvent decides 'buffer' (202).  Otherwise it rejects the event
\* (409) and nothing changes.
Buffer(s) ==
    /\ Sends(s) /\ s > lastProcessed + 1
    /\ Room /\ s \notin old
    /\ buffer' = [buffer EXCEPT ![s] = @ + 1]
    /\ Accept(s)
    /\ UNCHANGED <<lastProcessed, old, queue, handled, restarts>>

\* Mutant: gaps do not stop the loop.
ReleasedAcrossGaps(last) == {s \in Events : s > last /\ buffer[s] > 0}

\* getProcessableBufferedEvents: consecutive events from last + 1.
Released(last) == {s \in Events : s > last /\ \A t \in last + 1 .. s : buffer[t] > 0}

\* The events of S, which are numbers, one after the other.
InOrder(S) == [n \in 1 .. Cardinality(S) |-> CHOOSE s \in S : Cardinality({t \in S : t < s}) = n - 1]

\* Every copy of a released event leaves the buffer (they share its eventId).
WithoutReleased(S) == [s \in Events |-> IF s \in S THEN 0 ELSE buffer[s]]

\* A handler has handled its event and calls markProcessed, which sets
\* lastProcessedSequence whatever it was; it goes on with what is released.
MarkProcessed(h) ==
    /\ queue[h] # <<>>
    /\ LET s == Head(queue[h])
           released == Released(s)
       IN  /\ handled' = Append(handled, s)
           /\ lastProcessed' = s
           /\ buffer' = WithoutReleased(released)
           /\ queue' = [queue EXCEPT ![h] = Tail(@) \o InOrder(released)]
    /\ UNCHANGED <<old, accepted, restarts>>

\* maxWaitTimeMs pass since an event's timestamp.
Age(s) ==
    /\ MayAge /\ s \notin old
    /\ old' = old \union {s}
    /\ UNCHANGED <<lastProcessed, buffer, queue, accepted, handled, restarts>>

\* cleanupStaleEvents.
CleanupStaleEvents ==
    /\ \E s \in old : buffer[s] > 0
    /\ buffer' = [s \in Events |-> IF s \in old THEN 0 ELSE buffer[s]]
    /\ UNCHANGED <<lastProcessed, old, queue, accepted, handled, restarts>>

\* The Maps are in memory only, and so are the handlers.
RestartTracker ==
    /\ restarts < MaxRestarts /\ restarts' = restarts + 1
    /\ lastProcessed' = -1
    /\ buffer' = [s \in Events |-> 0]
    /\ queue' = [h \in Handlers |-> <<>>]
    /\ UNCHANGED <<old, accepted, handled>>

OrderingNext ==
    \/ \E s \in Events : Buffer(s) \/ Age(s) \/ \E h \in Handlers : Process(h, s)
    \/ \E h \in Handlers : MarkProcessed(h)
    \/ CleanupStaleEvents \/ RestartTracker

OrderingSpec == OrderingInit /\ [][OrderingNext]_orderingVars

-----------------------------------------------------------------------------
\* The sender repeated something that was accepted, an event came too late or the
\* process restarted.
Disturbed == restarts > 0 \/ old # {} \/ \E s \in Events : accepted[s] > 1

\* No event is handled before all its predecessors have been, whatever is sent
\* twice, forgotten or restarted.
NoGaps ==
    \A n \in 1 .. Len(handled) : \A s \in 0 .. handled[n] - 1 :
        \E m \in 1 .. n - 1 : handled[m] = s

\* As long as nothing of the kind happens, an accepted event is handled, in hand or
\* buffered, and the next event is not left in the buffer when no handler is at
\* work: whoever sends the event that closes the gap releases the others.
AcceptedEventsAreKept ==
    ~Disturbed =>
        /\ \A s \in Events : accepted[s] > 0 =>
            \/ s \in Range(handled) \/ buffer[s] > 0
            \/ \E h \in Handlers : s \in Range(queue[h])
        /\ (\A h \in Handlers : queue[h] = <<>>) =>
            \A s \in Events : s = lastProcessed + 1 => buffer[s] = 0

\* What the tracker promises of a sequence.
SequencesAreKept == NoGaps /\ AcceptedEventsAreKept
=============================================================================
