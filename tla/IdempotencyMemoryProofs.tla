----------------------- MODULE IdempotencyMemoryProofs -----------------------
(***************************************************************************)
(* Proofs about IdempotencyMemory, for any requests, keys and payloads:    *)
(* the reservations, the replays, and that it implements IdempotentKey.    *)
(***************************************************************************)
EXTENDS IdempotencyMemory, TLAPS

\* Each reserved key has one request being handled, and that request its key.
Handling(r) == pc[r] = "handling"
Held ==
    /\ \A k \in inFlight : \E r \in Requests : Handling(r) /\ key[r] = k
    /\ \A r \in Requests : Handling(r) => key[r] \in inFlight
    /\ \A q, r \in Requests : Handling(q) /\ Handling(r) /\ key[q] = key[r] => q = r

\* What is stored under a key is the response to a request that used it and
\* whose handler has ended, so that a replay of it is faithful.
RecordsAreAnswers ==
    \A k \in Keys : records[k] # None =>
        pc[records[k]] = "stored" /\ key[records[k]] = k

\* The inductive invariant.
IInv == TypeOK /\ RecordsAreAnswers /\ Held /\ ReplayIsFaithful

-----------------------------------------------------------------------------
(* Types.                                                                  *)

LEMMA TypeStep == TypeOK /\ [Next]_vars => TypeOK'
<1> SUFFICES ASSUME TypeOK, [Next]_vars PROVE TypeOK'
    OBVIOUS
<1> USE NoneAssumption DEF TypeOK, Labels
<1>1. ASSUME NEW r \in Requests, Replay(r) PROVE TypeOK'
    BY <1>1 DEF Replay, Goto, Cached, store
<1>2. ASSUME NEW r \in Requests, RefuseInFlight(r) PROVE TypeOK'
    BY <1>2 DEF RefuseInFlight, Prune, Goto, request
<1>3. ASSUME NEW r \in Requests, Reserve(r) PROVE TypeOK'
    BY <1>3 DEF Reserve, Prune, Goto, request
<1>4. ASSUME NEW r \in Requests, Handle(r) PROVE TypeOK'
    BY <1>4 DEF Handle, store, request
<1>5. ASSUME NEW r \in Requests, Finish(r) PROVE TypeOK'
    BY <1>5 DEF Finish, Goto, request
<1>6. ASSUME NEW r \in Requests, FinishError(r) PROVE TypeOK'
    BY <1>6 DEF FinishError, Goto, Reopen, request
<1>7. ASSUME NEW r \in Requests, ClientGone(r) PROVE TypeOK'
    BY <1>7 DEF ClientGone, Goto, Reopen, request
<1>8. ASSUME NEW r \in Requests, OrphanEnds(r) PROVE TypeOK'
    BY <1>8 DEF OrphanEnds, Goto, store, request
<1>9. ASSUME NEW k \in Keys, Expire(k) PROVE TypeOK'
    BY <1>9 DEF Expire, Cached, Reopen, request
<1>10. CASE Restart
    BY <1>10 DEF Restart, Cached, request
<1>11. CASE UNCHANGED vars
    BY <1>11 DEF vars, store, request
<1>12. QED
    BY <1>1, <1>2, <1>3, <1>4, <1>5, <1>6, <1>7, <1>8, <1>9, <1>10, <1>11
    DEF Next, HandlerEnds

\* Every variable of the store and the middleware stays in its type.
THEOREM TypeCorrect == Spec => []TypeOK
<1>1. Init => TypeOK
    BY NoneAssumption DEF Init, TypeOK, Labels
<1>2. QED
    BY <1>1, TypeStep, PTL DEF Spec

-----------------------------------------------------------------------------
(* The inductive invariant.                                                *)

\* Held is ReservedWhileHandled without its sets.
LEMMA HeldIsReserved == TypeOK => (Held <=> ReservedWhileHandled)
<1> SUFFICES ASSUME TypeOK PROVE Held <=> ReservedWhileHandled
    OBVIOUS
<1> USE DEF Handling, Active
<1>1. ASSUME Held, NEW k \in Keys
      PROVE  IF k \in inFlight THEN \E r \in Requests : Active(k) = {r} ELSE Active(k) = {}
    <2>1. CASE k \in inFlight
        <3>1. PICK r \in Requests : Handling(r) /\ key[r] = k
            BY <1>1, <2>1 DEF Held
        <3>2. Active(k) = {r}
            BY <1>1, <3>1 DEF Held
        <3> QED
            BY <2>1, <3>2
    <2>2. CASE k \notin inFlight
        BY <1>1, <2>2 DEF Held
    <2> QED
        BY <2>1, <2>2
<1>2. ASSUME ReservedWhileHandled PROVE Held
    <2>1. ASSUME NEW k \in inFlight PROVE \E r \in Requests : Handling(r) /\ key[r] = k
        <3>1. PICK r \in Requests : Active(k) = {r}
            BY <1>2, <2>1 DEF ReservedWhileHandled, TypeOK
        <3> QED
            BY <3>1
    <2>2. ASSUME NEW r \in Requests, Handling(r) PROVE key[r] \in inFlight
        <3>1. key[r] \in Keys /\ r \in Active(key[r])
            BY <2>2 DEF TypeOK
        <3> QED
            BY <1>2, <3>1 DEF ReservedWhileHandled
    <2>3. ASSUME NEW q \in Requests, NEW r \in Requests,
                 Handling(q), Handling(r), key[q] = key[r]
          PROVE  q = r
        <3>1. key[r] \in Keys /\ q \in Active(key[r]) /\ r \in Active(key[r])
            BY <2>3 DEF TypeOK
        <3>2. PICK p \in Requests : Active(key[r]) = {p}
            BY <1>2, <2>2, <2>3, <3>1 DEF ReservedWhileHandled
        <3> QED
            BY <3>1, <3>2
    <2> QED
        BY <2>1, <2>2, <2>3 DEF Held
<1> QED
    BY <1>1, <1>2 DEF ReservedWhileHandled

\* Every step preserves the invariant.
LEMMA IInvStep == IInv /\ [Next]_vars => IInv'
<1> SUFFICES ASSUME IInv, [Next]_vars PROVE IInv'
    OBVIOUS
<1>0. TypeOK'
    BY TypeStep DEF IInv
<1> USE NoneAssumption DEF IInv, TypeOK, Labels, RecordsAreAnswers, Held, ReplayIsFaithful,
                           Handling, Goto, store, request
<1>1. ASSUME NEW r \in Requests, Replay(r) PROVE IInv'
    <2>1. key[r] \in Keys /\ Cached(key[r])
        BY <1>1 DEF Replay
    <2> QED
        BY <1>0, <1>1, <2>1 DEF Replay, Cached
<1>2. ASSUME NEW r \in Requests, RefuseInFlight(r) PROVE IInv'
    BY <1>0, <1>2 DEF RefuseInFlight, Prune
<1>3. ASSUME NEW r \in Requests, Reserve(r) PROVE IInv'
    BY <1>0, <1>3 DEF Reserve, Prune
<1>4. ASSUME NEW r \in Requests, Handle(r) PROVE IInv'
    BY <1>0, <1>4 DEF Handle
<1>5. ASSUME NEW r \in Requests, Finish(r) PROVE IInv'
    BY <1>0, <1>5 DEF Finish
<1>6. ASSUME NEW r \in Requests, FinishError(r) PROVE IInv'
    BY <1>0, <1>6 DEF FinishError
<1>7. ASSUME NEW r \in Requests, ClientGone(r) PROVE IInv'
    BY <1>0, <1>7 DEF ClientGone
<1>8. ASSUME NEW r \in Requests, OrphanEnds(r) PROVE IInv'
    BY <1>0, <1>8 DEF OrphanEnds
<1>9. ASSUME NEW k \in Keys, Expire(k) PROVE IInv'
    BY <1>0, <1>9 DEF Expire
<1>10. CASE Restart
    BY <1>0, <1>10 DEF Restart
<1>11. CASE UNCHANGED vars
    BY <1>0, <1>11 DEF vars
<1> QED
    BY <1>1, <1>2, <1>3, <1>4, <1>5, <1>6, <1>7, <1>8, <1>9, <1>10, <1>11
    DEF Next, HandlerEnds

\* The invariant holds throughout every behaviour.
LEMMA InvCorrect == Spec => []IInv
<1>1. Init => IInv
    BY NoneAssumption
    DEF Init, IInv, TypeOK, Labels, RecordsAreAnswers, Held, Handling, ReplayIsFaithful
<1> QED
    BY <1>1, IInvStep, PTL DEF Spec

\* For any number of overlapping requests, a key is reserved exactly while one
\* request with a client waiting is handled under it: checkAndReserve lets in no
\* second one, and no way a request can end leaves the reservation behind.
THEOREM KeyIsHeldByOne == Spec => []ReservedWhileHandled
<1>1. IInv => ReservedWhileHandled
    BY HeldIsReserved DEF IInv
<1> QED
    BY <1>1, InvCorrect, PTL

\* Whatever expires, is released or is lost in a restart, what is replayed is
\* the stored response to a request with the same key and the same payload.
THEOREM ReplaysAreFaithful == Spec => []ReplayIsFaithful
<1>1. IInv => ReplayIsFaithful
    BY DEF IInv
<1> QED
    BY <1>1, InvCorrect, PTL

-----------------------------------------------------------------------------
(* Refinement.                                                             *)

\* The holder of a reserved key is the request being handled under it.
HolderIsHandling ==
    /\ holderOf \in [Keys -> Requests \union {None}]
    /\ \A k \in Keys : k \notin inFlight => holderOf[k] = None
    /\ \A r \in Requests : Handling(r) => holderOf[key[r]] = r

LEMMA HolderLemma == IInv => HolderIsHandling
<1> SUFFICES ASSUME IInv PROVE HolderIsHandling
    OBVIOUS
<1> USE DEF IInv, TypeOK, Held, Handling
<1>1. ASSUME NEW r \in Requests, Handling(r) PROVE Active(key[r]) = {r} /\ key[r] \in inFlight
    BY <1>1 DEF Active
<1>2. ASSUME NEW r \in Requests, Handling(r) PROVE holderOf[key[r]] = r
    <2>1. (CHOOSE q \in Requests : q \in {r}) = r
        OBVIOUS
    <2> QED
        BY <1>1, <1>2, <2>1 DEF holderOf
<1>3. ASSUME NEW k \in Keys, k \notin inFlight PROVE holderOf[k] = None
    BY <1>3 DEF holderOf
<1>4. ASSUME NEW k \in Keys PROVE holderOf[k] \in Requests \union {None}
    BY <1>2, <1>3
<1>5. holderOf \in [Keys -> Requests \union {None}]
    BY <1>4 DEF holderOf
<1> QED
    BY <1>2, <1>3, <1>5 DEF HolderIsHandling

\* Each step of the store is a step of IdempotentKey, or leaves it alone.
LEMMA StepSimulation == IInv /\ IInv' /\ [Next]_vars => [Abstract!KNext]_(Abstract!kvars)
<1> SUFFICES ASSUME IInv, IInv', [Next]_vars
             PROVE  [Abstract!KNext]_(Abstract!kvars)
    OBVIOUS
<1>h. HolderIsHandling /\ HolderIsHandling'
    BY HolderLemma, PTL
<1>a. /\ answerOf = [k \in Keys |-> IF Cached(k) THEN records[k] ELSE None]
      /\ answerOf' = [k \in Keys |-> IF Cached(k)' THEN records'[k] ELSE None]
    BY DEF answerOf
<1> USE NoneAssumption DEF Goto, store, request
<1>k. key' = key
    BY DEF Next, Replay, RefuseInFlight, Reserve, Handle, HandlerEnds, Finish, FinishError,
           ClientGone, OrphanEnds, Expire, Restart, vars
<1>s. ASSUME NEW k \in Keys, k \in inFlight' <=> k \in inFlight,
             \A r \in Requests : key[r] = k => (pc'[r] = "handling" <=> pc[r] = "handling")
      PROVE  holderOf'[k] = holderOf[k]
    BY <1>s, <1>h, <1>k DEF HolderIsHandling, IInv, TypeOK, Held, Handling
<1>1. ASSUME inFlight' = inFlight, records' = records, expired' = expired,
             \A r \in Requests : pc'[r] = "handling" <=> pc[r] = "handling"
      PROVE  UNCHANGED Abstract!kvars
    <2>1. holderOf' = holderOf
        BY <1>1, <1>s, <1>h DEF HolderIsHandling
    <2>2. answerOf' = answerOf
        BY <1>1, <1>a DEF Cached
    <2> QED
        BY <2>1, <2>2 DEF Abstract!kvars
<1>2. ASSUME NEW r \in Requests,
             Replay(r) \/ Handle(r) \/ OrphanEnds(r)
      PROVE  UNCHANGED Abstract!kvars
    BY <1>1, <1>2 DEF Replay, Handle, OrphanEnds, IInv, TypeOK
<1>3. ASSUME NEW r \in Requests, RefuseInFlight(r) PROVE UNCHANGED Abstract!kvars
    <2>1. holderOf' = holderOf
        BY <1>3, <1>s, <1>h DEF RefuseInFlight, HolderIsHandling, IInv, TypeOK
    <2>2. answerOf' = answerOf
        BY <1>3, <1>a DEF RefuseInFlight, Prune, Cached, IInv, TypeOK
    <2> QED
        BY <2>1, <2>2 DEF Abstract!kvars
<1>4. ASSUME NEW r \in Requests, Reserve(r) PROVE Abstract!Reserve(r, key[r])
    <2>1. key[r] \in Keys /\ holderOf[key[r]] = None /\ answerOf[key[r]] = None
        BY <1>4, <1>h, <1>a DEF Reserve, HolderIsHandling, IInv, TypeOK
    <2>2. holderOf'[key[r]] = r
        BY <1>4, <1>h, <1>k DEF Reserve, HolderIsHandling, Handling, IInv, TypeOK
    <2>3. ASSUME NEW k \in Keys, k # key[r] PROVE holderOf'[k] = holderOf[k]
        BY <1>4, <1>s, <2>3 DEF Reserve, IInv, TypeOK
    <2>4. holderOf' = [holderOf EXCEPT ![key[r]] = r]
        BY <1>h, <2>1, <2>2, <2>3 DEF HolderIsHandling
    <2>5. answerOf' = answerOf
        BY <1>4, <1>a DEF Reserve, Prune, Cached, IInv, TypeOK
    <2> QED
        BY <2>1, <2>4, <2>5 DEF Abstract!Reserve
<1>5. ASSUME NEW r \in Requests, HandlerEnds(r)
      PROVE  /\ key[r] \in Keys /\ holderOf[key[r]] = r
             /\ holderOf' = [holderOf EXCEPT ![key[r]] = None]
    <2> USE <1>5 DEF HandlerEnds, Finish, FinishError, ClientGone
    <2>1. pc[r] = "handling" /\ key[r] \in Keys /\ inFlight' = inFlight \ {key[r]}
        BY DEF IInv, TypeOK
    <2>2. holderOf[key[r]] = r /\ holderOf'[key[r]] = None
        BY <1>h, <2>1 DEF HolderIsHandling, Handling
    <2>3. ASSUME NEW k \in Keys, k # key[r] PROVE holderOf'[k] = holderOf[k]
        BY <1>s, <2>1, <2>3 DEF IInv, TypeOK
    <2> QED
        BY <1>h, <2>1, <2>2, <2>3 DEF HolderIsHandling
<1>6. ASSUME NEW r \in Requests, Finish(r) PROVE Abstract!Complete(key[r])
    <2>1. answerOf' = [answerOf EXCEPT ![key[r]] = r]
        BY <1>5, <1>6, <1>a DEF Finish, HandlerEnds, Cached, IInv, TypeOK
    <2> QED
        BY <1>5, <1>6, <2>1 DEF HandlerEnds, Abstract!Complete
<1>7. ASSUME NEW r \in Requests, FinishError(r) \/ ClientGone(r)
      PROVE  Abstract!GiveUp(key[r])
    <2>1. answerOf' = answerOf
        BY <1>7, <1>a DEF FinishError, ClientGone, Cached
    <2> QED
        BY <1>5, <1>7, <2>1 DEF HandlerEnds, Abstract!GiveUp
<1>8. ASSUME NEW k \in Keys, Expire(k) PROVE Abstract!Forget(k)
    <2>1. holderOf' = holderOf
        BY <1>8, <1>s, <1>h DEF Expire, HolderIsHandling
    <2>2. answerOf' = [answerOf EXCEPT ![k] = None]
        BY <1>8, <1>a DEF Expire, Cached
    <2> QED
        BY <2>1, <2>2 DEF Abstract!Forget
<1>9. CASE Restart
    <2>1. holderOf' = [k \in Keys |-> None]
        BY <1>9, <1>h DEF Restart, HolderIsHandling
    <2>2. answerOf' = [k \in Keys |-> None]
        BY <1>9, <1>a DEF Restart, Cached
    <2> QED
        BY <2>1, <2>2 DEF Abstract!KNext, Abstract!ForgetAll
<1>10. CASE UNCHANGED vars
    BY <1>1, <1>10 DEF vars
<1>11. ASSUME NEW r \in Requests, Reserve(r) \/ HandlerEnds(r) PROVE Abstract!KNext
    BY <1>4, <1>5, <1>6, <1>7, <1>11 DEF HandlerEnds, Abstract!KNext, Reserve, IInv, TypeOK
<1> QED
    BY <1>2, <1>3, <1>8, <1>9, <1>10, <1>11 DEF Next, Abstract!KNext

\* For any requests, keys and payloads, the store implements IdempotentKey: a key
\* is never reserved while an answer is stored for it or another request holds
\* it, and only the holder's response becomes the answer.
THEOREM StoreImplementsIdempotentKey == Spec => ImplementsIdempotentKey
<1>1. Init => Abstract!KInit
    BY DEF Init, Abstract!KInit, holderOf, answerOf, Cached
<1> QED
    BY <1>1, InvCorrect, StepSimulation, PTL
    DEF Spec, ImplementsIdempotentKey, Abstract!KSpec

=============================================================================
