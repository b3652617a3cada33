---------------------- MODULE IdempotencyPostgresProofs ----------------------
(***************************************************************************)
(* Proofs about IdempotencyPostgres, for any requests, payloads and size   *)
(* of the pool: what is replayed is the stored response to the same        *)
(* payload, and while no two checks overlap and nothing fails a retry is   *)
(* caught and a saved response stays.                                      *)
(*                                                                         *)
(* The row has an owner: the request whose handler runs, or whose save or  *)
(* release is under way.  Undisturbed, there is one owner at most, and the *)
(* row says "inflight" for as long as there is one.                        *)
(***************************************************************************)
EXTENDS IdempotencyPostgres, TLAPS

Types ==
    /\ state \in {"none", "inflight", "completed", "released"}
    /\ response \in Requests \union {None} /\ lock \in Requests \union {None}
    /\ overdue \in BOOLEAN /\ overlapped \in BOOLEAN /\ troubled \in BOOLEAN
    /\ pc \in [Requests -> Labels]
    /\ fp \in [Requests -> Fingerprints]
    /\ source \in [Requests -> Requests \union {None}]
    /\ saves \subseteq Requests /\ releases \subseteq Requests

\* Whose response the row has, who saves one, and what was replayed.
ResponsesAreStored ==
    /\ state = "completed" => response \in Requests /\ pc[response] = "stored"
    /\ \A r \in saves : pc[r] = "stored"
    /\ ReplayIsFaithful

Owner(r) == pc[r] \in {"handling", "orphaned"} \/ r \in saves \/ r \in releases

\* What holds until two checks overlap or something fails.
Undisturbed ==
    /\ ~overdue
    /\ \A r, q \in Requests : pc[r] \in Checking /\ pc[q] \in Checking => r = q
    /\ \A r, q \in Requests : Owner(r) /\ Owner(q) => r = q
    /\ \A r \in Requests : Owner(r) => state = "inflight"
    /\ \A r \in saves : pc[r] = "stored"
    /\ \A r \in releases : pc[r] = "released"
    /\ \A r \in Requests : pc[r] \in {"insert", "commit"} => state = "none"
    /\ \A r \in Requests : pc[r] = "delete" => state = "released"

IInv == Types /\ ResponsesAreStored /\ (~overlapped /\ ~troubled => Undisturbed)

-----------------------------------------------------------------------------
LEMMA Initially == Init => IInv
<1> SUFFICES ASSUME Init PROVE IInv
  OBVIOUS
<1>1. Types
  BY DEF Init, Types, Labels
<1>2. ResponsesAreStored
  BY DEF Init, ResponsesAreStored, ReplayIsFaithful
<1>3. Undisturbed
  BY DEF Init, Undisturbed, Owner, Checking
<1> QED
  BY <1>1, <1>2, <1>3 DEF IInv

\* Every step keeps the types.
LEMMA TypeStep == Types /\ [Next]_vars => Types'
<1> SUFFICES ASSUME Types, [Next]_vars PROVE Types'
  OBVIOUS
<1> USE NoneAssumption DEF Types, Labels, Checking, Goto, Leave, LockFree, Trouble
<1>1. ASSUME NEW r \in Requests, Receive(r) PROVE Types'
  BY <1>1 DEF Receive, row, pending, observed
<1>2. ASSUME NEW r \in Requests, Connect(r) PROVE Types'
  BY <1>2 DEF Connect, row, pending, observed
<1>3. ASSUME NEW r \in Requests, ConnectTimesOut(r) PROVE Types'
  BY <1>3 DEF ConnectTimesOut, row, pending, observed
<1>4. ASSUME NEW r \in Requests, SelectNothing(r) PROVE Types'
  BY <1>4 DEF SelectNothing, row, pending, observed
<1>5. ASSUME NEW r \in Requests, SelectInFlight(r) PROVE Types'
  BY <1>5 DEF SelectInFlight, row, pending, observed
<1>6. ASSUME NEW r \in Requests, SelectCompleted(r) PROVE Types'
  BY <1>6 DEF SelectCompleted, row, pending, observed
<1>7. ASSUME NEW r \in Requests, SelectReleased(r) PROVE Types'
  BY <1>7 DEF SelectReleased, row, pending, observed
<1>8. ASSUME NEW r \in Requests, DeleteKey(r) PROVE Types'
  BY <1>8 DEF DeleteKey, row, pending, observed
<1>9. ASSUME NEW r \in Requests, DeleteFails(r) PROVE Types'
  BY <1>9 DEF DeleteFails, row, pending, observed
<1>10. ASSUME NEW r \in Requests, Insert(r) PROVE Types'
  BY <1>10 DEF Insert, row, pending, observed
<1>11. ASSUME NEW r \in Requests, Commit(r) PROVE Types'
  BY <1>11 DEF Commit, row, pending, observed
<1>12. ASSUME NEW r \in Requests, FailOpen(r) PROVE Types'
  BY <1>12 DEF FailOpen, row, pending, observed
<1>13. ASSUME NEW r \in Requests, Finish(r) PROVE Types'
  BY <1>13 DEF Finish, row, pending, observed
<1>14. ASSUME NEW r \in Requests, FinishError(r) PROVE Types'
  BY <1>14 DEF FinishError, row, pending, observed
<1>15. ASSUME NEW r \in Requests, ClientGone(r) PROVE Types'
  BY <1>15 DEF ClientGone, row, pending, observed
<1>16. ASSUME NEW r \in Requests, OrphanEnds(r) PROVE Types'
  BY <1>16 DEF OrphanEnds, row, pending, observed
<1>17. ASSUME NEW r \in Requests, Save(r) PROVE Types'
  BY <1>17 DEF Save, row, pending, observed
<1>18. ASSUME NEW r \in Requests, Release(r) PROVE Types'
  BY <1>18 DEF Release, row, pending, observed
<1>19. ASSUME NEW r \in Requests, AfterwardsFails(r) PROVE Types'
  BY <1>19 DEF AfterwardsFails, row, pending, observed
<1>20. ASSUME NEW r \in Requests, Crash(r) PROVE Types'
  BY <1>20 DEF Crash, row, pending, observed
<1>21. ASSUME Expire PROVE Types'
  BY <1>21 DEF Expire, pending, observed
<1>22. ASSUME CleanupExpired PROVE Types'
  BY <1>22 DEF CleanupExpired, pending, observed
<1>23. ASSUME UNCHANGED vars PROVE Types'
  BY <1>23 DEF vars, row, pending, observed
<1> QED
  BY <1>1, <1>2, <1>3, <1>4, <1>5, <1>6, <1>7, <1>8, <1>9, <1>10, <1>11, <1>12, <1>13, <1>14, <1>15, <1>16, <1>17, <1>18, <1>19, <1>20, <1>21, <1>22, <1>23 DEF Next, Statement, Afterwards

\* A request that has stored its response does nothing more.
LEMMA ResponsesStep == Types /\ ResponsesAreStored /\ [Next]_vars => ResponsesAreStored'
<1> SUFFICES ASSUME Types /\ ResponsesAreStored, [Next]_vars PROVE ResponsesAreStored'
  OBVIOUS
<1> USE NoneAssumption DEF Types, ResponsesAreStored, ReplayIsFaithful, Checking, Goto, Leave, LockFree, Valid
<1>1. ASSUME NEW r \in Requests, Receive(r) PROVE ResponsesAreStored'
  BY <1>1 DEF Receive, row, pending, observed
<1>2. ASSUME NEW r \in Requests, Connect(r) PROVE ResponsesAreStored'
  BY <1>2 DEF Connect, row, pending, observed
<1>3. ASSUME NEW r \in Requests, ConnectTimesOut(r) PROVE ResponsesAreStored'
  BY <1>3 DEF ConnectTimesOut, row, pending, observed
<1>4. ASSUME NEW r \in Requests, SelectNothing(r) PROVE ResponsesAreStored'
  BY <1>4 DEF SelectNothing, row, pending, observed
<1>5. ASSUME NEW r \in Requests, SelectInFlight(r) PROVE ResponsesAreStored'
  BY <1>5 DEF SelectInFlight, row, pending, observed
<1>6. ASSUME NEW r \in Requests, SelectCompleted(r) PROVE ResponsesAreStored'
  BY <1>6 DEF SelectCompleted, row, pending, observed
<1>7. ASSUME NEW r \in Requests, SelectReleased(r) PROVE ResponsesAreStored'
  BY <1>7 DEF SelectReleased, row, pending, observed
<1>8. ASSUME NEW r \in Requests, DeleteKey(r) PROVE ResponsesAreStored'
  BY <1>8 DEF DeleteKey, row, pending, observed
<1>9. ASSUME NEW r \in Requests, DeleteFails(r) PROVE ResponsesAreStored'
  BY <1>9 DEF DeleteFails, row, pending, observed
<1>10. ASSUME NEW r \in Requests, Insert(r) PROVE ResponsesAreStored'
  BY <1>10 DEF Insert, row, pending, observed
<1>11. ASSUME NEW r \in Requests, Commit(r) PROVE ResponsesAreStored'
  BY <1>11 DEF Commit, row, pending, observed
<1>12. ASSUME NEW r \in Requests, FailOpen(r) PROVE ResponsesAreStored'
  BY <1>12 DEF FailOpen, row, pending, observed
<1>13. ASSUME NEW r \in Requests, Finish(r) PROVE ResponsesAreStored'
  BY <1>13 DEF Finish, row, pending, observed
<1>14. ASSUME NEW r \in Requests, FinishError(r) PROVE ResponsesAreStored'
  BY <1>14 DEF FinishError, row, pending, observed
<1>15. ASSUME NEW r \in Requests, ClientGone(r) PROVE ResponsesAreStored'
  BY <1>15 DEF ClientGone, row, pending, observed
<1>16. ASSUME NEW r \in Requests, OrphanEnds(r) PROVE ResponsesAreStored'
  BY <1>16 DEF OrphanEnds, row, pending, observed
<1>17. ASSUME NEW r \in Requests, Save(r) PROVE ResponsesAreStored'
  BY <1>17 DEF Save, row, pending, observed
<1>18. ASSUME NEW r \in Requests, Release(r) PROVE ResponsesAreStored'
  BY <1>18 DEF Release, row, pending, observed
<1>19. ASSUME NEW r \in Requests, AfterwardsFails(r) PROVE ResponsesAreStored'
  BY <1>19 DEF AfterwardsFails, row, pending, observed
<1>20. ASSUME NEW r \in Requests, Crash(r) PROVE ResponsesAreStored'
  BY <1>20 DEF Crash, row, pending, observed
<1>21. ASSUME Expire PROVE ResponsesAreStored'
  BY <1>21 DEF Expire, pending, observed
<1>22. ASSUME CleanupExpired PROVE ResponsesAreStored'
  BY <1>22 DEF CleanupExpired, pending, observed
<1>23. ASSUME UNCHANGED vars PROVE ResponsesAreStored'
  BY <1>23 DEF vars, row, pending, observed
<1> QED
  BY <1>1, <1>2, <1>3, <1>4, <1>5, <1>6, <1>7, <1>8, <1>9, <1>10, <1>11, <1>12, <1>13, <1>14, <1>15, <1>16, <1>17, <1>18, <1>19, <1>20, <1>21, <1>22, <1>23 DEF Next, Statement, Afterwards

\* Without overlap a check goes from what it sees to what it writes alone.
LEMMA UndisturbedStep == Types /\ (~overlapped /\ ~troubled => Undisturbed) /\ [Next]_vars => (~overlapped /\ ~troubled => Undisturbed)'
<1> SUFFICES ASSUME Types /\ (~overlapped /\ ~troubled => Undisturbed), [Next]_vars PROVE (~overlapped /\ ~troubled => Undisturbed)'
  OBVIOUS
<1>0. ASSUME NEW r \in Requests, Receive(r)
      PROVE  /\ pc[r] = "unsent" /\ \A q \in Requests : pc'[q] = pc[q] \/ (q = r /\ pc'[q] = "connect")
             /\ ~overlapped' => ~overlapped /\ InCheck = {}
             /\ UNCHANGED <<state, overdue, saves, releases, troubled>>
  <2>1. pc[r] = "unsent" /\ pc' = [pc EXCEPT ![r] = "connect"]
    BY <1>0 DEF Receive, Goto
  <2>2. ASSUME NEW q \in Requests PROVE pc'[q] = pc[q] \/ (q = r /\ pc'[q] = "connect")
    <3>1. pc \in [Requests -> Labels]
      BY DEF Types
    <3> QED
      BY <2>1, <3>1
  <2>3. overlapped' = (overlapped \/ InCheck # {}) /\ overlapped \in BOOLEAN
    BY <1>0 DEF Receive, Types
  <2>4. UNCHANGED <<state, overdue, saves, releases, troubled>>
    BY <1>0 DEF Receive, row, pending
  <2> QED
    BY <2>1, <2>2, <2>3, <2>4
<1> USE NoneAssumption DEF Types, Undisturbed, Owner, Checking, InCheck, Goto, Leave, LockFree, Valid, Trouble
<1>1. ASSUME NEW r \in Requests, Receive(r) PROVE (~overlapped /\ ~troubled => Undisturbed)'
  BY <1>0, <1>1
<1>2. ASSUME NEW r \in Requests, Connect(r) PROVE (~overlapped /\ ~troubled => Undisturbed)'
  BY <1>2 DEF Connect, row, pending, observed
<1>3. ASSUME NEW r \in Requests, ConnectTimesOut(r) PROVE (~overlapped /\ ~troubled => Undisturbed)'
  BY <1>3 DEF ConnectTimesOut, row, pending, observed
<1>4. ASSUME NEW r \in Requests, SelectNothing(r) PROVE (~overlapped /\ ~troubled => Undisturbed)'
  BY <1>4 DEF SelectNothing, row, pending, observed
<1>5. ASSUME NEW r \in Requests, SelectInFlight(r) PROVE (~overlapped /\ ~troubled => Undisturbed)'
  BY <1>5 DEF SelectInFlight, row, pending, observed
<1>6. ASSUME NEW r \in Requests, SelectCompleted(r) PROVE (~overlapped /\ ~troubled => Undisturbed)'
  BY <1>6 DEF SelectCompleted, row, pending, observed
<1>7. ASSUME NEW r \in Requests, SelectReleased(r) PROVE (~overlapped /\ ~troubled => Undisturbed)'
  BY <1>7 DEF SelectReleased, row, pending, observed
<1>8. ASSUME NEW r \in Requests, DeleteKey(r) PROVE (~overlapped /\ ~troubled => Undisturbed)'
  BY <1>8 DEF DeleteKey, row, pending, observed
<1>9. ASSUME NEW r \in Requests, DeleteFails(r) PROVE (~overlapped /\ ~troubled => Undisturbed)'
  BY <1>9 DEF DeleteFails, row, pending, observed
<1>10. ASSUME NEW r \in Requests, Insert(r) PROVE (~overlapped /\ ~troubled => Undisturbed)'
  BY <1>10 DEF Insert, row, pending, observed
<1>11. ASSUME NEW r \in Requests, Commit(r) PROVE (~overlapped /\ ~troubled => Undisturbed)'
  BY <1>11 DEF Commit, row, pending, observed
<1>12. ASSUME NEW r \in Requests, FailOpen(r) PROVE (~overlapped /\ ~troubled => Undisturbed)'
  BY <1>12 DEF FailOpen, row, pending, observed
<1>13. ASSUME NEW r \in Requests, Finish(r) PROVE (~overlapped /\ ~troubled => Undisturbed)'
  BY <1>13 DEF Finish, row, pending, observed
<1>14. ASSUME NEW r \in Requests, FinishError(r) PROVE (~overlapped /\ ~troubled => Undisturbed)'
  BY <1>14 DEF FinishError, row, pending, observed
<1>15. ASSUME NEW r \in Requests, ClientGone(r) PROVE (~overlapped /\ ~troubled => Undisturbed)'
  BY <1>15 DEF ClientGone, row, pending, observed
<1>16. ASSUME NEW r \in Requests, OrphanEnds(r) PROVE (~overlapped /\ ~troubled => Undisturbed)'
  BY <1>16 DEF OrphanEnds, row, pending, observed
<1>17. ASSUME NEW r \in Requests, Save(r) PROVE (~overlapped /\ ~troubled => Undisturbed)'
  BY <1>17 DEF Save, row, pending, observed
<1>18. ASSUME NEW r \in Requests, Release(r) PROVE (~overlapped /\ ~troubled => Undisturbed)'
  BY <1>18 DEF Release, row, pending, observed
<1>19. ASSUME NEW r \in Requests, AfterwardsFails(r) PROVE (~overlapped /\ ~troubled => Undisturbed)'
  BY <1>19 DEF AfterwardsFails, row, pending, observed
<1>20. ASSUME NEW r \in Requests, Crash(r) PROVE (~overlapped /\ ~troubled => Undisturbed)'
  BY <1>20 DEF Crash, row, pending, observed
<1>21. ASSUME Expire PROVE (~overlapped /\ ~troubled => Undisturbed)'
  BY <1>21 DEF Expire, pending, observed
<1>22. ASSUME CleanupExpired PROVE (~overlapped /\ ~troubled => Undisturbed)'
  BY <1>22 DEF CleanupExpired, pending, observed
<1>23. ASSUME UNCHANGED vars PROVE (~overlapped /\ ~troubled => Undisturbed)'
  BY <1>23 DEF vars, row, pending, observed
<1> QED
  BY <1>1, <1>2, <1>3, <1>4, <1>5, <1>6, <1>7, <1>8, <1>9, <1>10, <1>11, <1>12, <1>13, <1>14, <1>15, <1>16, <1>17, <1>18, <1>19, <1>20, <1>21, <1>22, <1>23 DEF Next, Statement, Afterwards

-----------------------------------------------------------------------------
\* The invariant is kept by every step.
THEOREM Inductive == Spec => []IInv
<1>1. IInv /\ [Next]_vars => IInv'
  BY TypeStep, ResponsesStep, UndisturbedStep DEF IInv
<1> QED
  BY Initially, <1>1, PTL DEF Spec

\* createIdempotencyMiddleware over PostgreSQL: a replay is the stored response to
\* the same payload, and a retry that comes after the reservation is caught.
THEOREM RetriesAreCaught == Spec => []RetriesAreSound
<1>1. IInv => RetriesAreSound
  BY DEF IInv, ResponsesAreStored, Undisturbed, Owner, RetriesAreSound, SequentialRetriesAreCaught, OneHandlerAtATime
<1> QED
  BY Inductive, <1>1, PTL

\* save and release are not awaited, and still neither they nor a reservation take
\* a saved response back while nothing overlaps or fails.
THEOREM SavedStays == Spec => SavedResponsesStay
<1> DEFINE Stays == state = "completed" /\ ~overdue /\ ~overlapped' /\ ~troubled' => state' = "completed"
<1>1. IInv /\ [Next]_vars => [Stays]_vars
  <2> SUFFICES ASSUME IInv, Next, state = "completed", ~overdue, ~overlapped', ~troubled'
               PROVE  state' = "completed"
    OBVIOUS
  <2>1. CASE state' = state
    BY <2>1
  <2>2. ASSUME NEW r \in Requests, DeleteKey(r) \/ Commit(r) \/ Save(r) \/ Release(r) PROVE state' = "completed"
    BY <2>2 DEF IInv, Undisturbed, DeleteKey, Commit, Save, Release, observed
  <2>3. ASSUME CleanupExpired PROVE FALSE
    BY <2>3 DEF CleanupExpired
  <2>4. ASSUME NEW r \in Requests,
               \/ Receive(r) \/ Connect(r) \/ ConnectTimesOut(r) \/ SelectNothing(r) \/ SelectInFlight(r)
               \/ SelectCompleted(r) \/ SelectReleased(r) \/ DeleteFails(r) \/ Insert(r) \/ FailOpen(r)
               \/ Finish(r) \/ FinishError(r) \/ ClientGone(r) \/ OrphanEnds(r) \/ AfterwardsFails(r) \/ Crash(r)
        PROVE  state' = state
    BY <2>4 DEF Receive, Connect, ConnectTimesOut, SelectNothing, SelectInFlight, SelectCompleted, SelectReleased,
                DeleteFails, Insert, FailOpen, Finish, FinishError, ClientGone, OrphanEnds, AfterwardsFails, Crash, row
  <2>5. ASSUME Expire PROVE state' = state
    BY <2>5 DEF Expire
  <2> QED
    BY <2>1, <2>2, <2>3, <2>4, <2>5 DEF Next, Statement, Afterwards
<1> QED
  BY Inductive, <1>1, PTL DEF Spec, SavedResponsesStay
=============================================================================
