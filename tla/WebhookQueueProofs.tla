------------------------- MODULE WebhookQueueProofs -------------------------
(***************************************************************************)
(* Proofs about WebhookQueue, for any instances, deliveries and faults:    *)
(* what a row says of its delivery happened, and the requests a delivery   *)
(* costs are bounded.                                                      *)
(*                                                                         *)
(* The first holds however many instances work on a delivery: each counts  *)
(* an attempt only after the request went out.  The second needs that one  *)
(* instance works on it: then a request is either counted in the row, or   *)
(* being handled, or was lost to a crash or a failed update.               *)
(***************************************************************************)
EXTENDS WebhookQueue, TLAPS

\* The types, without the bound on attempts.
Types ==
    /\ status \in [Deliveries -> {"none", "pending"} \union Final]
    /\ attempts \in [Deliveries -> Nat]
    /\ due \in [Deliveries -> {"never", "later", "now"}]
    /\ active \subseteq Deliveries /\ up \subseteq Instances
    /\ stage \in [Calls -> Stages]
    /\ attempt \in [Calls -> Nat]
    /\ sent \in [Deliveries -> Nat]
    /\ received \subseteq Deliveries /\ abandoned \subseteq Deliveries /\ shared \subseteq Deliveries
    /\ crashes \in 0 .. MaxCrashes /\ errors \in 0 .. MaxErrors

\* An attempt is counted when its request has gone out.
AttemptsWereSent ==
    /\ \A d \in Deliveries : attempts[d] <= sent[d]
    /\ \A i \in Instances, d \in Deliveries :
        /\ stage[<<i, d>>] = "sending" => attempt[<<i, d>>] <= sent[d] + 1
        /\ stage[<<i, d>>] \in Outcomes => attempt[<<i, d>>] <= sent[d]
        /\ stage[<<i, d>>] = "ok" => d \in received

\* One instance at a time works on a delivery that is not shared, and it runs.
OneWorks ==
    /\ \A i \in Instances, d \in Deliveries : stage[<<i, d>>] # "idle" => i \in up
    /\ \A d \in Deliveries \ shared, i, j \in Instances :
           stage[<<i, d>>] # "idle" /\ stage[<<j, d>>] # "idle" => i = j

\* What a row says while its delivery may go on.
RowsGoOn ==
    \A d \in Deliveries \ shared :
        /\ attempts[d] <= MaxRetries
        /\ status[d] = "none" => attempts[d] = 0
        /\ status[d] = "pending" => attempts[d] < MaxRetries
        /\ \A i \in Instances :
            /\ stage[<<i, d>>] # "idle" => status[d] \in {"none", "pending"}
            /\ stage[<<i, d>>] \in Outcomes \union {"sending"} =>
                  status[d] = "pending" /\ attempt[<<i, d>>] = attempts[d] + 1

\* Requests that went out are counted in the row, being handled, or lost.
RequestsAreCounted ==
    \A d \in Deliveries \ shared :
        /\ sent[d] <= attempts[d] + 1 + crashes + errors
        /\ (\A i \in Instances : stage[<<i, d>>] \notin Outcomes) => sent[d] <= attempts[d] + crashes + errors

IInv == Types /\ OutcomesAreTrue /\ AttemptsWereSent /\ OneWorks /\ RowsGoOn /\ RequestsAreCounted

-----------------------------------------------------------------------------
LEMMA Initially == Init => IInv
<1> SUFFICES ASSUME Init PROVE IInv
  OBVIOUS
<1> USE RetriesAssumption, FaultsAssumption DEF Init, Calls
<1>1. Types
  BY DEF Types, Stages
<1>2. OutcomesAreTrue /\ AttemptsWereSent
  BY DEF OutcomesAreTrue, CompletedWasReceived, DeadLettersWereTried, AttemptsWereSent, Outcomes
<1>3. OneWorks /\ RowsGoOn /\ RequestsAreCounted
  BY DEF OneWorks, RowsGoOn, RequestsAreCounted, Outcomes
<1> QED
  BY <1>1, <1>2, <1>3 DEF IInv

\* Every step keeps the types.
LEMMA TypeStep == Types /\ [Next]_vars => Types'
<1> SUFFICES ASSUME Types, [Next]_vars PROVE Types'
  OBVIOUS
<1> USE RetriesAssumption, FaultsAssumption DEF Types, Stages, Outcomes, Final, Calls, PendingDeliveries, RetriesExhausted, OutcomesOf
<1>1. ASSUME NEW i \in Instances, NEW d \in Deliveries, Submit(i, d) PROVE Types'
  BY <1>1 DEF Submit, At, Move, rows, observed
<1>2. ASSUME NEW i \in Instances, NEW d \in Deliveries, NoEndpoint(i, d) PROVE Types'
  BY <1>2 DEF NoEndpoint, At, Move, rows, observed
<1>3. ASSUME NEW i \in Instances, NEW d \in Deliveries, LoadDelivery(i, d) PROVE Types'
  BY <1>3 DEF LoadDelivery, At, Move, rows, observed
<1>4. ASSUME NEW i \in Instances, NEW d \in Deliveries, SendAttempt(i, d) PROVE Types'
  BY <1>4 DEF SendAttempt, At, Move, rows, observed
<1>5. ASSUME NEW i \in Instances, NEW d \in Deliveries, Succeeded(i, d) PROVE Types'
  BY <1>5 DEF Succeeded, At, Move, rows, observed
<1>6. ASSUME NEW i \in Instances, NEW d \in Deliveries, ScheduleRetry(i, d) PROVE Types'
  BY <1>6 DEF ScheduleRetry, At, Move, rows, observed
<1>7. ASSUME NEW i \in Instances, NEW d \in Deliveries, GiveUp(i, d) PROVE Types'
  BY <1>7 DEF GiveUp, At, Move, rows, observed
<1>8. ASSUME NEW i \in Instances, NEW d \in Deliveries, FireTimer(i, d) PROVE Types'
  BY <1>8 DEF FireTimer, At, Move, rows, observed
<1>9. ASSUME NEW i \in Instances, NEW d \in Deliveries, ResumeNext(i, d) PROVE Types'
  BY <1>9 DEF ResumeNext, At, Move, rows, observed
<1>10. ASSUME NEW i \in Instances, NEW d \in Deliveries, RepositoryFails(i, d) PROVE Types'
  BY <1>10 DEF RepositoryFails, At, Move, rows, observed
<1>11. ASSUME NEW d \in Deliveries, TimePasses(d) PROVE Types'
  BY <1>11 DEF TimePasses, rows, observed
<1>12. ASSUME NEW d \in Deliveries, Deactivate(d) PROVE Types'
  BY <1>12 DEF Deactivate, rows, observed
<1>13. ASSUME NEW i \in Instances, Crash(i) PROVE Types'
  BY <1>13 DEF Crash, rows
<1>14. ASSUME NEW i \in Instances, Start(i) PROVE Types'
  BY <1>14 DEF Start, rows
<1>15. ASSUME UNCHANGED vars PROVE Types'
  BY <1>15 DEF vars, rows, observed
<1> QED
  BY <1>1, <1>2, <1>3, <1>4, <1>5, <1>6, <1>7, <1>8, <1>9, <1>10, <1>11, <1>12, <1>13, <1>14, <1>15 DEF Next, Step

\* A final status is written by a call that knows what came of its requests.
LEMMA OutcomesStep == Types /\ AttemptsWereSent /\ OutcomesAreTrue /\ [Next]_vars => OutcomesAreTrue'
<1> SUFFICES ASSUME Types /\ AttemptsWereSent /\ OutcomesAreTrue, [Next]_vars PROVE OutcomesAreTrue'
  OBVIOUS
<1> USE RetriesAssumption, FaultsAssumption DEF Types, Calls, Outcomes, OutcomesAreTrue, CompletedWasReceived, DeadLettersWereTried, AttemptsWereSent, RetriesExhausted
<1>1. ASSUME NEW i \in Instances, NEW d \in Deliveries, Submit(i, d) PROVE OutcomesAreTrue'
  BY <1>1 DEF Submit, At, Move, rows, observed
<1>2. ASSUME NEW i \in Instances, NEW d \in Deliveries, NoEndpoint(i, d) PROVE OutcomesAreTrue'
  BY <1>2 DEF NoEndpoint, At, Move, rows, observed
<1>3. ASSUME NEW i \in Instances, NEW d \in Deliveries, LoadDelivery(i, d) PROVE OutcomesAreTrue'
  BY <1>3 DEF LoadDelivery, At, Move, rows, observed
<1>4. ASSUME NEW i \in Instances, NEW d \in Deliveries, SendAttempt(i, d) PROVE OutcomesAreTrue'
  BY <1>4 DEF SendAttempt, At, Move, rows, observed
<1>5. ASSUME NEW i \in Instances, NEW d \in Deliveries, Succeeded(i, d) PROVE OutcomesAreTrue'
  BY <1>5 DEF Succeeded, At, Move, rows, observed
<1>6. ASSUME NEW i \in Instances, NEW d \in Deliveries, ScheduleRetry(i, d) PROVE OutcomesAreTrue'
  BY <1>6 DEF ScheduleRetry, At, Move, rows, observed
<1>7. ASSUME NEW i \in Instances, NEW d \in Deliveries, GiveUp(i, d) PROVE OutcomesAreTrue'
  BY <1>7 DEF GiveUp, At, Move, rows, observed
<1>8. ASSUME NEW i \in Instances, NEW d \in Deliveries, FireTimer(i, d) PROVE OutcomesAreTrue'
  BY <1>8 DEF FireTimer, At, Move, rows, observed
<1>9. ASSUME NEW i \in Instances, NEW d \in Deliveries, ResumeNext(i, d) PROVE OutcomesAreTrue'
  BY <1>9 DEF ResumeNext, At, Move, rows, observed
<1>10. ASSUME NEW i \in Instances, NEW d \in Deliveries, RepositoryFails(i, d) PROVE OutcomesAreTrue'
  BY <1>10 DEF RepositoryFails, At, Move, rows, observed
<1>11. ASSUME NEW d \in Deliveries, TimePasses(d) PROVE OutcomesAreTrue'
  BY <1>11 DEF TimePasses, rows, observed
<1>12. ASSUME NEW d \in Deliveries, Deactivate(d) PROVE OutcomesAreTrue'
  BY <1>12 DEF Deactivate, rows, observed
<1>13. ASSUME NEW i \in Instances, Crash(i) PROVE OutcomesAreTrue'
  BY <1>13 DEF Crash, rows
<1>14. ASSUME NEW i \in Instances, Start(i) PROVE OutcomesAreTrue'
  BY <1>14 DEF Start, rows
<1>15. ASSUME UNCHANGED vars PROVE OutcomesAreTrue'
  BY <1>15 DEF vars, rows, observed
<1> QED
  BY <1>1, <1>2, <1>3, <1>4, <1>5, <1>6, <1>7, <1>8, <1>9, <1>10, <1>11, <1>12, <1>13, <1>14, <1>15 DEF Next, Step

\* An attempt is counted when its request has gone out.
LEMMA AttemptsStep == Types /\ AttemptsWereSent /\ [Next]_vars => AttemptsWereSent'
<1> SUFFICES ASSUME Types /\ AttemptsWereSent, [Next]_vars PROVE AttemptsWereSent'
  OBVIOUS
<1> USE RetriesAssumption, FaultsAssumption DEF Types, Calls, Outcomes, OutcomesOf, AttemptsWereSent
<1>1. ASSUME NEW i \in Instances, NEW d \in Deliveries, Submit(i, d) PROVE AttemptsWereSent'
  BY <1>1 DEF Submit, At, Move, rows, observed
<1>2. ASSUME NEW i \in Instances, NEW d \in Deliveries, NoEndpoint(i, d) PROVE AttemptsWereSent'
  BY <1>2 DEF NoEndpoint, At, Move, rows, observed
<1>3. ASSUME NEW i \in Instances, NEW d \in Deliveries, LoadDelivery(i, d) PROVE AttemptsWereSent'
  BY <1>3 DEF LoadDelivery, At, Move, rows, observed
<1>4. ASSUME NEW i \in Instances, NEW d \in Deliveries, SendAttempt(i, d) PROVE AttemptsWereSent'
  BY <1>4 DEF SendAttempt, At, Move, rows, observed
<1>5. ASSUME NEW i \in Instances, NEW d \in Deliveries, Succeeded(i, d) PROVE AttemptsWereSent'
  BY <1>5 DEF Succeeded, At, Move, rows, observed
<1>6. ASSUME NEW i \in Instances, NEW d \in Deliveries, ScheduleRetry(i, d) PROVE AttemptsWereSent'
  BY <1>6 DEF ScheduleRetry, At, Move, rows, observed
<1>7. ASSUME NEW i \in Instances, NEW d \in Deliveries, GiveUp(i, d) PROVE AttemptsWereSent'
  BY <1>7 DEF GiveUp, At, Move, rows, observed
<1>8. ASSUME NEW i \in Instances, NEW d \in Deliveries, FireTimer(i, d) PROVE AttemptsWereSent'
  BY <1>8 DEF FireTimer, At, Move, rows, observed
<1>9. ASSUME NEW i \in Instances, NEW d \in Deliveries, ResumeNext(i, d) PROVE AttemptsWereSent'
  BY <1>9 DEF ResumeNext, At, Move, rows, observed
<1>10. ASSUME NEW i \in Instances, NEW d \in Deliveries, RepositoryFails(i, d) PROVE AttemptsWereSent'
  BY <1>10 DEF RepositoryFails, At, Move, rows, observed
<1>11. ASSUME NEW d \in Deliveries, TimePasses(d) PROVE AttemptsWereSent'
  BY <1>11 DEF TimePasses, rows, observed
<1>12. ASSUME NEW d \in Deliveries, Deactivate(d) PROVE AttemptsWereSent'
  BY <1>12 DEF Deactivate, rows, observed
<1>13. ASSUME NEW i \in Instances, Crash(i) PROVE AttemptsWereSent'
  BY <1>13 DEF Crash, rows
<1>14. ASSUME NEW i \in Instances, Start(i) PROVE AttemptsWereSent'
  BY <1>14 DEF Start, rows
<1>15. ASSUME UNCHANGED vars PROVE AttemptsWereSent'
  BY <1>15 DEF vars, rows, observed
<1> QED
  BY <1>1, <1>2, <1>3, <1>4, <1>5, <1>6, <1>7, <1>8, <1>9, <1>10, <1>11, <1>12, <1>13, <1>14, <1>15 DEF Next, Step

\* A restart that lists a delivery in progress makes it shared.
LEMMA OneWorksStep == Types /\ OneWorks /\ [Next]_vars => OneWorks'
<1> SUFFICES ASSUME Types /\ OneWorks, [Next]_vars PROVE OneWorks'
  OBVIOUS
<1> USE RetriesAssumption, FaultsAssumption DEF Types, Calls, OneWorks
<1>1. ASSUME NEW i \in Instances, NEW d \in Deliveries, Submit(i, d) PROVE OneWorks'
  BY <1>1 DEF Submit, At, Move, rows, observed
<1>2. ASSUME NEW i \in Instances, NEW d \in Deliveries, NoEndpoint(i, d) PROVE OneWorks'
  BY <1>2 DEF NoEndpoint, At, Move, rows, observed
<1>3. ASSUME NEW i \in Instances, NEW d \in Deliveries, LoadDelivery(i, d) PROVE OneWorks'
  BY <1>3 DEF LoadDelivery, At, Move, rows, observed
<1>4. ASSUME NEW i \in Instances, NEW d \in Deliveries, SendAttempt(i, d) PROVE OneWorks'
  BY <1>4 DEF SendAttempt, At, Move, rows, observed
<1>5. ASSUME NEW i \in Instances, NEW d \in Deliveries, Succeeded(i, d) PROVE OneWorks'
  BY <1>5 DEF Succeeded, At, Move, rows, observed
<1>6. ASSUME NEW i \in Instances, NEW d \in Deliveries, ScheduleRetry(i, d) PROVE OneWorks'
  BY <1>6 DEF ScheduleRetry, At, Move, rows, observed
<1>7. ASSUME NEW i \in Instances, NEW d \in Deliveries, GiveUp(i, d) PROVE OneWorks'
  BY <1>7 DEF GiveUp, At, Move, rows, observed
<1>8. ASSUME NEW i \in Instances, NEW d \in Deliveries, FireTimer(i, d) PROVE OneWorks'
  BY <1>8 DEF FireTimer, At, Move, rows, observed
<1>9. ASSUME NEW i \in Instances, NEW d \in Deliveries, ResumeNext(i, d) PROVE OneWorks'
  BY <1>9 DEF ResumeNext, At, Move, rows, observed
<1>10. ASSUME NEW i \in Instances, NEW d \in Deliveries, RepositoryFails(i, d) PROVE OneWorks'
  BY <1>10 DEF RepositoryFails, At, Move, rows, observed
<1>11. ASSUME NEW d \in Deliveries, TimePasses(d) PROVE OneWorks'
  BY <1>11 DEF TimePasses, rows, observed
<1>12. ASSUME NEW d \in Deliveries, Deactivate(d) PROVE OneWorks'
  BY <1>12 DEF Deactivate, rows, observed
<1>13. ASSUME NEW i \in Instances, Crash(i) PROVE OneWorks'
  BY <1>13 DEF Crash, rows
<1>14. ASSUME NEW i \in Instances, Start(i) PROVE OneWorks'
  BY <1>14 DEF Start, rows
<1>15. ASSUME UNCHANGED vars PROVE OneWorks'
  BY <1>15 DEF vars, rows, observed
<1> QED
  BY <1>1, <1>2, <1>3, <1>4, <1>5, <1>6, <1>7, <1>8, <1>9, <1>10, <1>11, <1>12, <1>13, <1>14, <1>15 DEF Next, Step

\* The one instance that works on a delivery counts its attempts.
LEMMA RowsStep == Types /\ OneWorks /\ RowsGoOn /\ [Next]_vars => RowsGoOn'
<1> SUFFICES ASSUME Types /\ OneWorks /\ RowsGoOn, [Next]_vars PROVE RowsGoOn'
  OBVIOUS
<1> USE RetriesAssumption, FaultsAssumption DEF Types, Calls, Outcomes, OneWorks, RowsGoOn, PendingDeliveries, RetriesExhausted
<1>1. ASSUME NEW i \in Instances, NEW d \in Deliveries, Submit(i, d) PROVE RowsGoOn'
  BY <1>1 DEF Submit, At, Move, rows, observed
<1>2. ASSUME NEW i \in Instances, NEW d \in Deliveries, NoEndpoint(i, d) PROVE RowsGoOn'
  BY <1>2 DEF NoEndpoint, At, Move, rows, observed
<1>3. ASSUME NEW i \in Instances, NEW d \in Deliveries, LoadDelivery(i, d) PROVE RowsGoOn'
  BY <1>3 DEF LoadDelivery, At, Move, rows, observed
<1>4. ASSUME NEW i \in Instances, NEW d \in Deliveries, SendAttempt(i, d) PROVE RowsGoOn'
  <2>1. /\ stage[<<i, d>>] = "sending"
        /\ UNCHANGED <<status, attempts, attempt, shared>>
    BY <1>4 DEF SendAttempt, At, rows
  <2>2. PICK outcome \in Outcomes : stage' = [stage EXCEPT ![<<i, d>>] = outcome]
    BY <1>4 DEF SendAttempt, Move
  <2>3. \A j \in Instances, e \in Deliveries :
            \/ stage'[<<j, e>>] = stage[<<j, e>>]
            \/ j = i /\ e = d /\ stage'[<<j, e>>] \in Outcomes
    BY <2>2
  <2> QED
    BY <2>1, <2>3
<1>5. ASSUME NEW i \in Instances, NEW d \in Deliveries, Succeeded(i, d) PROVE RowsGoOn'
  BY <1>5 DEF Succeeded, At, Move, rows, observed
<1>6. ASSUME NEW i \in Instances, NEW d \in Deliveries, ScheduleRetry(i, d) PROVE RowsGoOn'
  <2>1. /\ stage[<<i, d>>] = "retryable" /\ attempt[<<i, d>>] < MaxRetries
        /\ attempts' = [attempts EXCEPT ![d] = attempt[<<i, d>>]]
        /\ stage' = [stage EXCEPT ![<<i, d>>] = "timer"]
        /\ UNCHANGED <<status, attempt, shared>>
    BY <1>6 DEF ScheduleRetry, At, Move, observed
  <2>2. ASSUME d \notin shared
        PROVE  /\ attempt[<<i, d>>] = attempts[d] + 1 /\ status[d] = "pending"
               /\ \A j \in Instances \ {i} : stage[<<j, d>>] = "idle"
    BY <2>1, <2>2
  <2> QED
    BY <2>1, <2>2
<1>7. ASSUME NEW i \in Instances, NEW d \in Deliveries, GiveUp(i, d) PROVE RowsGoOn'
  BY <1>7 DEF GiveUp, At, Move, rows, observed
<1>8. ASSUME NEW i \in Instances, NEW d \in Deliveries, FireTimer(i, d) PROVE RowsGoOn'
  BY <1>8 DEF FireTimer, At, Move, rows, observed
<1>9. ASSUME NEW i \in Instances, NEW d \in Deliveries, ResumeNext(i, d) PROVE RowsGoOn'
  BY <1>9 DEF ResumeNext, At, Move, rows, observed
<1>10. ASSUME NEW i \in Instances, NEW d \in Deliveries, RepositoryFails(i, d) PROVE RowsGoOn'
  BY <1>10 DEF RepositoryFails, At, Move, rows, observed
<1>11. ASSUME NEW d \in Deliveries, TimePasses(d) PROVE RowsGoOn'
  BY <1>11 DEF TimePasses, rows, observed
<1>12. ASSUME NEW d \in Deliveries, Deactivate(d) PROVE RowsGoOn'
  BY <1>12 DEF Deactivate, rows, observed
<1>13. ASSUME NEW i \in Instances, Crash(i) PROVE RowsGoOn'
  BY <1>13 DEF Crash, rows
<1>14. ASSUME NEW i \in Instances, Start(i) PROVE RowsGoOn'
  BY <1>14 DEF Start, rows
<1>15. ASSUME UNCHANGED vars PROVE RowsGoOn'
  BY <1>15 DEF vars, rows, observed
<1> QED
  BY <1>1, <1>2, <1>3, <1>4, <1>5, <1>6, <1>7, <1>8, <1>9, <1>10, <1>11, <1>12, <1>13, <1>14, <1>15 DEF Next, Step

\* A request is lost only to a crash or a failed update.
LEMMA RequestsStep == Types /\ OneWorks /\ RowsGoOn /\ RequestsAreCounted /\ [Next]_vars => RequestsAreCounted'
<1> SUFFICES ASSUME Types /\ OneWorks /\ RowsGoOn /\ RequestsAreCounted, [Next]_vars PROVE RequestsAreCounted'
  OBVIOUS
<1> USE RetriesAssumption, FaultsAssumption DEF Types, Calls, Outcomes, OneWorks, RowsGoOn, RequestsAreCounted
<1>1. ASSUME NEW i \in Instances, NEW d \in Deliveries, Submit(i, d) PROVE RequestsAreCounted'
  BY <1>1 DEF Submit, At, Move, rows, observed
<1>2. ASSUME NEW i \in Instances, NEW d \in Deliveries, NoEndpoint(i, d) PROVE RequestsAreCounted'
  BY <1>2 DEF NoEndpoint, At, Move, rows, observed
<1>3. ASSUME NEW i \in Instances, NEW d \in Deliveries, LoadDelivery(i, d) PROVE RequestsAreCounted'
  BY <1>3 DEF LoadDelivery, At, Move, rows, observed
<1>4. ASSUME NEW i \in Instances, NEW d \in Deliveries, SendAttempt(i, d) PROVE RequestsAreCounted'
  <2>1. /\ stage[<<i, d>>] = "sending" /\ sent' = [sent EXCEPT ![d] = @ + 1]
        /\ UNCHANGED <<attempts, crashes, errors, shared>>
    BY <1>4 DEF SendAttempt, At, rows
  <2>2. PICK outcome \in Outcomes : stage' = [stage EXCEPT ![<<i, d>>] = outcome]
    BY <1>4 DEF SendAttempt, Move
  <2>3. ASSUME NEW e \in Deliveries \ shared, e # d
        PROVE  /\ sent'[e] <= attempts[e] + 1 + crashes + errors
               /\ (\A j \in Instances : stage'[<<j, e>>] \notin Outcomes) => sent'[e] <= attempts[e] + crashes + errors
    BY <2>1, <2>2, <2>3
  <2>4. ASSUME d \notin shared
        PROVE  /\ sent'[d] <= attempts[d] + 1 + crashes + errors
               /\ stage'[<<i, d>>] \in Outcomes
    <3>1. \A j \in Instances : stage[<<j, d>>] \notin Outcomes
      BY <2>1, <2>4
    <3> QED
      BY <2>1, <2>2, <2>4, <3>1
  <2> QED
    BY <2>1, <2>3, <2>4
<1>5. ASSUME NEW i \in Instances, NEW d \in Deliveries, Succeeded(i, d) PROVE RequestsAreCounted'
  BY <1>5 DEF Succeeded, At, Move, rows, observed
<1>6. ASSUME NEW i \in Instances, NEW d \in Deliveries, ScheduleRetry(i, d) PROVE RequestsAreCounted'
  BY <1>6 DEF ScheduleRetry, At, Move, rows, observed
<1>7. ASSUME NEW i \in Instances, NEW d \in Deliveries, GiveUp(i, d) PROVE RequestsAreCounted'
  BY <1>7 DEF GiveUp, At, Move, rows, observed
<1>8. ASSUME NEW i \in Instances, NEW d \in Deliveries, FireTimer(i, d) PROVE RequestsAreCounted'
  BY <1>8 DEF FireTimer, At, Move, rows, observed
<1>9. ASSUME NEW i \in Instances, NEW d \in Deliveries, ResumeNext(i, d) PROVE RequestsAreCounted'
  BY <1>9 DEF ResumeNext, At, Move, rows, observed
<1>10. ASSUME NEW i \in Instances, NEW d \in Deliveries, RepositoryFails(i, d) PROVE RequestsAreCounted'
  BY <1>10 DEF RepositoryFails, At, Move, rows, observed
<1>11. ASSUME NEW d \in Deliveries, TimePasses(d) PROVE RequestsAreCounted'
  BY <1>11 DEF TimePasses, rows, observed
<1>12. ASSUME NEW d \in Deliveries, Deactivate(d) PROVE RequestsAreCounted'
  BY <1>12 DEF Deactivate, rows, observed
<1>13. ASSUME NEW i \in Instances, Crash(i) PROVE RequestsAreCounted'
  BY <1>13 DEF Crash, rows
<1>14. ASSUME NEW i \in Instances, Start(i) PROVE RequestsAreCounted'
  BY <1>14 DEF Start, rows
<1>15. ASSUME UNCHANGED vars PROVE RequestsAreCounted'
  BY <1>15 DEF vars, rows, observed
<1> QED
  BY <1>1, <1>2, <1>3, <1>4, <1>5, <1>6, <1>7, <1>8, <1>9, <1>10, <1>11, <1>12, <1>13, <1>14, <1>15 DEF Next, Step

-----------------------------------------------------------------------------
\* The invariant is kept by every step.
THEOREM Inductive == Spec => []IInv
<1>1. IInv /\ [Next]_vars => IInv'
  BY TypeStep, OutcomesStep, AttemptsStep, OneWorksStep, RowsStep, RequestsStep DEF IInv
<1> QED
  BY Initially, <1>1, PTL DEF Spec

\* Every variable stays in its type, and no row that one instance works on counts
\* more than MAX_RETRIES attempts.
THEOREM TypeCorrect == Spec => []TypeOK
<1>1. IInv => TypeOK
  BY DEF IInv, Types, RowsGoOn, TypeOK
<1> QED
  BY Inductive, <1>1, PTL

\* processDelivery marks a delivery completed only if the receiver accepted it, and
\* gives it up only after MAX_RETRIES requests, however many instances share it.
THEOREM RowsTellTheTruth == Spec => []OutcomesAreTrue
<1>1. IInv => OutcomesAreTrue
  BY DEF IInv
<1> QED
  BY Inductive, <1>1, PTL

\* The receiver is sent at most MAX_RETRIES requests for a delivery and one for
\* each crash or failed update, while one instance works on it.
THEOREM RequestsAreBounded == Spec => []SendsAreBounded
<1>1. IInv => SendsAreBounded
  <2> SUFFICES ASSUME IInv, NEW d \in Deliveries \ shared
               PROVE  sent[d] <= MaxRetries + crashes + errors
    BY DEF SendsAreBounded
  <2> USE RetriesAssumption, FaultsAssumption DEF IInv, Types, Calls
  <2>1. CASE \A i \in Instances : stage[<<i, d>>] \notin Outcomes
    BY <2>1 DEF RequestsAreCounted, RowsGoOn
  <2>2. CASE \E i \in Instances : stage[<<i, d>>] \in Outcomes
    <3>1. attempts[d] < MaxRetries
      BY <2>2 DEF RowsGoOn, Outcomes
    <3> QED
      BY <3>1 DEF RequestsAreCounted
  <2> QED
    BY <2>1, <2>2
<1> QED
  BY Inductive, <1>1, PTL
=============================================================================
