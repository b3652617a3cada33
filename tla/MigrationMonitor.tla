-------------------------- MODULE MigrationMonitor --------------------------
(***************************************************************************)
(* What surrounds the migration executor in                                *)
(* src/src/db/migrations/safety: recovery points and backups, emergency    *)
(* rollbacks, and the monitoring service with its alerts.                  *)
(*                                                                         *)
(* Days matter to recovery points, minutes (the interval of the health     *)
(* checks) to the cooldown of alerts; a day is longer than any cooldown.   *)
(***************************************************************************)
EXTENDS Naturals

CONSTANTS
    Points,       \* recovery points that may be created
    Restores,     \* calls of performEmergencyRollback
    Files,        \* migrations whose failures are alerted
    Cooldown,     \* cooldownPeriod in minutes
    OldestAge,    \* days after which ages are no longer told apart
    CleanupDays   \* 7: what the health check keeps; the daily cleanup keeps 30

ASSUME PeriodsAssumption == Cooldown \in Nat \ {0} /\ OldestAge \in Nat /\ CleanupDays \in Nat

VARIABLES
    point,        \* state of each recovery point: none, making, stored, deleted
    file,         \* points whose backup file was written
    age,          \* days since each point was created
    epc, source,  \* each emergency rollback: where it is, the point it restores
    health,       \* outcome of the health check of this minute
    cooling,      \* minutes until the next alert of each key
    unresolved,   \* keys with an alert nobody resolved
    since,        \* observed: minutes since the last alert of each key
    failedBackup  \* observed: points whose backup failed

store == <<point, file, age, failedBackup>>
alerts == <<cooling, unresolved, since>>
monitorVars == <<store, epc, source, health, alerts>>

-----------------------------------------------------------------------------
(* createAlert: one alert per type, severity and migration in a cooldown.  *)

HealthKey == "system_health"
Keys == {HealthKey, "security_violation"} \union Files

CreateAlert(k) ==
    IF cooling[k] > 0
    THEN UNCHANGED alerts
    ELSE /\ cooling' = [cooling EXCEPT ![k] = Cooldown]
         /\ unresolved' = unresolved \union {k}
         /\ since' = [since EXCEPT ![k] = 0]

\* performHealthCheck: 25 points for each of four checks that pass, 80 needed;
\* 'degraded', for 80 to 89 points, is never the sum.
Score(passed) == 25 * passed
Status(score) == IF score < 80 THEN "unhealthy" ELSE IF score < 90 THEN "degraded" ELSE "healthy"

\* The migration check passes if nothing had to be cleaned up and the placeholder
\* counts are low; the others depend on the database's and the host's state.
SystemPasses(removed) == IF removed = {} THEN {0, 1} ELSE {0}
OthersPassed == 0 .. 3

-----------------------------------------------------------------------------
MonitorInit ==
    /\ point = [p \in Points |-> "none"] /\ file = {} /\ failedBackup = {}
    /\ age = [p \in Points |-> 0]
    /\ epc = [r \in Restores |-> "idle"]
    /\ source \in [Restores -> Points]
    /\ health = "none"
    /\ cooling = [k \in Keys |-> 0] /\ unresolved = {}
    /\ since = [k \in Keys |-> Cooldown + 1]

\* createRecoveryPoint by the executor, and createEmergencyRollbackPoint: a row
\* without a file, and an empty checksum.
CreatePoint(p) ==
    /\ point[p] = "none"
    /\ point' = [point EXCEPT ![p] = "stored"]
    /\ UNCHANGED <<file, age, failedBackup, epc, source, health, alerts>>

\* createBackup inserts the point and then writes the file; size and checksum
\* are only in the object it returns.
StartBackup(p) ==
    /\ point[p] = "none"
    /\ point' = [point EXCEPT ![p] = "making"]
    /\ UNCHANGED <<file, age, failedBackup, epc, source, health, alerts>>

WriteBackup(p) ==
    /\ point[p] = "making"
    /\ point' = [point EXCEPT ![p] = "stored"]
    /\ file' = file \union {p}
    /\ UNCHANGED <<age, failedBackup, epc, source, health, alerts>>

\* Mutant: the checksum of the file is stored with the point.
StoredChecksumMatches(p) == p \in file

\* restoreFromBackup compares the file's checksum with the stored one, which is
\* always empty.
ChecksumMatches(p) == FALSE

\* The restore itself executes nothing: it logs what it would do.
Restored == {}

\* The backup fails and its point is deleted, unless that fails too.
BackupFails(p) ==
    /\ point[p] = "making"
    /\ point' \in {[point EXCEPT ![p] = "deleted"], [point EXCEPT ![p] = "stored"]}
    /\ failedBackup' = failedBackup \union {p}
    /\ UNCHANGED <<file, age, epc, source, health, alerts>>

\* performEmergencyRollback finds the point...
FindPoint(r) ==
    /\ epc[r] = "idle"
    /\ epc' = [epc EXCEPT ![r] = IF point[source[r]] \in {"making", "stored"} THEN "found" ELSE "error"]
    /\ UNCHANGED <<store, source, health, alerts>>

\* ... and restoreFromBackup looks it up again.
Restore(r) ==
    /\ epc[r] = "found"
    /\ LET p == source[r] IN
        epc' = [epc EXCEPT ![r] =
                   IF point[p] \in {"making", "stored"} /\ p \in file /\ ChecksumMatches(p)
                   THEN "success" ELSE "failed"]
    /\ UNCHANGED <<store, source, health, alerts>>

-----------------------------------------------------------------------------
(* Monitoring.                                                             *)

\* cleanupExpiredRecoveryPoints.
OlderThan(days) == {p \in Points : point[p] \in {"making", "stored"} /\ age[p] > days}

Delete(removed) == point' = [p \in Points |-> IF p \in removed THEN "deleted" ELSE point[p]]

\* performHealthCheck, with the alert it raises.
HealthCheck ==
    /\ health = "none"
    /\ LET removed == OlderThan(CleanupDays) IN
        /\ Delete(removed)
        /\ \E system \in SystemPasses(removed), others \in OthersPassed :
            /\ health' = Status(Score(system + others))
            /\ IF health' = "healthy" THEN UNCHANGED alerts ELSE CreateAlert(HealthKey)
    /\ UNCHANGED <<file, age, failedBackup, epc, source>>

\* recordMigrationEvent of a failed, slow or rolled-back migration, and
\* recordSecurityViolation.
RecordEvent(k) ==
    /\ CreateAlert(k)
    /\ UNCHANGED <<store, epc, source, health>>

ResolveAlert(k) ==
    /\ k \in unresolved
    /\ unresolved' = unresolved \ {k}
    /\ UNCHANGED <<store, epc, source, health, cooling, since>>

AtLeastOne(n) == IF n > 0 THEN n - 1 ELSE 0

Minute ==
    /\ health' = "none"
    /\ cooling' = [k \in Keys |-> AtLeastOne(cooling[k])]
    /\ since' = [k \in Keys |-> IF since[k] > Cooldown THEN since[k] ELSE since[k] + 1]
    /\ UNCHANGED <<store, epc, source, unresolved>>

\* A day passes; cleanupOldData's own limit of 30 days finds nothing that the
\* health checks left, and it runs with them.
Day ==
    /\ health' = "none"
    /\ age' = [p \in Points |-> IF point[p] \in {"making", "stored"} /\ age[p] < OldestAge THEN age[p] + 1 ELSE age[p]]
    /\ cooling' = [k \in Keys |-> 0]
    /\ since' = [k \in Keys |-> Cooldown + 1]
    /\ UNCHANGED <<point, file, failedBackup, epc, source, unresolved>>

MonitorNext ==
    \/ \E p \in Points : CreatePoint(p) \/ StartBackup(p) \/ WriteBackup(p) \/ BackupFails(p)
    \/ \E r \in Restores : FindPoint(r) \/ Restore(r)
    \/ HealthCheck
    \/ \E k \in Keys \ {HealthKey} : RecordEvent(k)
    \/ \E k \in Keys : ResolveAlert(k)
    \/ Minute \/ Day

MonitorSpec == MonitorInit /\ [][MonitorNext]_monitorVars

-----------------------------------------------------------------------------
\* A minute whose health check was not healthy has an alert that is younger than
\* the cooldown, however often the check failed before and whoever resolved it.
UnhealthyIsAlerted == health \notin {"none", "healthy"} => since[HealthKey] < Cooldown

\* An emergency rollback that answers success restored its point; since nothing
\* is ever restored, the empty checksum keeps every one of them from success.
SuccessMeansRestored == \A r \in Restores : epc[r] = "success" => source[r] \in Restored

\* A recovery point is there for CleanupDays days, unless its backup failed.
PointsAreKept ==
    \A p \in Points : point[p] = "deleted" => age[p] > CleanupDays \/ p \in failedBackup

\* What the operators may rely on.
MonitoringIsSound == UnhealthyIsAlerted /\ SuccessMeansRestored /\ PointsAreKept
=============================================================================
