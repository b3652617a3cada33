----------------------------- MODULE Migrations -----------------------------
(***************************************************************************)
(* The migration safety tooling (src/src/db/migrations/safety): calls of   *)
(* HardenedMigrationExecutor.executeMigration and of                       *)
(* MigrationRollbackService.executeRollback in one process, next to the    *)
(* approval requests.  A call waits at every await, where the others go    *)
(* on.  A statement that creates what is there already does nothing (IF    *)
(* NOT EXISTS); what it creates, others see with the COMMIT.               *)
(*                                                                         *)
(* The risk patterns are global regular expressions shared by all calls:   *)
(* match() starts at 0 and ends at 0, but test() starts where the last     *)
(* successful test() of the same expression stopped.                       *)
(***************************************************************************)
EXTENDS Naturals

CONSTANTS
    Calls,        \* calls of executeMigration
    Rollbacks,    \* calls of executeRollback
    Requests,     \* approval requests
    Migrations,   \* migration files
    Destructive,  \* those with a statement a destructive pattern matches
    Steps,        \* 1..n, the statements of each file
    Undoable,     \* the statements that have a rollbackSql
    Roles,        \* roles that call
    None          \* no migration, no call

ASSUME NoneAssumption == None \notin Migrations
ASSUME StepsAssumption == Steps \subseteq Nat /\ Undoable \subseteq Steps

VARIABLES
    environment,  \* the configuration in force
    version,      \* schema_version
    objects,      \* <<m, s>>: the effect of statement s of m is in the database
    stale,        \* some destructive pattern has a lastIndex above 0
    pc, mig, role, done,     \* each call: where it is, its file, caller, statements executed
    made,                    \* the statements whose effect its open transaction created
    forced,                  \* it passed its checks with options.force
    audit,                   \* migration_executions.status of each call
    rpc, target, undo,       \* each rollback: where it is, its migration, steps left
    request,                 \* status of each approval request
    reviewing,               \* reviews that have read their request
    commits, removals,       \* observed: per migration, how often it was recorded, removed
    recorder,                \* observed: the call that recorded it last
    undercut,                \* observed: calls whose file a rollback's statement undid after
                             \* their transaction had begun
    shared                   \* observed: calls that were between reading and checking
                             \* while another's file was checked or planned again

database == <<version, objects>>
calls    == <<pc, mig, role, done, made, forced>>
undoing  == <<rpc, target, undo>>
approval == <<request, reviewing>>
observed == <<commits, removals, recorder, undercut, shared>>
vars == <<environment, database, stale, calls, audit, undoing, approval, observed>>

Open    == {"loaded", "recorded", "checked", "running", "inserted", "applied"}
Labels  == Open \union {"idle", "success", "dry", "failed", "dead"}
RLabels == {"idle", "undoing", "undone", "cleared", "success", "failed", "dead"}
ExecutionStatuses == {"none", "pending", "completed", "failed", "rolled_back"}
RequestStatuses   == {"none", "pending", "approved", "rejected", "expired"}

\* SQL_PATTERNS, as far as they tell a destructive file from the others, and the
\* risk analyzeRisk finds.
IsDestructive(m) == m \in Destructive
Risk(m) == IF IsDestructive(m) THEN 4 ELSE 1

\* generateRollbackSql: which statements can be undone; a plan with one can.
RollbackAvailable == Undoable # {}

-----------------------------------------------------------------------------
(* Configuration and permissions.                                          *)

Environments == {"development", "staging", "production"}

\* DEFAULT_MIGRATION_SAFETY_CONFIGS, as far as the executor uses it.
AllowDestructive == environment # "production"
AllowedRoles     == IF environment = "development" THEN {"admin", "dba", "developer"} ELSE {"admin", "dba"}
ApprovalRequired(risk) == environment # "development" \/ risk = 4

\* ROLE_PERMISSIONS.
MayExecute == {"admin", "dba", "developer"}
MayApprove == {"admin", "dba"}
MaxRisk(r) == CASE r = "admin" -> 4 [] r = "dba" -> 3 [] r = "developer" -> 2 [] OTHER -> 1
MayEnter(r) == IF r = "developer" THEN Environments \ {"production"} ELSE Environments

\* canExecuteMigration, in its order of checks.
CanExecute(r, risk) ==
    /\ r \in MayExecute
    /\ environment \in MayEnter(r)
    /\ risk <= MaxRisk(r)
    /\ ApprovalRequired(risk) => r \in MayApprove

\* hasValidApproval: whoever may approve needs no approval; for the others an
\* approved request is looked for among the pending ones.
HasApproval(r) ==
    \/ r \in MayApprove
    \/ \E q \in Requests : request[q] = "pending" /\ request[q] = "approved"

-----------------------------------------------------------------------------
Init ==
    /\ environment \in Environments
    /\ version = {} /\ objects = {} /\ stale = FALSE
    /\ pc = [c \in Calls |-> "idle"]
    /\ mig = [c \in Calls |-> None]
    /\ role \in [Calls -> Roles]
    /\ done = [c \in Calls |-> {}]
    /\ made = [c \in Calls |-> {}]
    /\ forced = [c \in Calls |-> FALSE]
    /\ audit = [c \in Calls |-> "none"]
    /\ rpc = [r \in Rollbacks |-> "idle"]
    /\ target = [r \in Rollbacks |-> None]
    /\ undo = [r \in Rollbacks |-> {}]
    /\ request = [q \in Requests |-> "none"]
    /\ reviewing = {}
    /\ commits = [m \in Migrations |-> 0] /\ removals = [m \in Migrations |-> 0]
    /\ recorder = [m \in Migrations |-> None]
    /\ undercut = {} /\ shared = {}

Goto(c, label) == pc' = [pc EXCEPT ![c] = label]
Checking == {c \in Calls : pc[c] \in {"loaded", "recorded"}}

\* Mutant: the file is scanned with test(), which leaves lastIndex behind.
LoadByTest(c, m) ==
    /\ pc[c] = "idle"
    /\ CanExecute(role[c], 1) /\ CanExecute(role[c], Risk(m))
    /\ ApprovalRequired(Risk(m)) => HasApproval(role[c])
    /\ mig' = [mig EXCEPT ![c] = m]
    /\ stale' = (stale \/ m \in Destructive)
    /\ Goto(c, "loaded")
    /\ UNCHANGED <<environment, database, role, done, made, forced, audit, undoing, approval, observed>>

\* The caller is permitted, the file is read and analyzed with match().
Load(c, m) ==
    /\ pc[c] = "idle"
    /\ CanExecute(role[c], 1) /\ CanExecute(role[c], Risk(m))
    /\ ApprovalRequired(Risk(m)) => HasApproval(role[c])
    /\ mig' = [mig EXCEPT ![c] = m]
    /\ stale' = FALSE
    /\ Goto(c, "loaded")
    /\ UNCHANGED <<environment, database, role, done, made, forced, audit, undoing, approval, observed>>

\* createExecutionRecord: logMigrationStarted.
Record(c) ==
    /\ pc[c] = "loaded"
    /\ audit' = [audit EXCEPT ![c] = "pending"]
    /\ Goto(c, "recorded")
    /\ UNCHANGED <<environment, database, stale, mig, role, done, made, forced, undoing, approval,
                   observed>>

\* Any await before performExecution may reject, and a caller without
\* permission ends here: the outer catch logs a failure of execution
\* 'unknown', which updates no execution.
Abort(c) ==
    /\ pc[c] \in {"idle", "loaded", "recorded", "checked"}
    /\ Goto(c, "failed")
    /\ UNCHANGED <<environment, database, stale, mig, role, done, made, forced, audit, undoing,
                   approval, observed>>

\* checkDestructiveOperations: a stale pattern may miss a destructive statement.
Detections(m) == {found \in BOOLEAN : (found => IsDestructive(m)) /\ (IsDestructive(m) => found \/ stale)}

\* The checks of the time window, the file's size and its checksum, each of
\* which may come out either way.
OtherChecks == BOOLEAN

\* The critical failures of validateMigration.
Critical(c, found, otherwise) ==
    \/ role[c] \notin AllowedRoles
    \/ found /\ ~AllowDestructive
    \/ otherwise

\* What generatePlan's own tests leave in lastIndex depends on the text: they stop
\* at the first pattern that a statement matches.
PlanLeaves(m, before) == IF IsDestructive(m) \/ before THEN BOOLEAN ELSE {FALSE}

\* validateMigration and generatePlan.
Preflight(c) ==
    /\ pc[c] = "recorded"
    /\ \E found \in Detections(mig[c]), otherwise \in OtherChecks, force \in BOOLEAN :
        IF Critical(c, found, otherwise) /\ ~force
        THEN Goto(c, "failed") /\ stale' = found /\ UNCHANGED forced
        ELSE /\ Goto(c, "checked")
             /\ forced' = [forced EXCEPT ![c] = force]
             /\ stale' \in PlanLeaves(mig[c], found)
    /\ shared' = shared \union (Checking \ {c})
    /\ UNCHANGED <<environment, database, mig, role, done, made, audit, undoing, approval,
                   commits, removals, recorder, undercut>>

\* performDryRun, after the await of the recovery point: the plan is generated
\* again; the execution's status stays 'pending'.
DryRun(c) ==
    /\ pc[c] = "checked"
    /\ Goto(c, "dry")
    /\ stale' \in PlanLeaves(mig[c], stale)
    /\ shared' = shared \union (Checking \ {c})
    /\ UNCHANGED <<environment, database, mig, role, done, made, forced, audit, undoing,
                   approval, commits, removals, recorder, undercut>>

-----------------------------------------------------------------------------
(* performExecution: one transaction.                                      *)

Begin(c) ==
    /\ pc[c] = "checked"
    /\ Goto(c, "running")
    /\ UNCHANGED <<environment, database, stale, mig, role, done, made, forced, audit, undoing,
                   approval, observed>>

\* The least statement that is left.  A transaction that has created the same
\* object makes it wait; with what is there it does nothing, or fails.
ExecuteStep(c) ==
    /\ pc[c] = "running"
    /\ \E s \in Steps \ done[c] :
        /\ \A t \in Steps \ done[c] : s <= t
        /\ ~ \E d \in Calls \ {c} : /\ pc[d] \in {"running", "inserted"}
                                   /\ mig[d] = mig[c] /\ s \in made[d]
        /\ done' = [done EXCEPT ![c] = @ \union {s}]
        /\ made' = [made EXCEPT ![c] = IF <<mig[c], s>> \in objects THEN @ ELSE @ \union {s}]
    /\ UNCHANGED <<environment, database, stale, pc, mig, role, forced, audit, undoing,
                   approval, observed>>

\* Mutant: INSERT ... ON CONFLICT DO NOTHING.
InsertAnyway(c) ==
    /\ pc[c] = "running" /\ done[c] = Steps
    /\ Goto(c, "inserted")
    /\ UNCHANGED <<environment, database, stale, mig, role, done, made, forced, audit, undoing,
                   approval, observed>>

\* INSERT INTO schema_version: waits for a transaction that inserted the same
\* version, and fails when it is there.
InsertVersion(c) ==
    /\ pc[c] = "running" /\ done[c] = Steps
    /\ mig[c] \notin version
    /\ ~ \E d \in Calls : pc[d] = "inserted" /\ mig[d] = mig[c]
    /\ Goto(c, "inserted")
    /\ UNCHANGED <<environment, database, stale, mig, role, done, made, forced, audit, undoing,
                   approval, observed>>

\* Mutant: the last statement is executed outside the transaction, and lost.
CommitShort(c) ==
    /\ pc[c] = "inserted"
    /\ version' = version \union {mig[c]}
    /\ objects' = objects \union ({mig[c]} \X {s \in made[c] : \E t \in Steps : s < t})
    /\ commits' = [commits EXCEPT ![mig[c]] = @ + 1]
    /\ recorder' = [recorder EXCEPT ![mig[c]] = c]
    /\ Goto(c, "applied")
    /\ UNCHANGED <<environment, stale, mig, role, done, made, forced, audit, undoing, approval,
                   removals, undercut, shared>>

Commit(c) ==
    /\ pc[c] = "inserted"
    /\ version' = version \union {mig[c]}
    /\ objects' = objects \union ({mig[c]} \X made[c])
    /\ commits' = [commits EXCEPT ![mig[c]] = @ + 1]
    /\ recorder' = [recorder EXCEPT ![mig[c]] = c]
    /\ Goto(c, "applied")
    /\ UNCHANGED <<environment, stale, mig, role, done, made, forced, audit, undoing, approval,
                   removals, undercut, shared>>

\* logMigrationCompleted, and the answer.
LogCompleted(c) ==
    /\ pc[c] = "applied"
    /\ audit' = [audit EXCEPT ![c] = "completed"]
    /\ Goto(c, "success")
    /\ UNCHANGED <<environment, database, stale, mig, role, done, made, forced, undoing, approval,
                   observed>>

\* A statement fails or outlives its timeout, or the log after COMMIT fails:
\* ROLLBACK, logMigrationFailed, and the outer catch.
ExecutionFails(c) ==
    /\ pc[c] \in {"running", "inserted", "applied"}
    /\ audit' = [audit EXCEPT ![c] = "failed"]
    /\ Goto(c, "failed")
    /\ UNCHANGED <<environment, database, stale, mig, role, done, made, forced, undoing, approval,
                   observed>>

-----------------------------------------------------------------------------
(* Rollback.                                                               *)

RGoto(r, label) == rpc' = [rpc EXCEPT ![r] = label]

\* executeRollback of an execution that was answered with rollbackAvailable.
StartRollback(r, m) ==
    /\ rpc[r] = "idle" /\ RollbackAvailable
    /\ \E c \in Calls : pc[c] = "success" /\ mig[c] = m
    /\ target' = [target EXCEPT ![r] = m]
    /\ undo' = [undo EXCEPT ![r] = Undoable]
    /\ RGoto(r, "undoing")
    /\ UNCHANGED <<environment, database, stale, calls, audit, approval, observed>>

\* The calls of this file whose transaction has begun.
Begun(m) == {c \in Calls : mig[c] = m /\ pc[c] \notin {"idle", "loaded", "recorded", "checked"}}

\* executeRollbackStep, the latest statement first: a transaction of its own,
\* DROP ... IF EXISTS, which sees what is committed.
UndoStep(r) ==
    /\ rpc[r] = "undoing"
    /\ \E s \in undo[r] :
        /\ \A t \in undo[r] : t <= s
        /\ objects' = objects \ {<<target[r], s>>}
        /\ undo' = [undo EXCEPT ![r] = @ \ {s}]
        /\ RGoto(r, IF undo[r] = {s} THEN "undone" ELSE "undoing")
    /\ undercut' = undercut \union Begun(target[r])
    /\ UNCHANGED <<environment, version, stale, calls, audit, target, approval, commits,
                   removals, recorder, shared>>

RemoveVersion(r) ==
    /\ rpc[r] = "undone"
    /\ version' = version \ {target[r]}
    /\ removals' = [removals EXCEPT ![target[r]] = @ + 1]
    /\ RGoto(r, "cleared")
    /\ UNCHANGED <<environment, objects, stale, calls, audit, target, undo, approval, commits,
                   recorder, undercut, shared>>

\* logMigrationRolledBack, for the execution the caller named.
LogRolledBack(r, c) ==
    /\ rpc[r] = "cleared"
    /\ mig[c] = target[r] /\ pc[c] = "success"
    /\ audit' = [audit EXCEPT ![c] = "rolled_back"]
    /\ RGoto(r, "success")
    /\ UNCHANGED <<environment, database, stale, calls, target, undo, approval, observed>>

\* A step, the DELETE or the log fails: what was undone stays undone.
RollbackFails(r, c) ==
    /\ rpc[r] \in {"undoing", "undone", "cleared"}
    /\ mig[c] = target[r] /\ pc[c] = "success"
    /\ audit' = [audit EXCEPT ![c] = "failed"]
    /\ RGoto(r, "failed")
    /\ UNCHANGED <<environment, database, stale, calls, target, undo, approval, observed>>

\* HardenedMigrationExecutor.rollbackMigration: a placeholder plan for a file
\* 'unknown'; the execution is marked and nothing is undone.
RollbackById(c) ==
    /\ pc[c] \in {"success", "dry"} /\ audit[c] # "rolled_back"
    /\ audit' = [audit EXCEPT ![c] = "rolled_back"]
    /\ UNCHANGED <<environment, database, stale, calls, undoing, approval, observed>>

-----------------------------------------------------------------------------
(* Approval requests, and the end of the process.                          *)

\* createApprovalRequest: the file is read, unless that fails, and match() starts
\* the patterns again.
CreateRequest(q) ==
    /\ request[q] = "none"
    /\ request' = [request EXCEPT ![q] = "pending"]
    /\ stale' \in {FALSE, stale}
    /\ UNCHANGED <<environment, database, calls, audit, undoing, reviewing, observed>>

\* Approve and reject read the request, see that it is pending and that the
\* reviewer may approve...
ReadRequest(q, decision) ==
    /\ request[q] = "pending" /\ <<q, decision>> \notin reviewing
    /\ reviewing' = reviewing \union {<<q, decision>>}
    /\ UNCHANGED <<environment, database, stale, calls, audit, undoing, request, observed>>

\* ... and update it, whatever it says by then.
Decide(q, decision) ==
    /\ <<q, decision>> \in reviewing
    /\ reviewing' = reviewing \ {<<q, decision>>}
    /\ request' = [request EXCEPT ![q] = decision]
    /\ UNCHANGED <<environment, database, stale, calls, audit, undoing, observed>>

\* cleanupExpiredRequests, 24 hours later.
ExpireRequest(q) ==
    /\ request[q] = "pending"
    /\ request' = [request EXCEPT ![q] = "expired"]
    /\ UNCHANGED <<environment, database, stale, calls, audit, undoing, reviewing, observed>>

\* The process stops: open transactions roll back, the patterns are new.
Crash ==
    /\ \/ \E c \in Calls : pc[c] \in Open
       \/ \E r \in Rollbacks : rpc[r] \in {"undoing", "undone", "cleared"}
    /\ stale' = FALSE
    /\ pc' = [c \in Calls |-> IF pc[c] \in Open THEN "dead" ELSE pc[c]]
    /\ rpc' = [r \in Rollbacks |->
                  IF rpc[r] \in {"undoing", "undone", "cleared"} THEN "dead" ELSE rpc[r]]
    /\ reviewing' = {}
    /\ UNCHANGED <<environment, database, mig, role, done, made, forced, audit, target, undo,
                   request, observed>>

Next ==
    \/ \E c \in Calls :
        \/ \E m \in Migrations : Load(c, m)
        \/ Record(c) \/ Abort(c) \/ Preflight(c) \/ DryRun(c)
        \/ Begin(c) \/ ExecuteStep(c) \/ InsertVersion(c) \/ Commit(c) \/ LogCompleted(c)
        \/ ExecutionFails(c) \/ RollbackById(c)
    \/ \E r \in Rollbacks :
        \/ \E m \in Migrations : StartRollback(r, m)
        \/ UndoStep(r) \/ RemoveVersion(r)
        \/ \E c \in Calls : LogRolledBack(r, c) \/ RollbackFails(r, c)
    \/ \E q \in Requests :
        \/ CreateRequest(q) \/ ExpireRequest(q)
        \/ \E decision \in {"approved", "rejected"} : ReadRequest(q, decision) \/ Decide(q, decision)
    \/ Crash

Spec == Init /\ [][Next]_vars

-----------------------------------------------------------------------------
\* Every variable stays in its type.
TypeOK ==
    /\ environment \in Environments
    /\ version \subseteq Migrations /\ objects \subseteq Migrations \X Steps /\ stale \in BOOLEAN
    /\ pc \in [Calls -> Labels] /\ mig \in [Calls -> Migrations \union {None}]
    /\ \A c \in Calls : pc[c] \in Open \union {"success", "dry"} => mig[c] \in Migrations
    /\ role \in [Calls -> Roles] /\ forced \in [Calls -> BOOLEAN]
    /\ done \in [Calls -> SUBSET Steps] /\ made \in [Calls -> SUBSET Steps]
    /\ audit \in [Calls -> ExecutionStatuses]
    /\ rpc \in [Rollbacks -> RLabels] /\ target \in [Rollbacks -> Migrations \union {None}]
    /\ \A r \in Rollbacks : rpc[r] # "idle" => target[r] \in Migrations
    /\ undo \in [Rollbacks -> SUBSET Steps]
    /\ request \in [Requests -> RequestStatuses]
    /\ reviewing \subseteq Requests \X {"approved", "rejected"}
    /\ commits \in [Migrations -> Nat] /\ removals \in [Migrations -> Nat]
    /\ recorder \in [Migrations -> Calls \union {None}]
    /\ undercut \subseteq Calls /\ shared \subseteq Calls

\* A migration that is recorded is there with all its statements, unless a
\* rollback undid one of them after the transaction that recorded it had begun
\* (its statement may have done nothing because the object was still there); a
\* failed or crashed execution leaves nothing of it behind.
RecordedIsComplete ==
    \A m \in Migrations :
        /\ m \in version => (\A s \in Steps : <<m, s>> \in objects) \/ recorder[m] \in undercut
        /\ commits[m] = 0 => \A s \in Steps : <<m, s>> \notin objects

\* However calls overlap, a migration is applied again only after a rollback
\* removed its record.
AppliedOnce == \A m \in Migrations : commits[m] <= 1 + removals[m]

\* Without force, production applies a destructive migration only if another
\* call's file was checked, or planned again by a dry run, while this one was
\* between reading and checking its own.
DestructiveIsStopped ==
    \A c \in Calls :
        pc[c] \in {"inserted", "applied", "success"} /\ mig[c] \in Destructive /\ environment = "production"
            => forced[c] \/ c \in shared
=============================================================================
