# Revora backend: TLA+ models and proofs

Revora's backend is an Express server over PostgreSQL (source under
`src/src/`). This directory holds TLA+ modules of the parts of it whose
correctness depends on the order of steps: several requests on one row, a
process that stops between two statements, a reply that is lost, a retry that
arrives late. TLC checks them on small instances; TLAPS proves what matters
most for every size.

Contents: 1 the system, 2 the modules and how code maps to actions, 3 the runs,
4 the proofs, 5 what the code does differently from what it says, 6 what is not
modelled, 7 what could come next.

## 1. The system

### The parts and how they interact

| Part | Source | State | Operations |
|---|---|---|---|
| Sessions | `auth/login`, `auth/refresh`, `auth/logout`, `db/repositories/sessionRepository.ts`, `db/transaction.ts` | table `sessions` (a tree by `parent_id`) | login, refresh with rotation and reuse detection, family revocation, logout |
| Bearer authentication, JWT | `middleware/auth.ts`, `lib/jwt.ts` | reads `sessions`; keys from the environment | lets a bearer through while its session exists; verifies with the current or the previous key |
| Session store | `lib/sessionStore.ts`, `middleware/session.ts` | a Map with a sweep timer | create, get, touch, delete, sweep |
| Accounts | `auth/register`, `services/startupAuthService.ts`, `services/passwordReset*.ts` | `users`, `password_reset_tokens`, `password_reset_rate_limits` | two registrations, request and confirm a reset |
| Rate limits | `middleware/rateLimit.ts`, `security/rateLimit.ts`, `middleware/startup*.ts` | Maps, or counters in Redis | count, refuse, forget |
| Idempotency | `middleware/idempotency.ts` | a Map and a Set, or table `idempotency_keys` | `checkAndReserve`, `save`, `release`, expiry, the response's `finish` and `close` |
| Webhook queue | `index.ts`, `webhookEndpointRepository.ts` | table `webhook_deliveries`, timers in memory | `processDelivery`, retries, `resumePending` |
| Webhook service, receivers | `services/webhookService.ts`, `lib/webhookSignature.ts`, `middleware/webhookAuth.ts` | timers in memory; none | `emit` and `deliver`; three verifications (not modelled) |
| Event ordering | `middleware/webhookEventOrdering.ts` | last sequence and buffer per entity, in memory | decide, `markProcessed`, clean-up |
| Distribution | `services/distributionScheduler.ts`, `distributionEngine.ts`, their repositories | `distributions`, `distribution_payouts` | a scheduler pass, `distribute` in batches, resuming a run |
| Revenue | `services/revenueService.ts`, `revenueReconciliationService.ts`, `routes/reconciliationRoutes.ts` | `revenue_reports` | submit; reconcile, check balance, verify a run |
| Snapshots | `services/balanceSnapshotService.ts` | `token_balance_snapshots` | snapshot from the contract or the ledger |
| Offerings, investments | `services/offeringSyncService.ts`, `offerings/offeringService.ts`, `lib/offeringStatusGuard.ts`, `services/investmentService.ts`, the matrix in `index.ts` | `offerings`, `investments`, the catalog's cache | synchronize with the chain, invest, validate an action |
| Vaults | `vaults/*`, `security/validation.ts` | milestones, events, slots of the limiter | validate a milestone by two routes |
| Stellar | `lib/stellarRpcFailure.ts`, `services/stellarSubmissionService.ts` | none that outlives a call | classify a failure, decide on a retry |
| Migration safety | `db/migrations/safety/*` | `schema_version`, execution records, approval requests, recovery points, alerts | execute, roll back, approve, monitor, recover |
| Health, metrics | `routes/health.ts`, `lib/metrics.ts`, `middleware/metricsMiddleware.ts` | counters in memory | five endpoints; count responses |

Requests reach a part through Express middleware (rate limit, bearer
authentication, idempotency, then the handler). Parts meet in PostgreSQL at READ
COMMITTED over a pool of ten connections, and in the event loop: code between
two `await`s runs undivided, everything else interleaves. Logout depends on the
session row that refresh rotates; `POST /investments` sits behind the
idempotency middleware and reads the status that synchronization writes; the
scheduler reads the runs that the engine leaves, and so does reconciliation; the
webhook queue uses the webhook service's `sendAttempt`.

### What is hard, and what correctness means

* **Sessions.** A refresh token is presented twice at once, or after its reply
  was lost; a revocation or a logout runs next to a rotation of the same family.
  *Correct*: every refresh token is exchanged at most once; both writes of a
  rotation happen or neither; nothing is rotated from a session that is revoked,
  consumed or gone; no request waits for ever. A session of the store that ended
  never comes back.
* **Accounts.** Registrations of one address and resets with one token overlap.
  *Correct*: one account per address; a token is spent once.
* **Idempotency.** A retry overlaps the first request, its handler, its expiry,
  a restart, or the unawaited write of its response. *Correct*: a replay is the
  answer to the same payload; keys and connections come back.
* **Webhooks.** The process stops between sending and recording, or while a
  retry is in a timer; two instances share the table; events arrive out of order
  or twice. *Correct*: what a row says happened; requests are bounded; events
  are handled in order and none that was accepted disappears.
* **Distribution and revenue.** Passes overlap, a run stops in the middle,
  replies are lost, balances and reports change between two reads. *Correct*:
  what is recorded as paid was paid, amounts add up, reports do not overlap,
  "balanced" means paid.
* **Offerings and vaults.** A status or an order is read several awaits before
  it is used. *Correct*: rules are broken only by a write in between, and
  milestones not even then.
* **Migrations.** Executions, rollbacks and crashes overlap in every order.
  *Correct*: what is recorded is there; production is not changed destructively
  by accident.
* **Observers.** Dependencies and counters change while an answer is made.
  *Correct*: an answer was true at some time of the request; counts add up.

Every hazard is listed at its line in `PROJECT.json` with the properties that
would show it, or the reason why none can.

Some files do not compile at this commit (`changePasswordService.ts`,
`routes/webhooks.ts`, parts of `stellarSubmissionService.ts`, `app.ts`). Several
parts are complete but mounted by tests only (the distribution engine and its
scheduler, event ordering, milestone validation, migration safety); they are
modelled through their public methods.

## 2. The modules

| Module | Models | Theorems in |
|---|---|---|
| `SessionRotation` | login, refresh, logout as SQL statements under row locks | `SessionRotationProofs` |
| `TokenFamily` | abstract: what a login's tokens may do, each request one step; implemented by `SessionRotation` | |
| `IdempotencyMemory` | the middleware with the in-memory store | `IdempotencyMemoryProofs` |
| `IdempotentKey` | abstract: a key is free, held or answered; implemented by `IdempotencyMemory` | |
| `IdempotencyPostgres` | the middleware with the PostgreSQL store and its pool | `IdempotencyPostgresProofs` |
| `WebhookQueue` | the queue, its table and timers, over several instances | `WebhookQueueProofs` |
| `Distribution` | scheduler passes and the engine over one report | `DistributionProofs` |
| `DistributionShares` | the split of the revenue | `OfferingsProofs` |
| `Accounts` | one address: two registrations, password reset, its limiter | `PlatformProofs` |
| `SessionStore` | the in-memory sessions behind the session middleware | `PlatformProofs` |
| `JwtKeys` | signing keys rotated over several instances | `PlatformProofs` |
| `RateLimits` | sliding window, fixed windows by tier, a counter in Redis | `PlatformProofs` |
| `WebhookDelivery` | `emit` and `deliver` with retries in memory | `PlatformProofs` |
| `EventOrdering` | tracker and middleware for one entity | `PlatformProofs` |
| `Offerings` | one offering: synchronizations, catalog, investments | `OfferingsProofs` |
| `OfferingMatrix` | the validation matrix over the life of an offering | `OfferingsProofs` |
| `Revenue` | reports, runs and their reconciliation | `OfferingsProofs` |
| `Snapshots` | balance snapshots of one period | `OfferingsProofs` |
| `Milestones` | one vault: both validation routes and the limiter | `OfferingsProofs` |
| `Migrations` | execution, rollback and approval of migrations | `PlatformProofs` |
| `MigrationMonitor` | recovery points, restores, health checks, alerts | `PlatformProofs` |
| `StellarFailures` | classification and retry decision | `PlatformProofs` |
| `Health` | the endpoints over changing dependencies | `PlatformProofs` |
| `Metrics` | the collector and its middleware | `PlatformProofs` |

`MCSessionRotation` and `MCDistribution` add symmetry sets and values of
constants. `MCPlatform` and `MCOfferings` compose: each extends the modules of
its parts and steps one *part* in a behaviour while the rest stays at one initial
state. That loses nothing, because no two of
these parts share a variable, so every property of a part is checked over all
its behaviours; it keeps the product of independent state spaces out of reach.
The compositions that do share state are inside a module: rotation, revocation
and logout over one table (`SessionRotation`), synchronization with investments
(`Offerings`), both registrations with the resets (`Accounts`), reports and runs
with reconciliation (`Revenue`), scheduler with engine (`Distribution`).

A definition that begins with a comment "Mutant:" is a plausible mistake in the
definition that follows; no specification uses it, and each shows that some
property would notice. Names such as `AccountsInit` or `HealthNext` are those of
modules that are composed. Type invariants (`TypeOK`, `AccountsTypeOK`, `Types`)
are what the proofs start from; where they are proved, no run repeats them.

### How code maps to actions

*PostgreSQL.* One SQL statement is one action. A transaction's writes stay in
its request's write set and appear with its commit; a statement that meets a
foreign row lock waits. An `UPDATE` or `DELETE` of several rows visits them one
by one, in any order, because it can wait (or deadlock) between two of them. A
unique index refuses the second of two `INSERT`s, a `FOR UPDATE` of a row that
is absent locks nothing. Failure, crash and lost reply may happen at every
statement, within the bound of the run.

*Node.* What happens between two `await`s is one action. A fire-and-forget
promise (`void store.save(...)`) is pending until an action of its own takes it.
Timers are stages that fire later.

*Abstraction.* A JWT is its session's id and which of the two tokens it is, or
(in `JwtKeys`) the key it was signed with; a payload is its fingerprint; a
response the request it answered; a migration file a set of statements and
whether it is destructive. Times are reduced to what is compared, or to small
clocks. Variables marked *observed* in a module only record, so that a property
can speak of what happened; no guard of the code's actions reads them.

*SessionRotation.* `rows`, `parent`, `consumed` and `revoked` are the table;
`born` remembers ids so that a UUID is never drawn twice; `issued` are tokens
that clients hold, and may present again. `found` and `todo` are the recursive
CTE's result and what the statement still visits; `consuming`, `revoking`,
`deleting` and `child` are the open transaction.

*IdempotencyMemory, IdempotencyPostgres.* `records`, `expired` and `inFlight`
are the store in memory; a request is `orphaned` after `close` while its handler
goes on. The PostgreSQL model has one key, since rows of different keys share
nothing but the pool; `conns` counts connections, because for a released key
`checkAndReserve` calls `deleteKey` and itself before it gives back its own.

*WebhookQueue, WebhookDelivery.* `stage[<<i, d>>]` is where instance *i*'s
`processDelivery` of *d* is, `attempt` its `currentAttempt`, `due` is
`next_retry_at`. `WebhookDelivery` is the other way out of the service: `emit`
starts one `deliver` for each subscribed endpoint and forgets it.

*Distribution.* `listed` is both `successfulPayouts` and `existingInvestorIds`
(the code fills them together); `staged` are the payouts of the open batch.
A payout remembers which version of the balances it was computed from.
`DistributionShares` counts mills and cents as integers; where the exact
quotient is half a cent, its floating-point value may fall on either side, so
both roundings are allowed.

*Accounts.* `account` is the set of registrations that own a row of one
normalized address; `tokenRow` the state of a token's row; a reset is `locked`,
`changed`, `marked` between its statements.

*Milestones.* A request stands before its next await; two functions, `Hardened`
and `Plain`, give the order of awaits of the two routes.

*Migrations.* `version` is `schema_version`, `objects` what statements have
created. The migrations are written with `IF NOT EXISTS`, so a statement whose
object is there does nothing (or fails): `done` are the statements a call has
executed, `made` those whose effect its transaction carries to the COMMIT, and
a statement waits for an open transaction that creates the same object.
`stale` is `lastIndex` of the shared regular expressions of `validation.ts`, which
the checks, both plans (a dry run plans twice) and every reading of a file move;
`pc` and `rpc` follow `executeMigration` and `executeRollback`. `shared` observes
which calls were overtaken between reading and checking, `undercut` those whose
statements a rollback undid after their transaction had begun.

*Revenue.* Amounts are mills, tenths of a cent, because `NUMERIC(30,10)` amounts
have digits that `toFixed(2)` rounds away; `ToCents` allows either direction for
half a cent, and `Exceeds` either outcome for a difference that equals the
tolerance, as floating-point numbers do. Sums are taken to stay below 2^53 cents.
A full reconciliation takes its tolerance from the body: the default, another
number, or something that is no number.

*Snapshots.* `take[t].staged` are the rows inserted in the open transaction,
`rows` those that are committed.

*EventOrdering.* The route behind the middleware is not in the repository; it is
assumed to call `markProcessed` when it is done with an event and then to handle
what that call returns, as the middleware's documentation tells it to.

*Offerings, Revenue, Snapshots, Health.* A call is its next await and what it
has read so far; `stale`, `seen` and `witnessed` observe what happened
meanwhile. The writers around them (an administrator's status change, the chain,
a run's completion, a dependency that goes down) are actions of the same module.

## 3. The runs

| Run | Question | Bounds, and why they are enough |
|---|---|---|
| `session_rotation` | do overlapping rotations, reuses, revocations and logouts keep the table sound, and does each commit look like one atomic step of `TokenFamily`? | 4 sessions, 2 requests, 2 logins: parent, child and grandchild next to another family |
| `session_rotation_liveness` | is every request answered, deadlocks included? | 3 sessions, 2 requests: two scans of one tree in opposite orders |
| `idempotency_memory` | are replays faithful, and is a key free, held (not for ever) or answered? | 3 requests, 2 keys, 2 payloads: holder, retry and a stranger |
| `idempotency_postgres` | what holds in spite of the race on absent rows, and can nested connections lock the pool up? | 3 requests, a pool of 2, all faults: two holders that both want a second connection |
| `webhook_queue` | is what a row says true, are requests bounded, does an undisturbed delivery end? | 1 delivery (rows are independent), 2 instances, the code's 5 retries, 2 crashes, a failed repository call, deactivation |
| `distribution` | is what is recorded and answered what was paid, and what do transactions protect? | 3 investors in batches of 2 (an uneven last batch), 2 passes, 3 faults (1 when passes overlap), balances that change |
| `platform` | eleven parts of the server: migrations and their monitor, accounts, limiters, session store, event ordering, the webhook sender, Stellar failures, health, metrics, keys | below |
| `offerings` | six parts of an offering: reports and reconciliation, a vault, catalog and investments, snapshots, matrix, shares | below |

Runs that expect a violation check one sentence of the repository's documents or
comments that the code does not keep (quoted under `findings`):

| Run | The sentence | What TLC finds |
|---|---|---|
| `session_rotation_whole_tree` | a revocation covers "all its descendants" | a grandchild that a concurrent rotation commits after the CTE's snapshot stays live |
| `idempotency_postgres_race` | concurrent requests "are serialized" | both find no row, both reserve |
| `webhook_queue_durable` | "durable retry" | the timer is lost in a restart and the row is not yet due when the table is read |
| `distribution_duplicates` | "never create duplicate payouts for the same run" | two passes resume one run |

### What the two compositions show, part by part

| Property | What it says | Instance |
|---|---|---|
| `RecordedIsComplete`, `AppliedOnce` | a recorded migration has all its statements, unless a rollback undid one after the transaction that recorded it had begun; what was never recorded left nothing; a migration is applied again only after a rollback | 2 overlapping calls, 2 files of 2 statements, 1 rollback, 1 approval request |
| `DestructiveIsStopped` | production applies a destructive file without force only if another call, or a second plan of a dry run, overtook its check (the global regular expressions remember where they stopped) | the same, every environment and role |
| `MonitoringIsSound` | an unhealthy system has an alert or a reason not to, a restore that reports success used an intact backup, recovery points live their days | 1 recovery point, clock against cooldown 3 and age 3 |
| `OneAccountPerEmail`, `TokensAreSpentOnce` | one owner per address; a token changes the password once | 2 registrations of either kind, 2 resets, 2 tokens, 1 fault |
| `AdmissionsAreBounded` | a sliding window admits its limit in any window, fixed ones at most twice theirs, tiers never share | limits 1 and 2, windows of 2, 5 instants, 1 lost Redis command |
| `EndedSessionsStayEnded` | a logged-out or expired session is not revived by a request that was already authenticated | 2 ids, 2 requests in progress, ttl 2 of 4 instants |
| `SequencesAreKept` | no event is handled over a gap, and an accepted one is handled, queued or buffered | 4 events, each sent once more, buffer of 2, clean-up, a restart |
| `StartedDeliveriesAreDecided` | only a stop of the process loses a delivery | 2 endpoints, 3 tries, 1 stop |
| `DecisionsAreFinal` | a listed result code that does not look like a failed connection is not sent again, an unlisted one alone is; a retry has attempts left and waits a minute at most, or what `Retry-After` says | every combination of codes, status, words and attempt; `Retry-After` of -1, 30, 3600 or none |
| `AnswersWereTrue` | an answer was true of every dependency at some moment of the request | 2 probes, 2 changes |
| `MetricsAddUp` | counts match responses until the cardinality limit, and the limit is exact | 3 requests, 2 routes, limit 4 |
| `TokensOutliveOneRotation` | a token survives one rotation of the keys, never two | 2 instances, 2 rotations |
| `ReportsOverlapOnlyByRace` | two overlapping reports never saw each other | 2 submissions over 3 days |
| `BalancedIsPaid` | "balanced" means completed runs have paid the revenue, up to the tolerance asked for and half a cent for each rounded sum | 2 reports and 1 run of 2.5 cents, 1 reconciliation of either kind, tolerances of 1 and 2 cents and one that is no number |
| `StatusRulesBreakOnlyByRace` | synchronization and investment break the rules about the status only when overtaken | 2 synchronizations, 1 investment, 5 statuses |
| `InvestmentsFitTheOffering` | an allowed investment lies within minimum, target and dates, which only earlier actions ensure | amounts up to 2, 2 instants, absent and malformed values |
| `ValidationsAreSound`, `SlotsAreReleased` | milestones validate in order and what is announced is recorded; no way through the handler keeps a slot | 2 requests, 4 users of three roles, 2 milestones, limits 1 and 2, failing awaits, a crash |
| `SnapshotsAreWhole` | no partial snapshot is stored or answered, whatever fails between its rows | 2 overlapping calls, 2 holders whose balances change, both sources |
| `PayoutsAddUp` | payouts add up to the revenue, to the cent | every split of up to 45 mills among up to 4 balances of up to 3 |

`RequestsNextToOneCall` is a state constraint of `platform`: an approval request,
which no execution ever looks up, is explored next to one execution instead of
two. Each `Max...` constant is a bound of its model, named in the module.
Initial states that a part does not depend on are fixed in `PartInit` for the
other parts only.

Properties are stated with the limits that the code has, and the steps beyond
them are part of the models:

* `RetriesAreSound` and `SavedResponsesStay` promise serial handling only while
  no checks overlap and nothing fails; the race run shows the opposite otherwise.
  Replays are faithful without that restriction.
* In memory a client that disconnects gives its key up while its handler goes on,
  so the same work can run twice at once.
* `SendsAreBounded` leaves out a delivery that two instances worked on at once;
  `UndisturbedDeliveriesEnd` one whose work a crash, an error or a missing
  endpoint ended (the durable run is about those).
* `TransactionsProtectPayouts` is for an engine with a pool; its claim that nobody
  is paid twice is for passes that do not overlap and about each run: after a
  lost reply to `createDistributionRun` a report can have two runs, and both get
  paid. A run resumed after balances changed mixes both versions.
* `AdmissionsAreBounded` speaks of Redis only while no command fails: a crash
  between `INCR` and `EXPIRE` leaves a counter that never expires.
* `RecordedIsComplete` excuses a call that a rollback of the same file overtook: a
  second execution finds the objects there, its `IF NOT EXISTS` statements do
  nothing, the rollback drops the objects and deletes the version, and the second
  execution then records a file whose objects are gone.
* `BalancedIsPaid` promises nothing when `options.tolerance` is not a number: no
  difference exceeds it, and the caller is told "balanced" whatever was paid. A
  large tolerance is the caller's choice in the same way.
* `SnapshotsAreWhole` is about each snapshot. Two calls that overlap can both
  insert one, which `docs/balance-snapshot-atomicity.md` (19) accepts.
* `DecisionsAreFinal` bounds the delay of a retry unless the server asks for one:
  `Retry-After` is passed on without a limit, even below zero. A result code that
  comes with the words of a timeout or of the network is retried.
* `StartedDeliveriesAreDecided` begins where a delivery starts: an `emit` whose
  look-up of endpoints fails starts none.
* `MetricsAddUp` counts until the limit on keys is reached; from then on new keys
  are dropped, and `errors_total` may exceed `http_requests_total`.
* `TokensOutliveOneRotation` needs `JWT_KEY_ID` to change with the key. An instance
  that was not restarted yet rejects tokens signed with the new key.

`CHECK_DEADLOCK FALSE` is set where a model really stops: all requests have been
answered, all deliveries decided. The session model never stops, and its deadlock
check is on.

### Fairness

* `SessionRotation`: strong fairness of a request's statements, because
  PostgreSQL grants a row lock to its waiters in order and the pool's connection
  is already held; weak fairness of the deadlock detector. None for logins,
  logouts, refreshes, lost connections or crashes.
* `IdempotencyMemory`: a handler answers or its client goes away (Node emits
  `finish` or `close`).
* `IdempotencyPostgres`: strong fairness of the check's statements, including
  `connectionTimeoutMillis`. None for handlers, `save` or `release`.
* `WebhookQueue`: calls in progress go on, timers fire, time passes, a stopped
  process is started again. A crash is never required.
* All other models state none; their runs check safety.

## 4. What is proved

Seven modules of theorems about components, and `Sums`. Each proves an inductive
invariant for every component in it (`IInv`, `HealthIInv`, ...), from the initial
states and with one lemma per kind of step, and derives the theorems from it. Every
theorem is about the specification of the component's module, for every value of
its constants. Every invariant and action property of a passing run is proved,
and so are both refinements.

| Module | Theorems about properties of the runs | Why it holds |
|---|---|---|
| `SessionRotationProofs` | `TokensAreSingleUse`, `RotationsAreAtomic`, `OnlyLiveSessionsRotate`, `RevocationsCoverSnapshots`, `RotationImplementsTokenFamily`; also `RowLocksProtect`, `TypeCorrect` | a row lock carries "not consumed" from the locked read to the commit |
| `IdempotencyMemoryProofs` | `ReplaysAreFaithful`, `StoreImplementsIdempotentKey`; also `KeyIsHeldByOne`, `TypeCorrect` | a key is reserved exactly while one request is handled under it |
| `IdempotencyPostgresProofs` | `RetriesAreCaught`, `SavedStays` | undisturbed, a row has one owner and says "inflight" as long as it has |
| `WebhookQueueProofs` | `RowsTellTheTruth`, `RequestsAreBounded`; also `TypeCorrect` | an attempt is counted only after its request went out |
| `DistributionProofs` | `RecordsStayTrue`, `PayoutsAreProtected`; also `PayoutsStay` | a pass lists exactly whom it has paid or has staged, batch by batch |
| `OfferingsProofs` | `OnlyRacesBreakTheRules`, `InvestmentsFit` | who was not overtaken has read the current status; every way to an open offering has asked for its amounts |
| | `MilestonesAreSound`, `SlotsAreNotLeaked` | no lock at all: nothing un-validates a milestone or deletes an event |
| | `SnapshotsStayWhole` | rows become visible with their COMMIT, all at once |
| | `ReportsOverlapSeldom` | what a call saw when it checked is remembered until it inserts |
| | `BalancedStaysPaid` | reports are read first, what completed runs have paid only grows, and rounding moves each sum by half a cent |
| | `PayoutsAlwaysAddUp` | the difference, rounded once, goes to one share |
| `PlatformProofs` | `AddressesAreUnique`, `ResetTokensAreSpentOnce`; also `AccountsAreTyped` | the unique index; the lock on the token's row |
| | `AdmissionsStayBounded` | what a limiter keeps tells the requests of this window from earlier ones |
| | `EndedSessionsStay`, `KeysRotateOnce` | a token is drawn once; a deployment knows its own key and the one before |
| | `DeliveriesAreDecided`, `SequencesStay` | attempts are counted; what a handler has in hand comes next |
| | `RecordsAreComplete`, `MigrationsApplyOnce`, `ProductionIsProtected`; also `MigrationsAreTyped` | the unique key on `schema_version` admits one open transaction per version |
| | `MonitoringStaysSound` | a key that cools down has a recent alert |
| | `MetricsAlwaysAddUp` | keys are recorded one after the other, each while there is room |
| | `AnswersAreTrue`, `DecisionsAreFinalAlways` | a check tells what was there when it was made; the class of a failure depends on its code first |

The strengthenings, and why they are needed:

* **Sessions.** `SingleUse` is not inductive alone: that a commit adds the first
  child of its session follows from the session not being consumed, which the
  request read several statements before. `LocksProtect` keeps that fact while
  the row is locked, `Lineage` keeps deleted rows inside `born` so that a fresh
  id has no children, `RotationIsAtomic` turns "not consumed" into "no child".
  `ScansCover` is about the statements that visit several rows: a revocation has
  revoked, is revoking, or has yet to visit everything its CTE found, and a logout
  deletes or has yet to visit every child of what it deletes, so at the commit
  nothing is left over. It needs no fact about the depth of a tree, only that
  `Descendants` returns sessions of the snapshot. With it every commit is matched
  with one `Rotate`, `Revoke` or `Forget` of `TokenFamily`, every login with
  `Issue`, and every other statement with a stutter.
* **Idempotency in memory.** A replay copies whatever record it finds, so
  `RecordsAreAnswers` says that a record belongs to a request of that key and
  payload which has ended. `Held` is the reservation in first-order form. For the
  refinement the abstract holder of a key is the request handled under it, which
  `HolderLemma` shows to be unique; each step is matched with one step of
  `IdempotentKey` or a stutter.
* **Idempotency in PostgreSQL.** `Undisturbed` holds while no checks have
  overlapped and nothing failed: at most one request is checking or owns the row
  (its handler runs, or its `save` or `release` is on the way), and while there is
  an owner the row is in flight. `ResponsesAreStored` needs no such restriction.
* **Webhook queue.** `AttemptsWereSent` counts requests against the row's attempts
  for any number of instances. For the bound, `OneWorks` and `RowsGoOn` say that a
  delivery nobody shared has one call at most, whose attempt is the row's next,
  and `RequestsAreCounted` that each request is counted in the row, in hand, or
  lost to a crash or an error.
* **Distribution.** `Accounts`: unless one of its batches failed, everybody whom a
  pass lists is paid or staged, and everybody it has been through is listed or
  reported. `Batches` splits the list into blocks of `BatchSize` (the lemmas about
  `\div` and `%` come first) and says that a block is paid, listed and staged
  alike; `Once` that a pass without company never stages whom its run has paid.
* **Accounts.** `TokenLocked`: a reset that holds the row is alone and the token
  is unused; `SpentOnce` ties a committed reset to a used token. `AtMostOneMember`
  turns this into cardinalities.
* **Rate limits.** `AdmissionsAreBounded` speaks of every window, also of those
  that began in the past. `SlidingFrom`: the timestamps kept are the last requests
  let through, and all earlier ones are a `Window` old. `FixedFrom`: of the requests
  let through, the last ones came in the window that runs, and all but a limit of
  the others a `Window` before it began. `FewInAWindow` counts from there.
* **Sessions in memory.** `SessionsEnd`: every token in the store, in a request's
  hands or among the ended ones was drawn, so that no later session can have it,
  and an ended session that the sweep has not removed yet is expired.
* **Keys.** `JwtIInv`: deployment *n* signs with key *n* and knows key *n* - 1 at
  most; tokens remember the deployment that issued them.
* **Event ordering.** `LastIsDone`: everything up to `lastProcessed` was handled.
  `QueuesAreReady`: all that comes before an event in a handler's hand was handled,
  or is in that hand before it. `Calm` is for as long as nothing disturbs the
  sequence: one handler at most has the events that come next, and the buffer holds
  later ones. What `markProcessed` releases is the longest run without a gap; that
  there is one rests on the least-number principle (`LeastNumber`), which is
  derived from the well-foundedness of `<`.
* **Health, delivery, Stellar.** `CheckedTruly`: each result stored in a request
  was true of its dependency at some time during it. `DeliveryIInv`: a delivery
  under way has attempts left. `FirstOf`'s order of checks is unrolled once, in a
  lemma.
* **Milestones.** `Knows(r)`: what a request found at earlier awaits (the order,
  its event, its mark) still holds at later ones, because these sets only grow.
* **Snapshots, reports, matrix.** `SnapshotsIInv`: a call's rows are all there or
  none is, and it has read balances before it inserts. `ReportsIInv`: a report that passed the check overlaps none that
  it saw. `OfferingHasAmounts`: an offering that exists has a target and a minimum,
  although investing asks for neither.
* **Migrations.** `Exclusive`: whoever has inserted a version is the only one and
  the version is not committed; `Counted` relates commits, removals and the
  record; `Recorders` says who recorded a version, and `Effects` that each statement
  which a call has executed has its effect in the open transaction or in the
  database, unless a rollback has undercut the call; `StaleIsShared`: a check that
  starts in the middle of a file was overtaken by another. `StepsAssumption` says that statements are numbers and
  only statements can be undone.
* **Sums** (`Sums`). A sum over a set is a recursive function on its subsets, and
  the prover takes a recursive function for a `CHOOSE`: that one exists has to be
  shown first. `SumsExist` builds it for the subsets of at most *n* members, for
  every *n*, and well-founded induction on the subset relation, over sets of good
  subsets because no predicate can be passed to a theorem, then gives what the
  proofs need: a sum changes by as much as the one value that changes
  (`SumChanges`), and does not shrink when members that are not negative join it
  (`SumGrows`).
* **Metrics.** `MetricsAddUp` is inductive with the types and the finiteness of
  `Kept`. `RecordedFit` compares the indices that were recorded with the last of
  the new ones and with the first that was left out; the rest is one
  `SumChanges` for the counter of the response's route and code.
* **Shares.** `LargestExists` finds the first of the largest balances by two uses
  of `LeastNumber`; `RoundingIsNear` bounds what rounding to cents does to mills.
* **Reconciliation.** `DifferencesCover`: the difference that a check has found is
  at least what is unpaid now less a cent (half a cent for the reports, half a cent
  for the runs), and a full check without issues has one that its tolerance allows.
* **Monitoring.** `CoolingIsRecent`: while the cooldown of a key runs, its last
  alert is as old as the time that has run.
* **Offerings.** `ReadsAreCurrent`: a call that is not stale has seen the status
  the offering has. The theorem assumes that synchronizations and investments are
  different calls (`Syncs` and `Investors` are disjoint).

The assumptions are those that the modules name, and TLC evaluates them in the
runs: `None` is not one of the values it is compared with; what is summed over is
finite, and amounts of reports and runs are not negative; limits, periods and
bounds are naturals, and those the code divides by or counts down from are not
zero; statements are numbers; a list of holders names nobody twice
(`HoldersAssumption`: balances are grouped by investor before they are split).

Only model-checked, and why:

* `EveryRequestEnds`, `ReservationsEnd`, `ChecksEnd` and `UndisturbedDeliveriesEnd`:
  liveness rests on fairness and so on ENABLED, which is out of the prover's reach;
* the four properties that the code violates.

## 5. What the code does differently from what it says

The runs that expect a violation cover four sentences. Met while translating,
and represented in the models by what the code does:

*Accounts.* The limiter's own error is caught by the "failing open" handler
(`passwordResetService.ts` 51-53), so that the 429 of
`docs/password-reset-rate-controls.md` cannot be reached; the limiter's primary
key keeps the count at one, so that with the default of three no block happens.
Startup accounts store a scrypt hash that login does not verify until a reset
replaces it. Other tokens and sessions outlive a reset. `/startup/register` of
`index.ts` stores nothing.

*Webhooks.* The sender signs `timestamp.body`; the repository's receivers, and
`docs/webhooks-implementation.md`, verify the body alone. `webhookVerify` answers
400 where the others answer 401. `webhookAuth` turns a Buffer into a UTF-8 string
before it verifies and `webhookVerify` does not, so that they disagree on a body
that is not valid UTF-8.

*Stellar.* `submitPayment` uses a field that is not declared, so it answers 503
before anything is sent; the retry helpers use fields that are not declared and
have no caller.

*Offerings.* `syncOffering` ends as "Offering not found"; a synchronization that
updated the row returns nothing, so the catalog's request fails after a
successful update; the constraint on `offerings.status` admits three of the
statuses the guard knows. In the matrix no action resumes a paused offering, and
warnings deny as well.

*Vaults.* The integration's repository lacks a method and a dependency the
hardened route calls, so through it every validation fails. The event row of a
validation that failed later makes each retry by the same verifier fail, against
the comment "Transaction-like semantics".

*Migrations.* A preflight that overlaps another can miss a destructive statement
(global regular expressions keep `lastIndex`). `rollbackMigration` marks a
migration as rolled back and undoes nothing. An approved request is never looked
up (safety README, 86-93 and 217-228). Backups store no checksum, so every
restore fails its integrity check, and a restore only logs. An execution log that
fails after COMMIT answers failure although the migration is applied.
`maxConcurrentMigrations` is not enforced.

*Revenue.* The INSERT of a report omits two columns that migration 006 declares
NOT NULL; `routes/revenueRoutes.ts` calls a method that does not exist.
Reconciliation filters on `distribution_date`, which the repository's rows do not
carry and the tests' do (`mapped` in `Revenue` is either); `verifyDistributionRun`
lists the runs of offering ''; the checks of investor allocations and of payout
completeness never report.

*Others.* The Prometheus export omits histograms, and `httpDuration` aggregates
the first key only. No route of the session store calls `touch`. With a pool, an
engine's answer can list payouts whose batch rolled back.

## 6. Not modelled

* **Password change**: the file does not parse, so there is no behaviour.
* **Webhook receivers**: three functions of one request that keep no state. What
  could go wrong in them is a matter of bytes, which tests reach; a model would
  restate one comparison three times.
* **Vesting**: each call rebuilds the same mock schedule and stores nothing.
* **Notifications, email, listings and pagination**: one statement or one
  external call each, and reads.
* **The plain migration runner**: files applied in a loop; the constraints they
  set are part of the modules that use the tables. `MigrationManager`
  (`executor.ts` 553-667) is the same loop over `executeMigration`.
* **Helpers**: decimal arithmetic, sanitizing, URL safety, logging, CORS, error
  formats. Where another part depends on the outcome, it is a choice there (the
  webhook queue's URL check is `NoEndpoint`, a strong password `Strong`).
* **Submission to Stellar** beyond the classification of its failures: it ends
  before the network is reached.
* **Brute-force protection** is the fixed window of `RateLimits` once more, and
  `SlidingWindowRateLimiter` has no caller.
* Inside modelled parts: signing and hashing, SQL text, statistics that only
  read, isolation options of `withTransaction` that no caller uses,
  `processDistributionForReport`, and `POST /offerings/:id/distribute`, whose
  period has no id and which the engine therefore rejects.

## 7. What could come next

Fairness for `WebhookDelivery` and `EventOrdering`, with "every started delivery
ends unless the process stops"; the abstract counterparts of `IdempotencyPostgres`
and `WebhookQueue`, with their refinements; and, once they compile, the submission
to Stellar and the password change.

## Running

    tlc -config SessionRotation.cfg MCSessionRotation
    tlc -config Platform.cfg MCPlatform
    tlc -config Offerings.cfg MCOfferings
    tlapm PlatformProofs.tla

`PROJECT.json` lists the runs with their modules and configurations, the mutants,
and the source lines of every definition.
