---------------------------- MODULE Distribution ----------------------------
(***************************************************************************)
(* DistributionScheduler.processPendingDistributions and the               *)
(* DistributionEngine it calls (src/src/services), for one approved        *)
(* revenue report: the runs and payouts it leaves in PostgreSQL, over      *)
(* repeated and overlapping passes, failing statements, lost replies and   *)
(* crashes.  What a share amounts to is DistributionShares' subject; here  *)
(* a payout only remembers which balances it was computed from.            *)
(***************************************************************************)
EXTENDS Integers, FiniteSets, SequencesExt

CONSTANTS
    Passes,      \* scheduler passes that may overlap
    Runs,        \* ids of rows of distributions (a bound)
    Ledger,      \* Ledger[v]: the investors that fetchBalances returns, in
                 \* order, when the balances are in their v-th version
    BatchSize,   \* batchSize
    MaxRetries,  \* maxRetries
    Faults,      \* which faults may happen
    MaxFaults,   \* how many (a bound)
    MaxTogether, \* how many if passes overlap (a bound)
    None         \* no run

Versions == 1 .. Len(Ledger)
Investors == UNION {ToSet(Ledger[v]) : v \in Versions}
FaultKinds == {"error", "lost reply", "crash"}

ASSUME LedgerAssumption ==
    /\ Ledger \in Seq(Seq(Investors)) /\ Ledger # <<>>
    /\ \A v \in Versions : Ledger[v] # <<>>
\* The provider adds up what an investor holds (balanceSnapshotService.ts, 268-287).
ASSUME HoldersAssumption == \A v \in Versions : \A l, m \in 1 .. Len(Ledger[v]) :
    Ledger[v][l] = Ledger[v][m] => l = m
ASSUME SizesAssumption == {BatchSize, MaxRetries} \subseteq Nat \ {0} /\ {MaxFaults, MaxTogether} \subseteq Nat
ASSUME FaultsAssumption == Faults \subseteq FaultKinds
ASSUME NoneAssumption == None \notin Runs

VARIABLES
    status,   \* distributions.status; "none": no such row
    payouts,  \* distribution_payouts: rows per run, investor and version
    balances, \* current version of the investors' balances
    pooled,   \* whether the engine was given a pool
    \* Per pass.
    pc,
    rows,     \* rows of findApprovedWithoutDistribution still to process
    run,      \* the run the engine works on
    seen,     \* the status that findRunByParams read
    version,  \* version of the balances it fetched
    pos,      \* position in the list of shares
    tries,    \* failed attempts of the current withRetry
    listed,   \* successfulPayouts and existingInvestorIds: the same investors
    staged,   \* payouts written in the open transaction
    failed,   \* failedPayouts
    batchFailed,  \* hasBatchFailure
    \* Observed.
    faults,     \* faults so far
    overlapped  \* two passes were under way at the same time

table == <<status, payouts>>
loop  == <<pos, tries, listed, staged, failed, batchFailed>>
pass  == <<rows, run, seen, version, loop>>
world == <<balances, pooled>>
observed == <<faults, overlapped>>
vars  == <<table, world, pc, pass, observed>>

Statuses == {"none", "processing", "completed", "failed"}
Labels == {"idle", "find", "balances", "create", "mark", "existing",
           "pay", "commit", "finish", "ok", "error"}

Init ==
    /\ status = [n \in Runs |-> "none"]
    /\ payouts = [x \in Runs \X Investors \X Versions |-> 0]
    /\ balances = 1
    /\ pooled \in BOOLEAN
    /\ pc = [p \in Passes |-> "idle"]
    /\ rows = [p \in Passes |-> 0]
    /\ run = [p \in Passes |-> None]
    /\ seen = [p \in Passes |-> "none"]
    /\ version = [p \in Passes |-> 1]
    /\ pos = [p \in Passes |-> 1]
    /\ tries = [p \in Passes |-> 0]
    /\ listed = [p \in Passes |-> {}]
    /\ staged = [p \in Passes |-> {}]
    /\ failed = [p \in Passes |-> {}]
    /\ batchFailed = [p \in Passes |-> FALSE]
    /\ faults = 0
    /\ overlapped = FALSE

Goto(p, label) == pc' = [pc EXCEPT ![p] = label]
Fault(kind) ==
    /\ kind \in Faults /\ faults < IF overlapped THEN MaxTogether ELSE MaxFaults
    /\ faults' = faults + 1 /\ UNCHANGED overlapped

NoteOverlap(p) ==
    /\ overlapped' = (overlapped \/ \E q \in Passes \ {p} : pc[q] # "idle")
    /\ overlapped' => faults <= MaxTogether

Existing == {n \in Runs : status[n] # "none"}
Unfinished == {n \in Existing : status[n] # "completed"}
PaidIn(n) == {i \in Investors : \E v \in Versions : payouts[<<n, i, v>>] > 0}

Shares(p) == Ledger[version[p]]
Investor(p) == Shares(p)[pos[p]]

LastOfBatch(p) == pos[p] = Len(Shares(p)) \/ pos[p] % BatchSize = 0

-----------------------------------------------------------------------------
(* The scheduler.                                                          *)

\* What a call of distribute leaves behind in memory: nothing.
Reset(p) ==
    /\ run' = [run EXCEPT ![p] = None]
    /\ seen' = [seen EXCEPT ![p] = "none"]
    /\ version' = [version EXCEPT ![p] = 1]
    /\ pos' = [pos EXCEPT ![p] = 1]
    /\ tries' = [tries EXCEPT ![p] = 0]
    /\ listed' = [listed EXCEPT ![p] = {}]
    /\ staged' = [staged EXCEPT ![p] = {}]
    /\ failed' = [failed EXCEPT ![p] = {}]
    /\ batchFailed' = [batchFailed EXCEPT ![p] = FALSE]

\* findApprovedWithoutDistribution: one row per unfinished run of the report,
\* or one if the report has no run.
ListReport(p) ==
    /\ pc[p] = "idle"
    /\ Existing = {} \/ Unfinished # {}
    /\ rows' = [rows EXCEPT ![p] = IF Existing = {} THEN 1 ELSE Cardinality(Unfinished)]
    /\ Goto(p, "find")
    /\ NoteOverlap(p)
    /\ UNCHANGED <<table, world, run, seen, version, loop, faults>>

\* distribute returned or threw; the next row, or the end of the pass.
NextReport(p) ==
    /\ pc[p] \in {"ok", "error"}
    /\ rows' = [rows EXCEPT ![p] = @ - 1]
    /\ Goto(p, IF rows[p] > 1 THEN "find" ELSE "idle")
    /\ Reset(p)
    /\ UNCHANGED <<table, world, observed>>

-----------------------------------------------------------------------------
(* distributeWithBatch: the run.                                           *)

\* findRunByParams returns any run of the report (LIMIT 1); the payouts of a
\* completed one are the answer.
FindRun(p) ==
    /\ pc[p] = "find"
    /\ \/ Existing = {} /\ Goto(p, "balances") /\ UNCHANGED <<run, seen, listed>>
       \/ \E n \in Existing :
            /\ run' = [run EXCEPT ![p] = n]
            /\ seen' = [seen EXCEPT ![p] = status[n]]
            /\ IF status[n] = "completed"
               THEN Goto(p, "ok") /\ listed' = [listed EXCEPT ![p] = PaidIn(n)]
               ELSE Goto(p, "balances") /\ UNCHANGED listed
    /\ UNCHANGED <<table, world, rows, version, pos, tries, staged, failed,
                   batchFailed, observed>>

\* The shares are computed from the balances as they are now.
FetchBalances(p) ==
    /\ pc[p] = "balances"
    /\ version' = [version EXCEPT ![p] = balances]
    /\ Goto(p, CASE run[p] = None -> "create"
                 [] run[p] # None /\ seen[p] = "processing" -> "existing"
                 [] run[p] # None /\ seen[p] # "processing" -> "mark")
    /\ UNCHANGED <<table, world, rows, run, seen, loop, observed>>

\* createDistributionRun: nothing makes a run's parameters unique.
CreateRun(p) ==
    /\ pc[p] = "create"
    /\ \E n \in Runs \ Existing :
        /\ status' = [status EXCEPT ![n] = "processing"]
        /\ run' = [run EXCEPT ![p] = n]
    /\ tries' = [tries EXCEPT ![p] = 0]
    /\ Goto(p, "existing")
    /\ UNCHANGED <<payouts, world, rows, seen, version, pos, listed, staged, failed,
                   batchFailed, observed>>

MarkProcessing(p) ==
    /\ pc[p] = "mark"
    /\ status' = [status EXCEPT ![run[p]] = "processing"]
    /\ Goto(p, "existing")
    /\ UNCHANGED <<payouts, world, pass, observed>>

\* Mutant: a resumed run starts from the first share again.
ForgetExisting(p) ==
    /\ pc[p] = "existing"
    /\ Goto(p, "pay")
    /\ UNCHANGED <<table, world, pass, observed>>

\* getPayoutsForRun: who has been paid in this run, read once.
ReadExisting(p) ==
    /\ pc[p] = "existing"
    /\ listed' = [listed EXCEPT ![p] = PaidIn(run[p])]
    /\ Goto(p, "pay")
    /\ UNCHANGED <<table, world, rows, run, seen, version, pos, tries, staged, failed,
                   batchFailed, observed>>

-----------------------------------------------------------------------------
(* distributeWithBatch: the payouts, batch by batch.  With a pool, a batch *)
(* is one transaction; without one, each payout is.                        *)

Paying(p) == pc[p] = "pay" /\ pos[p] <= Len(Shares(p))

\* The share at pos is dealt with: on to the next, by way of COMMIT if a
\* transactional batch ends here.
Advance(p) ==
    IF pooled /\ LastOfBatch(p)
    THEN Goto(p, "commit") /\ UNCHANGED pos
    ELSE pos' = [pos EXCEPT ![p] = @ + 1] /\ UNCHANGED pc

SkipPaid(p) ==
    /\ Paying(p) /\ Investor(p) \in listed[p]
    /\ Advance(p)
    /\ UNCHANGED <<table, world, rows, run, seen, version, tries, listed, staged,
                   failed, batchFailed, observed>>

CreatePayout(p) ==
    /\ Paying(p) /\ Investor(p) \notin listed[p]
    /\ IF pooled
       THEN /\ staged' = [staged EXCEPT ![p] = @ \union {Investor(p)}]
            /\ UNCHANGED payouts
       ELSE /\ payouts' = [payouts EXCEPT ![<<run[p], Investor(p), version[p]>>] = @ + 1]
            /\ UNCHANGED staged
    /\ listed' = [listed EXCEPT ![p] = @ \union {Investor(p)}]
    /\ tries' = [tries EXCEPT ![p] = 0]
    /\ Advance(p)
    /\ UNCHANGED <<status, world, rows, run, seen, version, failed, batchFailed, observed>>

\* What COMMIT makes visible.
WithStaged(p) ==
    [x \in DOMAIN payouts |->
        IF x[1] = run[p] /\ x[2] \in staged[p] /\ x[3] = version[p]
        THEN payouts[x] + 1 ELSE payouts[x]]

\* The first position after the batch at pos.
NextBatch(p) == ((pos[p] - 1) \div BatchSize + 1) * BatchSize + 1

CommitBatch(p) ==
    /\ pc[p] = "commit"
    /\ payouts' = WithStaged(p)
    /\ staged' = [staged EXCEPT ![p] = {}]
    /\ pos' = [pos EXCEPT ![p] = NextBatch(p)]
    /\ Goto(p, "pay")
    /\ UNCHANGED <<status, world, rows, run, seen, version, tries, listed, failed,
                   batchFailed, observed>>

\* Mutant: only payouts that failed one by one count.
FinalStatusIgnoresBatches(p) == IF failed[p] = {} THEN "completed" ELSE "failed"

FinalStatus(p) == IF failed[p] = {} /\ ~batchFailed[p] THEN "completed" ELSE "failed"

\* distribute throws if a payout failed, and not if a batch did.
Answer(p) == Goto(p, IF failed[p] = {} THEN "ok" ELSE "error")

Finish(p) ==
    /\ pc[p] = "pay" /\ pos[p] > Len(Shares(p))
    /\ status' = [status EXCEPT ![run[p]] = FinalStatus(p)]
    /\ Answer(p)
    /\ UNCHANGED <<payouts, world, pass, observed>>

-----------------------------------------------------------------------------
(* Faults.  withRetry repeats a call up to MaxRetries times, whether or    *)
(* not the call that failed took effect.                                   *)

\* A statement that is not retried, or every attempt at one that is, fails:
\* distribute throws.
StatementFails(p) ==
    /\ pc[p] \in {"find", "balances", "create", "mark", "existing"}
    /\ Fault("error")
    /\ Goto(p, "error")
    /\ UNCHANGED <<table, world, pass>>

\* The run was created and the reply is lost.
CreateRunReplyLost(p) ==
    /\ pc[p] = "create"
    /\ Fault("lost reply")
    /\ \E n \in Runs \ Existing : status' = [status EXCEPT ![n] = "processing"]
    /\ tries' = [tries EXCEPT ![p] = (@ + 1) % MaxRetries]
    /\ Goto(p, IF tries[p] + 1 = MaxRetries THEN "error" ELSE "create")
    /\ UNCHANGED <<payouts, world, rows, run, seen, version, pos, listed, staged,
                   failed, batchFailed>>

GiveUpPayout(p) == failed' = [failed EXCEPT ![p] = @ \union {Investor(p)}] /\ Advance(p)

\* Without a pool, an INSERT fails or its reply is lost; after MaxRetries
\* failures the payout is recorded as failed.
PayoutFails(p) ==
    /\ ~pooled /\ Paying(p) /\ Investor(p) \notin listed[p]
    /\ \/ Fault("error") /\ UNCHANGED payouts
       \/ /\ Fault("lost reply")
          /\ payouts' = [payouts EXCEPT ![<<run[p], Investor(p), version[p]>>] = @ + 1]
    /\ IF tries[p] + 1 = MaxRetries
       THEN GiveUpPayout(p) /\ tries' = [tries EXCEPT ![p] = 0]
       ELSE tries' = [tries EXCEPT ![p] = @ + 1] /\ UNCHANGED <<failed, pos, pc>>
    /\ UNCHANGED <<status, world, rows, run, seen, version, listed, staged, batchFailed>>

\* With a pool, a statement that fails aborts the transaction, which fails the
\* attempts that follow too; ROLLBACK.  A COMMIT whose reply is lost took
\* effect.  What the batch had listed stays listed.
BatchFails(p) ==
    /\ pooled /\ (Paying(p) \/ pc[p] = "commit")
    /\ \/ Fault("error") /\ UNCHANGED payouts
       \/ Fault("lost reply") /\ pc[p] = "commit" /\ payouts' = WithStaged(p)
    /\ staged' = [staged EXCEPT ![p] = {}]
    /\ batchFailed' = [batchFailed EXCEPT ![p] = TRUE]
    /\ tries' = [tries EXCEPT ![p] = 0]
    /\ pos' = [pos EXCEPT ![p] = NextBatch(p)]
    /\ Goto(p, "pay")
    /\ UNCHANGED <<status, world, rows, run, seen, version, listed, failed>>

\* The last updateRunStatus fails; the error is logged and the answer the same.
FinishUnrecorded(p) ==
    /\ pc[p] = "pay" /\ pos[p] > Len(Shares(p))
    /\ Fault("error")
    /\ Answer(p)
    /\ UNCHANGED <<table, world, pass>>

\* The process stops, and PostgreSQL rolls its transaction back.
Crash(p) ==
    /\ pc[p] # "idle"
    /\ Fault("crash")
    /\ Goto(p, "idle")
    /\ rows' = [rows EXCEPT ![p] = 0]
    /\ Reset(p)
    /\ UNCHANGED <<table, world>>

\* Tokens change hands.
ChangeBalances ==
    /\ balances < Len(Ledger)
    /\ balances' = balances + 1
    /\ UNCHANGED <<table, pooled, pc, pass, observed>>

Step(p) ==
    \/ ListReport(p) \/ NextReport(p)
    \/ FindRun(p) \/ FetchBalances(p) \/ CreateRun(p) \/ MarkProcessing(p) \/ ReadExisting(p)
    \/ SkipPaid(p) \/ CreatePayout(p) \/ CommitBatch(p) \/ Finish(p)

Failure(p) ==
    \/ StatementFails(p) \/ CreateRunReplyLost(p) \/ PayoutFails(p)
    \/ BatchFails(p) \/ FinishUnrecorded(p) \/ Crash(p)

Next ==
    \/ \E p \in Passes : Step(p) \/ Failure(p)
    \/ ChangeBalances

Spec == Init /\ [][Next]_vars

-----------------------------------------------------------------------------
\* Every variable stays in its type; a pass stages payouts inside a batch only.
TypeOK ==
    /\ status \in [Runs -> Statuses]
    /\ payouts \in [Runs \X Investors \X Versions -> Nat]
    /\ balances \in Versions
    /\ pc \in [Passes -> Labels]
    /\ rows \in [Passes -> 0 .. Cardinality(Runs)]
    /\ run \in [Passes -> Runs \union {None}]
    /\ seen \in [Passes -> Statuses]
    /\ version \in [Passes -> Versions]
    /\ pos \in [Passes -> Nat \ {0}]
    /\ tries \in [Passes -> 0 .. MaxRetries - 1]
    /\ {listed[p] : p \in Passes} \union {failed[p] : p \in Passes} \subseteq SUBSET Investors
    /\ \A p \in Passes : staged[p] \subseteq IF pc[p] \in {"pay", "commit"} THEN Investors ELSE {}
    /\ batchFailed \in [Passes -> BOOLEAN]
    /\ faults \in 0 .. MaxFaults /\ {pooled, overlapped} \subseteq BOOLEAN

\* A run that is marked completed has paid every investor of the balances that
\* some pass distributed by, whatever failed on the way.
CompletedIsFullyPaid ==
    \A n \in Runs : status[n] = "completed" =>
        \E v \in Versions : ToSet(Ledger[v]) \subseteq PaidIn(n)

\* Without a pool, an answer of distribute is true and complete: who it lists was
\* paid, and everybody is paid or reported as failed.
AnswersAccountForAll ==
    \A p \in Passes : ~pooled /\ pc[p] \in {"ok", "error"} /\ run[p] # None =>
        /\ listed[p] \subseteq PaidIn(run[p])
        /\ pos[p] > Len(Shares(p)) => ToSet(Shares(p)) \subseteq listed[p] \union failed[p]

\* What is recorded and answered of a distribution is what was paid.
RecordsAreTrue == CompletedIsFullyPaid /\ AnswersAccountForAll

\* While the balances stay the same, the investors of a transactional batch have
\* been paid equally often in every run, by overlapping passes too: a batch is
\* written whole or not at all.
BatchOf(v, k) == {Ledger[v][m] : m \in {m \in 1 .. Len(Ledger[v]) : (m - 1) \div BatchSize = k}}
BatchesAreAtomic ==
    pooled /\ balances = 1 =>
        \A n \in Runs, k \in 0 .. Len(Ledger[1]) : \A i, j \in BatchOf(1, k) :
            \A v \in Versions : payouts[<<n, i, v>>] = payouts[<<n, j, v>>]

\* "never create duplicate payouts for the same run"
\* (docs/distribution-engine-safety.md), resumed runs included.
NoDuplicatePayouts == \A n \in Runs, i \in Investors, v, w \in Versions :
    /\ payouts[<<n, i, v>>] <= 1
    /\ payouts[<<n, i, v>>] > 0 /\ payouts[<<n, i, w>>] > 0 => v = w

\* It does not as long as passes do not overlap and batches are transactions,
\* however often a run fails and is resumed.
SequentialPassesPayOnce == pooled /\ ~overlapped => NoDuplicatePayouts

\* What the transactions of a pool are for: batches are paid whole, and investors once.
TransactionsProtectPayouts == BatchesAreAtomic /\ SequentialPassesPayOnce
=============================================================================
