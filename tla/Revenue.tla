------------------------------ MODULE Revenue ------------------------------
(***************************************************************************)
(* Revenue reports of one offering (RevenueService.submitReport) and their *)
(* reconciliation with the distribution runs (RevenueReconciliationService *)
(* and its routes).  Time is counted in days, money in mills, a tenth of a *)
(* cent: amounts have digits below a cent, which toFixed(2) rounds away.   *)
(* Sums are below 2^53 cents, where a floating-point number is wrong by    *)
(* less than it can show, except in a comparison of equals.                *)
(***************************************************************************)
EXTENDS Integers, FiniteSets, Functions

CONSTANTS
    Submits,    \* calls of submitReport
    Runs,       \* distribution runs
    Checks,     \* reconciliation calls
    LastDay,    \* days are 0 .. LastDay
    Amounts,    \* amounts of valid reports and of runs
    MaxAmount,  \* DECIMAL_LIMITS.MAX_AMOUNT
    Tolerance,  \* DEFAULT_TOLERANCE
    Tolerances, \* what a caller may ask for as options.tolerance, besides
    NotANumber  \* anything that is no number

ASSUME CallsAreFinite == IsFiniteSet(Submits) /\ IsFiniteSet(Runs)
ASSUME MoneyAssumption ==
    Amounts \subseteq Nat /\ Tolerances \subseteq Int /\ {MaxAmount, Tolerance} \subseteq Int
ASSUME DaysAssumption == LastDay \in Nat

VARIABLES
    mapped,     \* whether listByOffering's rows carry distribution_date: the tests'
                \* do, those of mapDistributionRun do not
    submit,     \* each submitReport: where it is and its input
    seen,       \* observed: reports that its overlap check saw
    run,        \* each run: status, amount, day
    settled,    \* runs that the chain shows as distributed
    check,      \* each reconciliation: kind, stage, period, tolerance
    got         \* what it has read: revenue, difference, issues; observed: the exact
                \* sum of the reports

revenueVars == <<mapped, submit, seen, run, settled, check, got>>

Days == 0 .. LastDay
Periods == {p \in Days \X Days : p[1] < p[2]}
Reports == {s \in Submits : submit[s].stage = "inserted"}

Reported == [s \in Submits |-> submit[s].amount]
Paid == [r \in Runs |-> run[r].amount]
Abs(n) == IF n < 0 THEN -n ELSE n

Cent == 10

\* toFixed(2): the nearest cent; half a cent goes either way, as its binary
\* representation has it.
ToCents(mills) ==
    LET below == Cent * (mills \div Cent)
    IN  {cents \in {below, below + Cent} : 2 * Abs(cents - mills) <= Cent}

\* The outcomes of difference > limit: equals may come out either way, and
\* nothing exceeds what is not a number.
Exceeds(difference, limit) ==
    {over \in BOOLEAN : IF over THEN limit # NotANumber /\ difference >= limit
                                ELSE limit = NotANumber \/ difference <= limit}

-----------------------------------------------------------------------------
(* submitReport.                                                           *)

\* POST bodies: who sends them and what they hold.
Inputs == [owner : BOOLEAN, amount : Amounts \union {0, MaxAmount + 1}, from : Days, to : Days]

Authorized(input) == input.owner
ValidAmount(input) == input.amount \in 1 .. MaxAmount
ValidPeriod(input) == input.from < input.to

\* findOverlappingReport: period_start < $3 AND period_end > $2.
Overlapping(input) == {s \in Reports : submit[s].from < input.to /\ submit[s].to > input.from}

\* Mutant: only the very same period is looked up.
SamePeriod(input) == {s \in Reports : submit[s].from = input.from /\ submit[s].to = input.to}

Conflicts(input) == Overlapping(input)

CheckReport(s) ==
    /\ submit[s].stage = "idle"
    /\ \E input \in Inputs :
        IF Authorized(input) /\ ValidAmount(input) /\ ValidPeriod(input) /\ Conflicts(input) = {}
        THEN submit' = [submit EXCEPT ![s] =
                 [stage |-> "checked", amount |-> input.amount, from |-> input.from, to |-> input.to]]
        ELSE submit' = [submit EXCEPT ![s].stage = "refused"]
    /\ seen' = [seen EXCEPT ![s] = Reports]
    /\ UNCHANGED <<mapped, run, settled, check, got>>

\* idx_revenue_reports_unique_period.
PeriodTaken(s) == SamePeriod(submit[s]) # {}

\* INSERT, which the unique index or any other constraint may refuse.
InsertReport(s) ==
    /\ submit[s].stage = "checked"
    /\ \/ ~PeriodTaken(s) /\ submit' = [submit EXCEPT ![s].stage = "inserted"]
       \/ submit' = [submit EXCEPT ![s].stage = "refused"]
    /\ UNCHANGED <<mapped, seen, run, settled, check, got>>

-----------------------------------------------------------------------------
(* The runs that reconciliation reads (Distribution models how they get    *)
(* there) and the chain that drift detection reads.                        *)

CreateRun(r) ==
    /\ run[r].status = "none"
    /\ \E amount \in Amounts, day \in Days : run' = [run EXCEPT ![r] = [status |-> "processing", amount |-> amount, day |-> day]]
    /\ UNCHANGED <<mapped, submit, seen, settled, check, got>>

UpdateRunStatus(r) ==
    /\ run[r].status = "processing"
    /\ \E status \in {"completed", "failed"} : run' = [run EXCEPT ![r].status = status]
    /\ UNCHANGED <<mapped, submit, seen, settled, check, got>>

Settle(r) ==
    /\ run[r].status = "completed" /\ r \notin settled
    /\ settled' = settled \union {r}
    /\ UNCHANGED <<mapped, submit, seen, run, check, got>>

-----------------------------------------------------------------------------
(* reconcile ("full") and quickBalanceCheck ("quick"): two or three reads  *)
(* and an answer.                                                          *)

\* datesOverlap, both ends included.
ReportsIn(period) == {s \in Reports : submit[s].from <= period[2] /\ submit[s].to >= period[1]}
RunsIn(period) == {r \in Runs : run[r].status # "none" /\ run[r].day \in period[1] .. period[2]}

\* Mutant: a run that is still processing counts as paid.
NotFailed(r) == run[r].status # "failed"

\* sumDistributionAmounts.
Counted(r) == run[r].status = "completed"

TotalPayouts(runs) == ToCents(SumFunctionOnSet(Paid, {r \in runs : Counted(r)}))

\* The routes: a period is given; only reconcile wants its end after its start
\* and forwards the tolerance of the body.
Kinds == {"full", "quick"}
PeriodsOf(kind) == IF kind = "full" THEN Periods ELSE Days \X Days
TolerancesOf(kind) == {Tolerance} \union IF kind = "full" THEN Tolerances \union {NotANumber} ELSE {}

\* The reports, and sumRevenueAmounts.
ReadReports(c) ==
    /\ check[c].stage = "idle"
    /\ \E kind \in Kinds, drift \in BOOLEAN :
       \E period \in PeriodsOf(kind), tolerance \in TolerancesOf(kind) :
        LET reported == SumFunctionOnSet(Reported, ReportsIn(period)) IN
        /\ check' = [check EXCEPT ![c] =
               [kind |-> kind, stage |-> "reports", period |-> period, tolerance |-> tolerance,
                drift |-> drift /\ kind = "full"]]
        /\ \E revenue \in ToCents(reported) :
            got' = [got EXCEPT ![c].reported = reported, ![c].revenue = revenue]
    /\ UNCHANGED <<mapped, submit, seen, run, settled>>

RunIssue(r) ==
    CASE run[r].status = "failed" -> {"error"}
      [] run[r].status = "processing" -> {"warning"}
      [] OTHER -> {}

\* What a check may add to the issues; "error" is any discrepancy that is not a
\* warning: how bad it is called decides nothing.
Error(found) == IF found THEN {"error"} ELSE {}

\* checkRevenueMismatch.
Mismatches(difference, tolerance) == {Error(over) : over \in Exceeds(difference, tolerance)}

\* Per run: no hash, a failed or timed-out look-up, a transaction outside the period, or nothing.
ChainIssues(runs) == IF runs = {} THEN {{}} ELSE {{}, {"error"}, {"warning"}}

\* checkRoundingAdjustments, when it is asked for, may warn of digits below a cent.
RoundingIssues(runs) ==
    {{}} \union {{"warning"} : r \in {x \in runs : Counted(x) /\ run[x].amount % Cent # 0}}

\* checkInvestorAllocations, checkPayoutCompleteness and countFailedPayouts find
\* nothing whatever the rows are.
OtherIssues == {}

\* The runs, with the comparisons and the checks of each run.
ReadRuns(c) ==
    /\ check[c].stage = "reports"
    /\ LET relevant == IF mapped THEN RunsIn(check[c].period) ELSE {}
       IN \E payouts \in TotalPayouts(relevant) :
          LET difference == got[c].revenue - payouts
          IN \E mismatch \in Mismatches(Abs(difference), check[c].tolerance),
                chain \in ChainIssues(relevant), rounding \in RoundingIssues(relevant) :
               got' = [got EXCEPT ![c].difference = difference,
                                  ![c].issues = mismatch \union chain \union rounding \union OtherIssues
                                                \union UNION {RunIssue(r) : r \in relevant}]
    /\ check' = [check EXCEPT ![c].stage = IF check[c].drift THEN "drift" ELSE "answer"]
    /\ UNCHANGED <<mapped, submit, seen, run, settled>>

\* The caller's tolerance decides how bad a drift is, not whether it is one.
DriftIssues(drift) == {Error(over) : over \in Exceeds(drift, Tolerance)}

\* detectChainDrift: the chain, then getAggregateStats; the call may fail.
DetectChainDrift(c) ==
    /\ check[c].stage = "drift"
    /\ LET local == SumFunctionOnSet(Paid, {r \in Runs : run[r].status = "completed"})
           drift == Abs(SumFunctionOnSet(Paid, settled) - local)
       IN \E issue \in DriftIssues(drift) \union {{"warning"}} :
            got' = [got EXCEPT ![c].issues = @ \union issue]
    /\ check' = [check EXCEPT ![c].stage = "answer"]
    /\ UNCHANGED <<mapped, submit, seen, run, settled>>

\* isBalanced: amountsEqual, or no discrepancy.
Balanced(c) ==
    IF check[c].kind = "quick" THEN {~over : over \in Exceeds(Abs(got[c].difference), check[c].tolerance)}
    ELSE {got[c].issues = {}}

Answer(c) ==
    /\ check[c].stage = "answer"
    /\ \E balanced \in Balanced(c) :
        check' = [check EXCEPT ![c].stage = IF balanced THEN "balanced" ELSE "unbalanced"]
    /\ UNCHANGED <<mapped, submit, seen, run, settled, got>>

\* validateRevenueReport only looks for the very same period: a submission that
\* it calls valid may still be refused for its overlap.
Valid(input, today) == ValidPeriod(input) /\ input.from <= today /\ SamePeriod(input) = {}

ValidateReport(c) ==
    /\ check[c].stage = "idle"
    /\ \E input \in Inputs, today \in Days :
        check' = [check EXCEPT ![c].stage =
                     IF Authorized(input) /\ Valid(input, today) THEN "valid" ELSE "invalid"]
    /\ UNCHANGED <<mapped, submit, seen, run, settled, got>>

\* verifyDistributionRun lists the runs of the offering '': it finds none.
RunsOfNoOffering == {}

VerifyRun(c) ==
    /\ check[c].stage = "idle"
    /\ \E r \in Runs :
        check' = [check EXCEPT ![c].stage = IF r \in RunsOfNoOffering THEN "valid" ELSE "invalid"]
    /\ UNCHANGED <<mapped, submit, seen, run, settled, got>>

-----------------------------------------------------------------------------
RevenueInit ==
    /\ mapped \in BOOLEAN
    /\ submit = [s \in Submits |-> [stage |-> "idle", amount |-> 0, from |-> 0, to |-> 0]]
    /\ seen = [s \in Submits |-> {}]
    /\ run = [r \in Runs |-> [status |-> "none", amount |-> 0, day |-> 0]]
    /\ settled = {}
    /\ check = [c \in Checks |-> [kind |-> "quick", stage |-> "idle", period |-> <<0, 0>>,
                                tolerance |-> Tolerance, drift |-> FALSE]]
    /\ got = [c \in Checks |-> [reported |-> 0, revenue |-> 0, difference |-> 0, issues |-> {}]]

RevenueNext ==
    \/ \E s \in Submits : CheckReport(s) \/ InsertReport(s)
    \/ \E r \in Runs : CreateRun(r) \/ UpdateRunStatus(r) \/ Settle(r)
    \/ \E c \in Checks : ReadReports(c) \/ ReadRuns(c) \/ DetectChainDrift(c) \/ Answer(c)
                      \/ ValidateReport(c) \/ VerifyRun(c)

RevenueSpec == RevenueInit /\ [][RevenueNext]_revenueVars

-----------------------------------------------------------------------------
\* Reports overlap only if neither was there when the other was checked, and no
\* two have the same period: submitReport checks and inserts in two statements,
\* and only the unique index sees both.
ReportsOverlapOnlyByRace ==
    \A s \in Reports : \A t \in Reports \ {s} :
        LET overlap == submit[s].from < submit[t].to /\ submit[t].from < submit[s].to
            same == submit[s].from = submit[t].from /\ submit[s].to = submit[t].to
        IN overlap => ~same /\ s \notin seen[t] /\ t \notin seen[s]

\* What the completed runs of a period have paid.
PaidIn(period) == SumFunctionOnSet(Paid, {r \in RunsIn(period) : run[r].status = "completed"})

\* Whoever is told that a period is balanced has its revenue paid by completed runs,
\* up to the tolerance and half a cent for each rounded sum, although reports and
\* runs are read one after the other.  The tolerance is the caller's where he gives
\* one; if he gives something else than a number, the answer says nothing.
BalancedIsPaid ==
    \A c \in Checks :
        check[c].stage = "balanced" /\ check[c].tolerance # NotANumber =>
            got[c].reported - PaidIn(check[c].period) <= check[c].tolerance + Cent
=============================================================================
