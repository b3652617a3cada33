------------------------- MODULE DistributionProofs -------------------------
(***************************************************************************)
(* Proofs about Distribution, for any passes, runs, balances, batch size   *)
(* and faults: what is recorded of a distribution is true, a transactional *)
(* batch is written whole or not at all, and passes that do not overlap    *)
(* pay every investor once.                                                *)
(***************************************************************************)
EXTENDS Distribution, TLAPS

Types ==
    /\ status \in [Runs -> Statuses]
    /\ payouts \in [Runs \X Investors \X Versions -> Nat]
    /\ balances \in Versions /\ pooled \in BOOLEAN /\ overlapped \in BOOLEAN
    /\ pc \in [Passes -> Labels]
    /\ run \in [Passes -> Runs \union {None}]
    /\ seen \in [Passes -> Statuses]
    /\ version \in [Passes -> Versions]
    /\ pos \in [Passes -> Nat \ {0}]
    /\ listed \in [Passes -> SUBSET Investors]
    /\ staged \in [Passes -> SUBSET Investors]
    /\ failed \in [Passes -> SUBSET Investors]
    /\ batchFailed \in [Passes -> BOOLEAN]

Starting == {"idle", "find", "balances", "create", "mark", "existing"}

\* What a pass has in memory at each stage: nothing before it pays, and an open
\* transaction only inside a batch.
Stages ==
    \A p \in Passes :
        /\ pc[p] \in Starting => pos[p] = 1 /\ listed[p] = {} /\ failed[p] = {} /\ ~batchFailed[p]
        /\ pc[p] \in {"mark", "existing", "pay", "commit"} => run[p] \in Runs
        /\ pc[p] \notin {"pay", "commit"} => staged[p] = {}
        /\ pc[p] = "commit" => pooled /\ pos[p] <= Len(Shares(p)) /\ LastOfBatch(p)
        /\ staged[p] # {} => pooled /\ pos[p] <= Len(Shares(p))
        /\ batchFailed[p] => pooled

\* The position m of p's list has been dealt with.
Done(p, m) == m < pos[p] \/ (m = pos[p] /\ pc[p] = "commit")

\* Unless a batch failed, whom a pass lists has been paid or is about to be, and
\* whom it has been through is listed or reported.
AccountsOf(p) ==
    ~batchFailed[p] =>
        /\ run[p] # None => listed[p] \subseteq PaidIn(run[p]) \union staged[p]
        /\ \A m \in 1 .. Len(Shares(p)) : Done(p, m) => Shares(p)[m] \in listed[p] \union failed[p]
Accounts == \A p \in Passes : AccountsOf(p)

-----------------------------------------------------------------------------
(* Batches.                                                                *)

LEMMA Multiples ==
    ASSUME NEW x \in Int, NEW y \in Int, x < y
    PROVE  x * BatchSize + BatchSize <= y * BatchSize
<1>1. y * BatchSize = x * BatchSize + (y - x) * BatchSize
  BY SizesAssumption
<1>2. (y - x) * BatchSize >= BatchSize
  BY SizesAssumption
<1> QED
  BY <1>1, <1>2, SizesAssumption

LEMMA Products == \A x \in Nat : x * BatchSize \in Nat
  BY SizesAssumption

\* The batch of position m.
InBatch(m) == (m - 1) \div BatchSize

LEMMA BatchBounds ==
    ASSUME NEW m \in Nat \ {0}
    PROVE  /\ InBatch(m) \in Nat
           /\ InBatch(m) * BatchSize < m /\ m <= InBatch(m) * BatchSize + BatchSize
  BY SizesAssumption DEF InBatch

\* Batches come one after the other.
LEMMA BatchOrder ==
    ASSUME NEW l \in Nat \ {0}, NEW m \in Nat \ {0}, InBatch(l) < InBatch(m)
    PROVE  l < m
  BY BatchBounds, Multiples, SizesAssumption

\* A position divisible by the batch size is the last of its batch.
LEMMA LastPosition ==
    ASSUME NEW m \in Nat \ {0}, m % BatchSize = 0
    PROVE  InBatch(m) * BatchSize + BatchSize = m
<1> DEFINE q == InBatch(m)
           k == m \div BatchSize
<1>1. k \in Int /\ m = k * BatchSize
  BY SizesAssumption
<1>2. q \in Int /\ q * BatchSize < m /\ m <= q * BatchSize + BatchSize
  BY BatchBounds
<1> HIDE DEF q, k
<1>3. ASSUME k <= q PROVE FALSE
  <2>1. CASE k = q
    BY <2>1, <1>1, <1>2
  <2>2. CASE k < q
    BY <2>2, <1>1, <1>2, Multiples, SizesAssumption
  <2> QED
    BY <2>1, <2>2, <1>1, <1>2, <1>3
<1>4. ASSUME k > q + 1 PROVE FALSE
  <2>1. (q + 1) * BatchSize + BatchSize <= k * BatchSize
    BY <1>1, <1>2, <1>4, Multiples
  <2>2. (q + 1) * BatchSize = q * BatchSize + BatchSize
    BY <1>2, SizesAssumption
  <2> QED
    BY <2>1, <2>2, <1>1, <1>2, SizesAssumption
<1>5. k = q + 1
  BY <1>1, <1>2, <1>3, <1>4
<1>6. (q + 1) * BatchSize = q * BatchSize + BatchSize
  BY <1>2, SizesAssumption
<1> QED
  BY <1>1, <1>5, <1>6 DEF q

\* Any other position is followed by one of the same batch.
LEMMA NextPosition ==
    ASSUME NEW m \in Nat \ {0}, m % BatchSize # 0
    PROVE  InBatch(m + 1) = InBatch(m)
  BY SizesAssumption DEF InBatch

-----------------------------------------------------------------------------
(* Types and stages.                                                       *)

LEMMA SharesAreInvestors ==
    ASSUME NEW v \in Versions
    PROVE  /\ Len(Ledger[v]) \in Nat \ {0}
           /\ \A m \in 1 .. Len(Ledger[v]) : Ledger[v][m] \in Investors
           /\ ToSet(Ledger[v]) = {Ledger[v][m] : m \in 1 .. Len(Ledger[v])}
<1>1. Ledger[v] \in Seq(Investors) /\ Ledger[v] # <<>>
  BY LedgerAssumption DEF Versions
<1> QED
  BY <1>1 DEF ToSet

LEMMA PositionsGoOn ==
    ASSUME Types, NEW p \in Passes
    PROVE  NextBatch(p) \in Nat \ {0} /\ NextBatch(p) = InBatch(pos[p]) * BatchSize + BatchSize + 1
<1>1. pos[p] \in Nat \ {0}
  BY DEF Types
<1>2. InBatch(pos[p]) \in Nat
  BY <1>1, BatchBounds
<1>3. (InBatch(pos[p]) + 1) * BatchSize = InBatch(pos[p]) * BatchSize + BatchSize
  BY <1>2, SizesAssumption
<1>4. InBatch(pos[p]) * BatchSize \in Nat
  BY <1>2, SizesAssumption
<1> QED
  BY <1>3, <1>4, SizesAssumption DEF NextBatch, InBatch

LEMMA StagedIsCounted == Types => \A p \in Passes : WithStaged(p) \in [Runs \X Investors \X Versions -> Nat]
  BY DEF Types, WithStaged

\* The share that a pass is about to pay.
LEMMA PayingPosition ==
    ASSUME Types, Stages, NEW p \in Passes, Paying(p)
    PROVE  /\ pc[p] = "pay" /\ pos[p] \in 1 .. Len(Shares(p))
           /\ version[p] \in Versions /\ run[p] \in Runs /\ Investor(p) \in Investors
<1>1. pc[p] = "pay" /\ pos[p] \in Nat \ {0} /\ pos[p] <= Len(Shares(p)) /\ version[p] \in Versions
  BY DEF Types, Paying
<1>2. Len(Shares(p)) \in Nat /\ \A m \in 1 .. Len(Shares(p)) : Shares(p)[m] \in Investors
  BY <1>1, SharesAreInvestors DEF Shares
<1>3. pos[p] \in 1 .. Len(Shares(p))
  BY <1>1, <1>2
<1> QED
  BY <1>1, <1>2, <1>3 DEF Stages, Investor

LEMMA AdvanceMoves ==
    ASSUME Types, NEW p \in Passes, Advance(p)
    PROVE  /\ pc' \in [Passes -> Labels] /\ pos' \in [Passes -> Nat \ {0}]
           /\ \A q \in Passes \ {p} : pc'[q] = pc[q] /\ pos'[q] = pos[q]
           /\ pooled /\ LastOfBatch(p) => pc'[p] = "commit" /\ pos'[p] = pos[p]
           /\ ~(pooled /\ LastOfBatch(p)) => pc'[p] = pc[p] /\ pos'[p] = pos[p] + 1
<1>1. pc \in [Passes -> Labels] /\ pos \in [Passes -> Nat \ {0}]
  BY DEF Types
<1>2. CASE pooled /\ LastOfBatch(p)
  BY <1>1, <1>2 DEF Advance, Goto, Labels
<1>3. CASE ~(pooled /\ LastOfBatch(p))
  BY <1>1, <1>3 DEF Advance, Goto
<1> QED
  BY <1>2, <1>3

\* What a failed attempt at a payout may have changed.
LEMMA FailedAttempt ==
    ASSUME Types, NEW p \in Passes, PayoutFails(p)
    PROVE  /\ ~pooled /\ Paying(p) /\ Investor(p) \notin listed[p]
           /\ payouts' = payouts \/ payouts' = [payouts EXCEPT ![<<run[p], Investor(p), version[p]>>] = @ + 1]
           /\ \/ UNCHANGED <<failed, pos, pc>>
              \/ failed' = [failed EXCEPT ![p] = @ \union {Investor(p)}] /\ Advance(p)
           /\ UNCHANGED <<status, balances, pooled, overlapped, run, seen, version, listed, staged, batchFailed>>
<1>1. UNCHANGED <<failed, pos, pc>> \/ GiveUpPayout(p)
  BY Zenon DEF PayoutFails
<1>2. GiveUpPayout(p) => failed' = [failed EXCEPT ![p] = @ \union {Investor(p)}] /\ Advance(p)
  BY Zenon DEF GiveUpPayout
<1>3. payouts' = payouts \/ payouts' = [payouts EXCEPT ![<<run[p], Investor(p), version[p]>>] = @ + 1]
  BY DEF PayoutFails
<1>4. ~pooled /\ Paying(p) /\ Investor(p) \notin listed[p]
  BY Zenon DEF PayoutFails
<1>5. UNCHANGED <<status, balances, pooled, overlapped, run, seen, version, listed, staged, batchFailed>>
  BY DEF PayoutFails, Fault, world
<1> QED
  BY <1>1, <1>2, <1>3, <1>4, <1>5, Zenon

LEMMA OneMorePayout ==
    ASSUME Types, NEW p \in Passes, run[p] \in Runs, Investor(p) \in Investors, version[p] \in Versions,
           payouts' = payouts \/ payouts' = [payouts EXCEPT ![<<run[p], Investor(p), version[p]>>] = @ + 1]
    PROVE  payouts' \in [Runs \X Investors \X Versions -> Nat]
<1>1. <<run[p], Investor(p), version[p]>> \in Runs \X Investors \X Versions
  OBVIOUS
<1>2. payouts \in [Runs \X Investors \X Versions -> Nat]
  BY DEF Types
<1> QED
  BY <1>1, <1>2

LEMMA FirstVersion == 1 \in Versions
  BY LedgerAssumption DEF Versions

LEMMA InitialTypes == Init => Types /\ Stages /\ Accounts
<1> SUFFICES ASSUME Init PROVE Types /\ Stages /\ Accounts
  OBVIOUS
<1>1. payouts \in [Runs \X Investors \X Versions -> Nat]
  BY DEF Init
<1>4. Types
  <2>1. status \in [Runs -> Statuses] /\ seen \in [Passes -> Statuses] /\ pc \in [Passes -> Labels]
    BY DEF Init, Statuses, Labels
  <2>2. /\ listed \in [Passes -> SUBSET Investors] /\ staged \in [Passes -> SUBSET Investors]
        /\ failed \in [Passes -> SUBSET Investors] /\ batchFailed \in [Passes -> BOOLEAN]
    BY DEF Init
  <2>3. pooled \in BOOLEAN /\ overlapped \in BOOLEAN
    BY Zenon DEF Init
  <2>4. /\ balances \in Versions
        /\ run \in [Passes -> Runs \union {None}] /\ version \in [Passes -> Versions]
        /\ pos \in [Passes -> Nat \ {0}]
    BY FirstVersion DEF Init
  <2> QED
    BY <1>1, <2>1, <2>2, <2>3, <2>4 DEF Types
<1>2. Stages
  BY DEF Init, Stages, Starting
<1>3. Accounts
  BY DEF Init, Accounts, AccountsOf, Done
<1> QED
  BY <1>2, <1>3, <1>4

LEMMA TypesStep == Types /\ Stages /\ [Next]_vars => Types'
<1> SUFFICES ASSUME Types, Stages, [Next]_vars PROVE Types'
  OBVIOUS
<1> USE DEF Types, Goto, table, world, loop, pass, observed
<1>1. ASSUME NEW p \in Passes, ListReport(p) PROVE Types'
  BY <1>1 DEF ListReport, Reset, Fault, NoteOverlap, Labels, Statuses, Existing, FinalStatus, Answer, Advance, Paying
<1>2. ASSUME NEW p \in Passes, NextReport(p) PROVE Types'
  BY <1>2, FirstVersion DEF NextReport, Reset, Labels, Statuses
<1>3. ASSUME NEW p \in Passes, FindRun(p) PROVE Types'
  <2>1. listed' \in [Passes -> SUBSET Investors]
    BY <1>3 DEF FindRun, PaidIn
  <2>2. pc' \in [Passes -> Labels] /\ run' \in [Passes -> Runs \union {None}] /\ seen' \in [Passes -> Statuses]
    BY <1>3 DEF FindRun, Existing, Labels
  <2> QED
    BY <1>3, <2>1, <2>2 DEF FindRun
<1>4. ASSUME NEW p \in Passes, FetchBalances(p) PROVE Types'
  BY <1>4 DEF FetchBalances, Labels
<1>5. ASSUME NEW p \in Passes, CreateRun(p) PROVE Types'
  BY <1>5 DEF CreateRun, Reset, Fault, NoteOverlap, Labels, Statuses, Existing, FinalStatus, Answer, Advance, Paying
<1>6. ASSUME NEW p \in Passes, MarkProcessing(p) PROVE Types'
  BY <1>6 DEF MarkProcessing, Reset, Fault, NoteOverlap, Labels, Statuses, Existing, FinalStatus, Answer, Advance, Paying
<1>7. ASSUME NEW p \in Passes, ReadExisting(p) PROVE Types'
  <2>1. listed' \in [Passes -> SUBSET Investors]
    BY <1>7 DEF ReadExisting, PaidIn
  <2> QED
    BY <1>7, <2>1 DEF ReadExisting, Labels
<1>8. ASSUME NEW p \in Passes, SkipPaid(p) PROVE Types'
  <2>1. Advance(p) /\ UNCHANGED <<status, payouts, balances, pooled, overlapped, run, seen, version, listed, staged, failed, batchFailed>>
    BY <1>8 DEF SkipPaid
  <2> QED
    BY <2>1, AdvanceMoves
<1>9. ASSUME NEW p \in Passes, CreatePayout(p) PROVE Types'
  <2>1. Paying(p) /\ Investor(p) \notin listed[p]
    BY <1>9 DEF CreatePayout
  <2>2. Investor(p) \in Investors /\ run[p] \in Runs /\ version[p] \in Versions
    BY <2>1, PayingPosition
  <2>3. pc' \in [Passes -> Labels] /\ pos' \in [Passes -> Nat \ {0}]
    BY <1>9, AdvanceMoves DEF CreatePayout
  <2>4. payouts' \in [Runs \X Investors \X Versions -> Nat]
    <3>1. payouts' = payouts \/ payouts' = [payouts EXCEPT ![<<run[p], Investor(p), version[p]>>] = @ + 1]
      BY <1>9 DEF CreatePayout
    <3> QED
      BY <2>2, <3>1, OneMorePayout
  <2>5. staged' \in [Passes -> SUBSET Investors] /\ listed' \in [Passes -> SUBSET Investors]
    <3>1. /\ staged' = staged \/ staged' = [staged EXCEPT ![p] = @ \union {Investor(p)}]
          /\ listed' = [listed EXCEPT ![p] = @ \union {Investor(p)}]
      BY <1>9 DEF CreatePayout
    <3> QED
      BY <2>2, <3>1
  <2> QED
    BY <1>9, <2>3, <2>4, <2>5 DEF CreatePayout
<1>10. ASSUME NEW p \in Passes, CommitBatch(p) PROVE Types'
  BY <1>10, PositionsGoOn, StagedIsCounted DEF CommitBatch, Labels
<1>11. ASSUME NEW p \in Passes, Finish(p) PROVE Types'
  BY <1>11 DEF Finish, Reset, Fault, NoteOverlap, Labels, Statuses, Existing, FinalStatus, Answer, Advance, Paying
<1>12. ASSUME NEW p \in Passes, StatementFails(p) PROVE Types'
  BY <1>12 DEF StatementFails, Reset, Fault, NoteOverlap, Labels, Statuses, Existing, FinalStatus, Answer, Advance, Paying
<1>13. ASSUME NEW p \in Passes, CreateRunReplyLost(p) PROVE Types'
  BY <1>13 DEF CreateRunReplyLost, Reset, Fault, NoteOverlap, Labels, Statuses, Existing, FinalStatus, Answer, Advance, Paying
<1>14. ASSUME NEW p \in Passes, PayoutFails(p) PROVE Types'
  <2>1. Investor(p) \in Investors /\ run[p] \in Runs /\ version[p] \in Versions
    BY <1>14, FailedAttempt, PayingPosition
  <2>2. payouts' \in [Runs \X Investors \X Versions -> Nat]
    <3>1. payouts' = payouts \/ payouts' = [payouts EXCEPT ![<<run[p], Investor(p), version[p]>>] = @ + 1]
      BY <1>14, FailedAttempt
    <3> QED
      BY <2>1, <3>1, OneMorePayout
  <2>3. UNCHANGED <<failed, pos, pc>> \/ (failed' = [failed EXCEPT ![p] = @ \union {Investor(p)}] /\ Advance(p))
    BY <1>14, FailedAttempt
  <2>4. pc' \in [Passes -> Labels] /\ pos' \in [Passes -> Nat \ {0}] /\ failed' \in [Passes -> SUBSET Investors]
    BY <2>1, <2>3, AdvanceMoves
  <2> QED
    BY <1>14, <2>2, <2>4, FailedAttempt
<1>15. ASSUME NEW p \in Passes, BatchFails(p) PROVE Types'
  <2>1. payouts' \in [Runs \X Investors \X Versions -> Nat]
    BY <1>15, StagedIsCounted DEF BatchFails
  <2>2. pos' \in [Passes -> Nat \ {0}] /\ UNCHANGED overlapped
    BY <1>15, PositionsGoOn DEF BatchFails, Fault
  <2> QED
    BY <1>15, <2>1, <2>2 DEF BatchFails, Labels
<1>16. ASSUME NEW p \in Passes, FinishUnrecorded(p) PROVE Types'
  BY <1>16 DEF FinishUnrecorded, Reset, Fault, NoteOverlap, Labels, Statuses, Existing, FinalStatus, Answer, Advance, Paying
<1>17. ASSUME NEW p \in Passes, Crash(p) PROVE Types'
  BY <1>17, FirstVersion DEF Crash, Reset, Fault, Labels, Statuses
<1>18. CASE ChangeBalances
  BY <1>18, LedgerAssumption DEF ChangeBalances, Versions
<1>19. CASE UNCHANGED vars
  BY <1>19 DEF vars, Reset, Fault, NoteOverlap, Labels, Statuses, Existing, FinalStatus, Answer, Advance, Paying
<1> QED
  BY <1>1, <1>2, <1>3, <1>4, <1>5, <1>6, <1>7, <1>8, <1>9, <1>10, <1>11, <1>12, <1>13, <1>14, <1>15, <1>16, <1>17, <1>18, <1>19 DEF Next, Step, Failure

LEMMA StagesStep == Types /\ Stages /\ [Next]_vars => Stages'
<1> SUFFICES ASSUME Types, Stages, [Next]_vars PROVE Stages'
  OBVIOUS
<1> USE DEF Stages, Types, Starting, Goto, Shares, LastOfBatch, table, world, loop, pass, observed
<1>1. ASSUME NEW p \in Passes, ListReport(p) PROVE Stages'
  BY <1>1 DEF ListReport, Reset, Fault, Answer, Advance, Paying
<1>2. ASSUME NEW p \in Passes, NextReport(p) PROVE Stages'
  BY <1>2 DEF NextReport, Reset, Fault, Answer, Advance, Paying
<1>3. ASSUME NEW p \in Passes, FindRun(p) PROVE Stages'
  BY <1>3, NoneAssumption DEF FindRun, Existing
<1>4. ASSUME NEW p \in Passes, FetchBalances(p) PROVE Stages'
  BY <1>4 DEF FetchBalances, Reset, Fault, Answer, Advance, Paying
<1>5. ASSUME NEW p \in Passes, CreateRun(p) PROVE Stages'
  BY <1>5 DEF CreateRun, Reset, Fault, Answer, Advance, Paying
<1>6. ASSUME NEW p \in Passes, MarkProcessing(p) PROVE Stages'
  BY <1>6 DEF MarkProcessing, Reset, Fault, Answer, Advance, Paying
<1>7. ASSUME NEW p \in Passes, ReadExisting(p) PROVE Stages'
  BY <1>7 DEF ReadExisting, Reset, Fault, Answer, Advance, Paying
<1>8. ASSUME NEW p \in Passes, SkipPaid(p) PROVE Stages'
  BY <1>8 DEF SkipPaid, Reset, Fault, Answer, Advance, Paying
<1>9. ASSUME NEW p \in Passes, CreatePayout(p) PROVE Stages'
  BY <1>9 DEF CreatePayout, Reset, Fault, Answer, Advance, Paying
<1>10. ASSUME NEW p \in Passes, CommitBatch(p) PROVE Stages'
  BY <1>10 DEF CommitBatch, Reset, Fault, Answer, Advance, Paying
<1>11. ASSUME NEW p \in Passes, Finish(p) PROVE Stages'
  BY <1>11 DEF Finish, Reset, Fault, Answer, Advance, Paying
<1>12. ASSUME NEW p \in Passes, StatementFails(p) PROVE Stages'
  BY <1>12 DEF StatementFails, Reset, Fault, Answer, Advance, Paying
<1>13. ASSUME NEW p \in Passes, CreateRunReplyLost(p) PROVE Stages'
  BY <1>13 DEF CreateRunReplyLost, Reset, Fault, Answer, Advance, Paying
<1>14. ASSUME NEW p \in Passes, PayoutFails(p) PROVE Stages'
  <2>1. pc[p] = "pay" /\ run[p] \in Runs
    BY <1>14, FailedAttempt, PayingPosition
  <2>2. ~pooled /\ UNCHANGED <<pooled, run, version, listed, staged, batchFailed>>
    BY <1>14, FailedAttempt
  <2>3. UNCHANGED <<failed, pos, pc>> \/ (failed' = [failed EXCEPT ![p] = @ \union {Investor(p)}] /\ Advance(p))
    BY <1>14, FailedAttempt
  <2>4. pc'[p] = "pay" /\ \A q \in Passes : q # p => UNCHANGED <<pc[q], pos[q], failed[q]>>
    BY <2>1, <2>2, <2>3, AdvanceMoves
  <2> QED
    BY <2>1, <2>2, <2>4
<1>15. ASSUME NEW p \in Passes, BatchFails(p) PROVE Stages'
  <2>1. pooled /\ pc[p] \in {"pay", "commit"} /\ UNCHANGED <<pooled, run, version, listed, failed>>
    BY <1>15 DEF BatchFails, Paying
  <2>2. /\ staged' = [staged EXCEPT ![p] = {}]
        /\ batchFailed' = [batchFailed EXCEPT ![p] = TRUE]
        /\ pos' = [pos EXCEPT ![p] = NextBatch(p)]
        /\ pc' = [pc EXCEPT ![p] = "pay"]
    BY <1>15 DEF BatchFails
  <2> QED
    BY <2>1, <2>2
<1>16. ASSUME NEW p \in Passes, FinishUnrecorded(p) PROVE Stages'
  BY <1>16 DEF FinishUnrecorded, Reset, Fault, Answer, Advance, Paying
<1>17. ASSUME NEW p \in Passes, Crash(p) PROVE Stages'
  BY <1>17 DEF Crash, Reset, Fault, Answer, Advance, Paying
<1>18. CASE ChangeBalances
  BY <1>18 DEF ChangeBalances, Reset, Fault, Answer, Advance, Paying
<1>19. CASE UNCHANGED vars
  BY <1>19 DEF vars, Reset, Fault, Answer, Advance, Paying
<1> QED
  BY <1>1, <1>2, <1>3, <1>4, <1>5, <1>6, <1>7, <1>8, <1>9, <1>10, <1>11, <1>12, <1>13, <1>14, <1>15, <1>16, <1>17, <1>18, <1>19 DEF Next, Step, Failure

-----------------------------------------------------------------------------
(* What a step of one pass does to the others, and to the payouts.         *)

LEMMA OthersStay ==
    ASSUME Types, NEW p \in Passes, Step(p) \/ Failure(p), NEW q \in Passes, q # p
    PROVE  UNCHANGED <<pc[q], run[q], seen[q], version[q], pos[q], listed[q], staged[q], failed[q], batchFailed[q]>>
<1>0. \/ UNCHANGED <<pc, pos>> \/ Advance(p)
      => UNCHANGED <<pc[q], pos[q]>>
  BY AdvanceMoves
<1> USE DEF Types, Goto, table, world, loop, pass, observed, Fault, Reset
<1>1. CASE ListReport(p)
  BY <1>1 DEF ListReport
<1>2. CASE NextReport(p)
  BY <1>2 DEF NextReport
<1>3. CASE FindRun(p)
  BY <1>3 DEF FindRun
<1>4. CASE FetchBalances(p)
  BY <1>4 DEF FetchBalances
<1>5. CASE CreateRun(p)
  BY <1>5 DEF CreateRun
<1>6. CASE MarkProcessing(p)
  BY <1>6 DEF MarkProcessing
<1>7. CASE ReadExisting(p)
  BY <1>7 DEF ReadExisting
<1>8. CASE SkipPaid(p)
  BY <1>8, <1>0 DEF SkipPaid
<1>9. CASE CreatePayout(p)
  BY <1>9, <1>0 DEF CreatePayout
<1>10. CASE CommitBatch(p)
  BY <1>10 DEF CommitBatch
<1>11. CASE Finish(p)
  BY <1>11 DEF Finish, Answer
<1>12. CASE StatementFails(p)
  BY <1>12 DEF StatementFails
<1>13. CASE CreateRunReplyLost(p)
  BY <1>13 DEF CreateRunReplyLost
<1>14. CASE PayoutFails(p)
  BY <1>14, <1>0, FailedAttempt
<1>15. CASE BatchFails(p)
  BY <1>15 DEF BatchFails
<1>16. CASE FinishUnrecorded(p)
  BY <1>16 DEF FinishUnrecorded, Answer
<1>17. CASE Crash(p)
  BY <1>17 DEF Crash
<1> QED
  BY <1>1, <1>2, <1>3, <1>4, <1>5, <1>6, <1>7, <1>8, <1>9, <1>10, <1>11, <1>12, <1>13, <1>14, <1>15, <1>16, <1>17 DEF Step, Failure

\* Payouts are written one by one without a pool, and by COMMIT with one.
LEMMA PayoutWrites ==
    ASSUME Types, Stages, [Next]_vars
    PROVE  \/ payouts' = payouts
           \/ \E p \in Passes :
                 /\ ~pooled /\ Paying(p)
                 /\ payouts' = [payouts EXCEPT ![<<run[p], Investor(p), version[p]>>] = @ + 1]
           \/ \E p \in Passes : pooled /\ pc[p] = "commit" /\ payouts' = WithStaged(p)
<1>1. ASSUME NEW p \in Passes, ListReport(p) PROVE payouts' = payouts
  BY <1>1 DEF ListReport, table
<1>2. ASSUME NEW p \in Passes, NextReport(p) PROVE payouts' = payouts
  BY <1>2 DEF NextReport, table
<1>3. ASSUME NEW p \in Passes, FindRun(p) PROVE payouts' = payouts
  BY <1>3 DEF FindRun, table
<1>4. ASSUME NEW p \in Passes, FetchBalances(p) PROVE payouts' = payouts
  BY <1>4 DEF FetchBalances, table
<1>5. ASSUME NEW p \in Passes, CreateRun(p) PROVE payouts' = payouts
  BY <1>5 DEF CreateRun, table
<1>6. ASSUME NEW p \in Passes, MarkProcessing(p) PROVE payouts' = payouts
  BY <1>6 DEF MarkProcessing, table
<1>7. ASSUME NEW p \in Passes, ReadExisting(p) PROVE payouts' = payouts
  BY <1>7 DEF ReadExisting, table
<1>8. ASSUME NEW p \in Passes, SkipPaid(p) PROVE payouts' = payouts
  BY <1>8 DEF SkipPaid, table
<1>9. ASSUME NEW p \in Passes, CreatePayout(p)
      PROVE  payouts' = payouts \/ (~pooled /\ Paying(p) /\ payouts' = [payouts EXCEPT ![<<run[p], Investor(p), version[p]>>] = @ + 1])
  BY <1>9 DEF CreatePayout
<1>10. ASSUME NEW p \in Passes, CommitBatch(p) PROVE payouts' = payouts \/ (pooled /\ pc[p] = "commit" /\ payouts' = WithStaged(p))
  BY <1>10 DEF CommitBatch, Stages
<1>11. ASSUME NEW p \in Passes, Finish(p) PROVE payouts' = payouts
  BY <1>11 DEF Finish, table
<1>12. ASSUME NEW p \in Passes, StatementFails(p) PROVE payouts' = payouts
  BY <1>12 DEF StatementFails, table
<1>13. ASSUME NEW p \in Passes, CreateRunReplyLost(p) PROVE payouts' = payouts
  BY <1>13 DEF CreateRunReplyLost, table
<1>14. ASSUME NEW p \in Passes, PayoutFails(p)
      PROVE  payouts' = payouts \/ (~pooled /\ Paying(p) /\ payouts' = [payouts EXCEPT ![<<run[p], Investor(p), version[p]>>] = @ + 1])
  BY <1>14, FailedAttempt
<1>15. ASSUME NEW p \in Passes, BatchFails(p) PROVE payouts' = payouts \/ (pooled /\ pc[p] = "commit" /\ payouts' = WithStaged(p))
  BY <1>15 DEF BatchFails, Stages
<1>16. ASSUME NEW p \in Passes, FinishUnrecorded(p) PROVE payouts' = payouts
  BY <1>16 DEF FinishUnrecorded, table
<1>17. ASSUME NEW p \in Passes, Crash(p) PROVE payouts' = payouts
  BY <1>17 DEF Crash, table
<1>18. CASE ChangeBalances
  BY <1>18 DEF ChangeBalances, table
<1>19. CASE UNCHANGED vars
  BY <1>19 DEF vars, table
<1> QED
  BY <1>1, <1>2, <1>3, <1>4, <1>5, <1>6, <1>7, <1>8, <1>9, <1>10, <1>11, <1>12, <1>13, <1>14, <1>15, <1>16, <1>17, <1>18, <1>19 DEF Next, Step, Failure

\* COMMIT pays whom the pass has staged.
LEMMA CommitPays ==
    ASSUME Types, NEW p \in Passes, run[p] \in Runs, payouts' = WithStaged(p), NEW n \in Runs
    PROVE  PaidIn(n)' = IF n = run[p] THEN PaidIn(n) \union staged[p] ELSE PaidIn(n)
<1>1. /\ payouts \in [Runs \X Investors \X Versions -> Nat]
      /\ version[p] \in Versions /\ staged[p] \subseteq Investors
  BY DEF Types
<1>2. ASSUME NEW i \in Investors, NEW v \in Versions
      PROVE  payouts'[<<n, i, v>>] = IF n = run[p] /\ i \in staged[p] /\ v = version[p]
                                     THEN payouts[<<n, i, v>>] + 1 ELSE payouts[<<n, i, v>>]
  BY <1>1 DEF WithStaged
<1>3. ASSUME NEW i \in Investors
      PROVE  i \in PaidIn(n)' <=> i \in PaidIn(n) \/ (n = run[p] /\ i \in staged[p])
  <2>1. \A v \in Versions : payouts[<<n, i, v>>] \in Nat
    BY <1>1
  <2>2. ASSUME NEW v \in Versions, payouts'[<<n, i, v>>] > 0
        PROVE  payouts[<<n, i, v>>] > 0 \/ (n = run[p] /\ i \in staged[p])
    BY <1>2, <2>2
  <2>3. ASSUME NEW v \in Versions, payouts[<<n, i, v>>] > 0
        PROVE  payouts'[<<n, i, v>>] > 0
    BY <1>2, <2>1, <2>3
  <2>4. ASSUME n = run[p], i \in staged[p]
        PROVE  payouts'[<<n, i, version[p]>>] > 0
    BY <1>1, <1>2, <2>1, <2>4
  <2> QED
    BY <1>1, <2>2, <2>3, <2>4 DEF PaidIn
<1> QED
  BY <1>1, <1>3 DEF PaidIn

\* Whom a run has paid stays paid.
LEMMA PaidStays ==
    ASSUME Types, Stages, [Next]_vars, NEW n \in Runs
    PROVE  PaidIn(n) \subseteq PaidIn(n)'
<1>1. CASE payouts' = payouts
  BY <1>1 DEF PaidIn
<1>2. ASSUME NEW p \in Passes, Paying(p),
             payouts' = [payouts EXCEPT ![<<run[p], Investor(p), version[p]>>] = @ + 1]
      PROVE  PaidIn(n) \subseteq PaidIn(n)'
  <2>1. payouts \in [Runs \X Investors \X Versions -> Nat]
    BY DEF Types
  <2>2. \A x \in Runs \X Investors \X Versions : payouts[x] > 0 => payouts'[x] > 0
    BY <1>2, <2>1
  <2> QED
    BY <2>2 DEF PaidIn
<1>3. ASSUME NEW p \in Passes, pc[p] = "commit", payouts' = WithStaged(p)
      PROVE  PaidIn(n) \subseteq PaidIn(n)'
  BY <1>3, CommitPays DEF Stages
<1> QED
  BY <1>1, <1>2, <1>3, PayoutWrites


-----------------------------------------------------------------------------
(* What is recorded and answered is true.                                  *)

\* A pass that goes on to the next share has dealt with this one.
LEMMA ShareIsDealtWith ==
    ASSUME Types, Stages, NEW q \in Passes, AccountsOf(q), Paying(q), Advance(q),
           UNCHANGED <<run[q], version[q], batchFailed[q]>>,
           Investor(q) \in listed'[q] \union failed'[q],
           listed[q] \subseteq listed'[q], failed[q] \subseteq failed'[q], staged[q] \subseteq staged'[q],
           NEW n \in Runs, n = run[q], PaidIn(n) \subseteq PaidIn(n)',
           listed'[q] \subseteq listed[q] \union PaidIn(n)' \union staged'[q]
    PROVE  AccountsOf(q)'
<1> SUFFICES ASSUME ~batchFailed[q] PROVE AccountsOf(q)'
  BY DEF AccountsOf
<1>1. pc[q] = "pay" /\ pos[q] \in Nat /\ pos[q] \in 1 .. Len(Shares(q)) /\ Shares(q)' = Shares(q)
  BY PayingPosition DEF Shares
<1>2. listed[q] \subseteq PaidIn(n) \union staged[q]
  BY NoneAssumption DEF AccountsOf
<1>3. ASSUME NEW m \in 1 .. Len(Shares(q)), Done(q, m)'
      PROVE  m < pos[q] \/ m = pos[q]
  BY <1>1, <1>3, AdvanceMoves DEF Done
<1>4. ASSUME NEW m \in 1 .. Len(Shares(q)), Done(q, m)'
      PROVE  Shares(q)[m] \in listed'[q] \union failed'[q]
  <2>1. CASE m = pos[q]
    BY <2>1 DEF Investor
  <2>2. CASE m < pos[q]
    BY <2>2 DEF AccountsOf, Done
  <2> QED
    BY <1>3, <1>4, <2>1, <2>2
<1>5. listed'[q] \subseteq PaidIn(n)' \union staged'[q]
  BY <1>2
<1> QED
  BY <1>1, <1>4, <1>5 DEF AccountsOf

LEMMA AccountsStep == Types /\ Types' /\ Stages /\ Stages' /\ Accounts /\ [Next]_vars => Accounts'
<1> SUFFICES ASSUME Types, Types', Stages, Stages', Accounts, [Next]_vars, NEW q \in Passes
             PROVE  AccountsOf(q)'
  BY DEF Accounts
<1>0. AccountsOf(q) /\ run[q] \in Runs \union {None}
  BY DEF Accounts, Types
<1>1. ASSUME UNCHANGED <<run[q], version[q], listed[q], staged[q], failed[q], batchFailed[q]>>,
             \A m \in 1 .. Len(Shares(q)) : Done(q, m)' => Done(q, m)
      PROVE  AccountsOf(q)'
  BY <1>0, <1>1, PaidStays DEF AccountsOf, Shares
<1>2. ASSUME UNCHANGED <<run[q], version[q], pos[q], pc[q], listed[q], staged[q], failed[q], batchFailed[q]>>
      PROVE  AccountsOf(q)'
  BY <1>1, <1>2 DEF Done
<1>3. ASSUME pos'[q] = 1, listed'[q] = {}, pc'[q] # "commit"
      PROVE  AccountsOf(q)'
  BY <1>3 DEF AccountsOf, Done
<1>4. ASSUME pc'[q] \in Starting PROVE AccountsOf(q)'
  BY <1>3, <1>4 DEF Stages, Starting
<1>5. ASSUME pc[q] \in Starting, UNCHANGED <<pos, listed>>, pc'[q] # "commit" PROVE AccountsOf(q)'
  BY <1>3, <1>5 DEF Stages
<1>6. ASSUME pc[q] \in Starting, run'[q] \in Runs, pos'[q] = 1, pc'[q] # "commit", UNCHANGED <<payouts, staged>>,
             listed'[q] = PaidIn(run'[q])
      PROVE  AccountsOf(q)'
  BY <1>6 DEF AccountsOf, PaidIn, Done
<1>7. ASSUME NEW p \in Passes, p # q, Step(p) \/ Failure(p) PROVE AccountsOf(q)'
  BY <1>2, <1>7, OthersStay
<1>8. CASE ChangeBalances
  BY <1>2, <1>8 DEF ChangeBalances, table, pass, loop
<1>9. CASE UNCHANGED vars
  BY <1>2, <1>9 DEF vars, table, pass, loop
<1>10. CASE ListReport(q)
  BY <1>4, <1>10 DEF ListReport, Goto, Starting, Types
<1>11. CASE NextReport(q)
  BY <1>4, <1>11 DEF NextReport, Goto, Starting, Types
<1>12. CASE FindRun(q)
  <2>1. pos'[q] = 1 /\ pc[q] \in Starting /\ UNCHANGED <<payouts, staged, pos>>
    BY <1>12 DEF FindRun, Stages, Starting, table
  <2>2. CASE pc'[q] = "balances"
    BY <1>4, <2>2 DEF Starting
  <2>3. CASE pc'[q] # "balances"
    <3>1. PICK n \in Existing : run' = [run EXCEPT ![q] = n] /\ listed' = [listed EXCEPT ![q] = PaidIn(n)] /\ pc'[q] = "ok"
      BY <1>12, <2>3 DEF FindRun, Goto, Types
    <3>2. n \in Runs
      BY DEF Existing
    <3> QED
      BY <1>6, <2>1, <3>1, <3>2 DEF Types
  <2> QED
    BY <2>2, <2>3
<1>13. CASE FetchBalances(q)
  BY <1>4, <1>13 DEF FetchBalances, Goto, Starting, Types
<1>14. CASE CreateRun(q)
  BY <1>4, <1>14 DEF CreateRun, Goto, Starting, Types
<1>15. CASE MarkProcessing(q)
  BY <1>4, <1>15 DEF MarkProcessing, Goto, Starting, Types
<1>16. CASE ReadExisting(q)
  <2>1. pc[q] \in Starting /\ pos'[q] = 1 /\ run'[q] \in Runs /\ pc'[q] = "pay"
    BY <1>16 DEF ReadExisting, Stages, Starting, Goto, Types
  <2>2. UNCHANGED <<payouts, staged, run>> /\ listed'[q] = PaidIn(run[q])
    BY <1>16 DEF ReadExisting, table, Types
  <2> QED
    BY <1>6, <2>1, <2>2
<1>17. CASE SkipPaid(q)
  BY <1>0, <1>17, PayingPosition, PaidStays, ShareIsDealtWith DEF SkipPaid, table
<1>18. CASE CreatePayout(q)
  <2>1. /\ Paying(q) /\ Advance(q)
        /\ UNCHANGED <<run, version, failed, batchFailed>>
        /\ listed' = [listed EXCEPT ![q] = @ \union {Investor(q)}]
    BY <1>18 DEF CreatePayout
  <2>2. /\ listed'[q] = listed[q] \union {Investor(q)}
        /\ run[q] \in Runs /\ version[q] \in Versions /\ Investor(q) \in Investors
    BY <2>1, PayingPosition DEF Types
  <2>3. CASE pooled
    <3>1. staged'[q] = staged[q] \union {Investor(q)}
      BY <1>18, <2>3 DEF CreatePayout, Types
    <3> QED
      BY <1>0, <2>1, <2>2, <3>1, PaidStays, ShareIsDealtWith
  <2>4. CASE ~pooled
    <3>1. staged' = staged /\ payouts' = [payouts EXCEPT ![<<run[q], Investor(q), version[q]>>] = @ + 1]
      BY <1>18, <2>4 DEF CreatePayout
    <3>2. payouts'[<<run[q], Investor(q), version[q]>>] > 0
      BY <2>2, <3>1 DEF Types
    <3>3. ASSUME NEW n \in Runs, n = run[q] PROVE Investor(q) \in PaidIn(n)'
      BY <2>2, <3>2, <3>3 DEF PaidIn
    <3> QED
      BY <1>0, <2>1, <2>2, <3>1, <3>3, PaidStays, ShareIsDealtWith
  <2> QED
    BY <2>3, <2>4
<1>19. CASE CommitBatch(q)
  <2>1. /\ pc[q] = "commit" /\ run[q] \in Runs /\ payouts' = WithStaged(q)
        /\ UNCHANGED <<run, version, listed, failed, batchFailed>>
        /\ staged'[q] = {} /\ pos'[q] = NextBatch(q) /\ pc'[q] = "pay"
    BY <1>19 DEF CommitBatch, Stages, Goto, Types
  <2>2. ASSUME NEW m \in 1 .. Len(Shares(q)), Done(q, m)' PROVE Done(q, m)
    <3>1. pos[q] \in Nat \ {0} /\ pos[q] <= Len(Shares(q)) /\ LastOfBatch(q)
      BY <2>1 DEF Stages, Types
    <3>2. m \in Nat /\ Len(Shares(q)) \in Nat /\ m <= Len(Shares(q)) /\ m < NextBatch(q)
      BY <2>1, <2>2, SharesAreInvestors DEF Done, Types, Shares
    <3>3. CASE pos[q] = Len(Shares(q))
      BY <2>1, <3>1, <3>2, <3>3 DEF Done
    <3>4. CASE pos[q] % BatchSize = 0
      BY <2>1, <3>1, <3>2, <3>4, PositionsGoOn, LastPosition DEF Done
    <3> QED
      BY <3>1, <3>3, <3>4 DEF LastOfBatch
  <2>3. ASSUME NEW n \in Runs, n = run[q] PROVE PaidIn(n)' = PaidIn(n) \union staged[q]
    BY <2>1, <2>3, CommitPays
  <2> QED
    BY <1>0, <2>1, <2>2, <2>3 DEF AccountsOf, Shares
<1>20. CASE Finish(q)
  BY <1>1, <1>20 DEF Finish, Answer, Goto, pass, loop, Done, Types
<1>21. CASE StatementFails(q)
  BY <1>5, <1>21 DEF StatementFails, Goto, pass, loop, Starting, Types
<1>22. CASE CreateRunReplyLost(q)
  BY <1>5, <1>22 DEF CreateRunReplyLost, Goto, Starting, Types
<1>23. CASE PayoutFails(q)
  <2>1. /\ Paying(q) /\ UNCHANGED <<run, version, listed, staged, batchFailed>>
    BY <1>23, FailedAttempt
  <2>2. CASE UNCHANGED <<failed, pos, pc>>
    BY <1>2, <2>1, <2>2
  <2>3. CASE failed' = [failed EXCEPT ![q] = @ \union {Investor(q)}] /\ Advance(q)
    <3>1. failed'[q] = failed[q] \union {Investor(q)} /\ run[q] \in Runs
      BY <2>1, <2>3, PayingPosition DEF Types
    <3> QED
      BY <1>0, <2>1, <2>3, <3>1, PaidStays, ShareIsDealtWith
  <2> QED
    BY <1>23, <2>2, <2>3, FailedAttempt
<1>24. CASE BatchFails(q)
  BY <1>24 DEF BatchFails, AccountsOf, Types
<1>25. CASE FinishUnrecorded(q)
  BY <1>1, <1>25 DEF FinishUnrecorded, Answer, Goto, pass, loop, Done, Types
<1>26. CASE Crash(q)
  BY <1>4, <1>26 DEF Crash, Goto, Starting, Types
<1> QED
  BY <1>7, <1>8, <1>9, <1>10, <1>11, <1>12, <1>13, <1>14, <1>15, <1>16, <1>17, <1>18, <1>19, <1>20,
     <1>21, <1>22, <1>23, <1>24, <1>25, <1>26 DEF Next, Step, Failure


\* A run is completed by a pass that has dealt with all shares and failed at none.
LEMMA WhoCompletes ==
    ASSUME Types, [Next]_vars, NEW n \in Runs, status'[n] = "completed", status[n] # "completed"
    PROVE  \E p \in Passes : Finish(p) /\ n = run[p] /\ FinalStatus(p) = "completed"
<1> USE DEF Types, table
<1>1. ASSUME NEW p \in Passes, ListReport(p) PROVE FALSE
  BY <1>1 DEF ListReport
<1>2. ASSUME NEW p \in Passes, NextReport(p) PROVE FALSE
  BY <1>2 DEF NextReport
<1>3. ASSUME NEW p \in Passes, FindRun(p) PROVE FALSE
  BY <1>3 DEF FindRun
<1>4. ASSUME NEW p \in Passes, FetchBalances(p) PROVE FALSE
  BY <1>4 DEF FetchBalances
<1>5. ASSUME NEW p \in Passes, CreateRun(p) PROVE FALSE
  BY <1>5 DEF CreateRun
<1>6. ASSUME NEW p \in Passes, MarkProcessing(p) PROVE FALSE
  BY <1>6 DEF MarkProcessing
<1>7. ASSUME NEW p \in Passes, ReadExisting(p) PROVE FALSE
  BY <1>7 DEF ReadExisting
<1>8. ASSUME NEW p \in Passes, SkipPaid(p) PROVE FALSE
  BY <1>8 DEF SkipPaid
<1>9. ASSUME NEW p \in Passes, CreatePayout(p) PROVE FALSE
  BY <1>9 DEF CreatePayout
<1>10. ASSUME NEW p \in Passes, CommitBatch(p) PROVE FALSE
  BY <1>10 DEF CommitBatch
<1>11. ASSUME NEW p \in Passes, Finish(p) PROVE n = run[p] /\ FinalStatus(p) = "completed"
  BY <1>11 DEF Finish
<1>12. ASSUME NEW p \in Passes, StatementFails(p) PROVE FALSE
  BY <1>12 DEF StatementFails
<1>13. ASSUME NEW p \in Passes, CreateRunReplyLost(p) PROVE FALSE
  BY <1>13 DEF CreateRunReplyLost
<1>14. ASSUME NEW p \in Passes, PayoutFails(p) PROVE FALSE
  BY <1>14, FailedAttempt
<1>15. ASSUME NEW p \in Passes, BatchFails(p) PROVE FALSE
  BY <1>15 DEF BatchFails
<1>16. ASSUME NEW p \in Passes, FinishUnrecorded(p) PROVE FALSE
  BY <1>16 DEF FinishUnrecorded
<1>17. ASSUME NEW p \in Passes, Crash(p) PROVE FALSE
  BY <1>17 DEF Crash
<1>18. CASE ChangeBalances
  BY <1>18 DEF ChangeBalances
<1>19. CASE UNCHANGED vars
  BY <1>19 DEF vars
<1> QED
  BY <1>1, <1>2, <1>3, <1>4, <1>5, <1>6, <1>7, <1>8, <1>9, <1>10, <1>11, <1>12, <1>13, <1>14, <1>15, <1>16, <1>17, <1>18, <1>19 DEF Next, Step, Failure

LEMMA CompletedStep ==
    Types /\ Types' /\ Stages /\ Accounts /\ CompletedIsFullyPaid /\ [Next]_vars => CompletedIsFullyPaid'
<1> SUFFICES ASSUME Types, Types', Stages, Accounts, CompletedIsFullyPaid, [Next]_vars,
                    NEW n \in Runs, status'[n] = "completed"
             PROVE  \E v \in Versions : ToSet(Ledger[v]) \subseteq PaidIn(n)'
  BY DEF CompletedIsFullyPaid
<1>1. CASE status[n] = "completed"
  BY <1>1, PaidStays DEF CompletedIsFullyPaid
<1>2. CASE status[n] # "completed"
  <2>1. PICK p \in Passes : Finish(p) /\ n = run[p] /\ FinalStatus(p) = "completed"
    BY <1>2, WhoCompletes
  <2>2. /\ pos[p] > Len(Shares(p)) /\ pos[p] \in Nat /\ version[p] \in Versions
        /\ failed[p] = {} /\ ~batchFailed[p]
    BY <2>1 DEF Finish, FinalStatus, Types
  <2>3. staged[p] = {}
    BY <2>2, SharesAreInvestors DEF Stages, Shares
  <2>4. AccountsOf(p) /\ n # None
    BY NoneAssumption DEF Accounts
  <2>5. \A m \in 1 .. Len(Shares(p)) : Shares(p)[m] \in listed[p]
    BY <2>2, <2>4, SharesAreInvestors DEF AccountsOf, Done, Shares
  <2>6. listed[p] \subseteq PaidIn(n)
    BY <2>1, <2>2, <2>3, <2>4 DEF AccountsOf
  <2>7. ToSet(Ledger[version[p]]) \subseteq PaidIn(n)
    <3>1. ToSet(Shares(p)) = {Shares(p)[m] : m \in 1 .. Len(Shares(p))}
      BY <2>2, SharesAreInvestors DEF Shares
    <3> QED
      BY <2>5, <2>6, <3>1 DEF Shares
  <2> QED
    BY <2>2, <2>7, PaidStays
<1> QED
  BY <1>1, <1>2

LEMMA AnswersFollow == Types /\ Stages /\ Accounts => AnswersAccountForAll
<1> SUFFICES ASSUME Types, Stages, Accounts, NEW p \in Passes, ~pooled, pc[p] \in {"ok", "error"}, run[p] # None
             PROVE  /\ listed[p] \subseteq PaidIn(run[p])
                    /\ pos[p] > Len(Shares(p)) => ToSet(Shares(p)) \subseteq listed[p] \union failed[p]
  BY DEF AnswersAccountForAll
<1>1. staged[p] = {} /\ ~batchFailed[p] /\ version[p] \in Versions /\ pos[p] \in Nat
  BY DEF Stages, Types
<1>2. AccountsOf(p)
  BY DEF Accounts
<1>3. listed[p] \subseteq PaidIn(run[p])
  BY <1>1, <1>2 DEF AccountsOf
<1>4. ASSUME pos[p] > Len(Shares(p)) PROVE ToSet(Shares(p)) \subseteq listed[p] \union failed[p]
  <2>1. Len(Shares(p)) \in Nat /\ ToSet(Shares(p)) = {Shares(p)[m] : m \in 1 .. Len(Shares(p))}
    BY <1>1, SharesAreInvestors DEF Shares
  <2>2. \A m \in 1 .. Len(Shares(p)) : Shares(p)[m] \in listed[p] \union failed[p]
    BY <1>1, <1>2, <1>4, <2>1 DEF AccountsOf, Done
  <2> QED
    BY <2>1, <2>2
<1> QED
  BY <1>3, <1>4

-----------------------------------------------------------------------------
(* Transactional batches are written whole.                                *)

\* Investors of the same batch have been paid alike in every run.
PaidAlike ==
    \A n \in Runs : \A l, m \in 1 .. Len(Ledger[1]) : InBatch(l) = InBatch(m) =>
        \A v \in Versions : payouts[<<n, Ledger[1][l], v>>] = payouts[<<n, Ledger[1][m], v>>]

\* The batches ahead of a pass are listed as a whole or not at all; so was the one
\* it is in, and of that one it has staged what it has been through.
BatchesOf(p) ==
    pc[p] \in {"pay", "commit"} =>
        /\ \A l, m \in 1 .. Len(Ledger[1]) : InBatch(l) = InBatch(m) /\ InBatch(pos[p]) < InBatch(m) =>
              (Ledger[1][l] \in listed[p] <=> Ledger[1][m] \in listed[p])
        /\ \/ /\ staged[p] = {}
              /\ \A m \in 1 .. Len(Ledger[1]) : InBatch(m) = InBatch(pos[p]) => Ledger[1][m] \in listed[p]
           \/ \A m \in 1 .. Len(Ledger[1]) :
                 /\ Ledger[1][m] \in staged[p] <=> InBatch(m) = InBatch(pos[p]) /\ Done(p, m)
                 /\ InBatch(m) = InBatch(pos[p]) => (Ledger[1][m] \in listed[p] <=> Done(p, m))

Batches == pooled /\ balances = 1 => PaidAlike /\ \A p \in Passes : version[p] = 1 /\ BatchesOf(p)

\* A pass that commits has been through its batch.
LEMMA BatchIsDone ==
    ASSUME Types, Stages, NEW p \in Passes, version[p] = 1, pc[p] = "commit",
           NEW m \in 1 .. Len(Ledger[1]), InBatch(m) = InBatch(pos[p])
    PROVE  Done(p, m)
<1>1. /\ m \in Nat \ {0} /\ m <= Len(Ledger[1]) /\ pos[p] \in Nat \ {0} /\ Len(Ledger[1]) \in Nat
      /\ pos[p] = Len(Ledger[1]) \/ pos[p] % BatchSize = 0
  BY SharesAreInvestors, FirstVersion DEF Types, Stages, LastOfBatch, Shares
<1>2. CASE pos[p] = Len(Ledger[1])
  BY <1>1, <1>2 DEF Done
<1>3. CASE pos[p] % BatchSize = 0
  <2>1. InBatch(m) * BatchSize + BatchSize = pos[p]
    BY <1>1, <1>3, LastPosition
  <2> QED
    BY <1>1, <2>1, BatchBounds DEF Done
<1> QED
  BY <1>1, <1>2, <1>3

\* COMMIT pays the investors of a batch alike.
LEMMA CommitIsWhole ==
    ASSUME Types, Stages, PaidAlike, NEW p \in Passes, version[p] = 1, BatchesOf(p),
           pc[p] = "commit", payouts' = WithStaged(p)
    PROVE  PaidAlike'
<1> SUFFICES ASSUME NEW n \in Runs, NEW l \in 1 .. Len(Ledger[1]), NEW m \in 1 .. Len(Ledger[1]),
                    InBatch(l) = InBatch(m), NEW v \in Versions
             PROVE  payouts'[<<n, Ledger[1][l], v>>] = payouts'[<<n, Ledger[1][m], v>>]
  BY DEF PaidAlike
<1>1. Ledger[1][l] \in Investors /\ Ledger[1][m] \in Investors
  BY SharesAreInvestors, FirstVersion
<1>2. Ledger[1][l] \in staged[p] <=> Ledger[1][m] \in staged[p]
  BY BatchIsDone DEF BatchesOf
<1>3. payouts \in [Runs \X Investors \X Versions -> Nat]
  BY DEF Types
<1>4. payouts[<<n, Ledger[1][l], v>>] = payouts[<<n, Ledger[1][m], v>>]
  BY DEF PaidAlike
<1>5. \A i \in Investors : payouts'[<<n, i, v>>] =
          IF n = run[p] /\ i \in staged[p] /\ v = version[p] THEN payouts[<<n, i, v>>] + 1 ELSE payouts[<<n, i, v>>]
  BY <1>3 DEF WithStaged
<1> QED
  BY <1>1, <1>2, <1>4, <1>5

\* A pass begins a batch.
LEMMA BatchBegins ==
    ASSUME Types, Types', NEW q \in Passes, pc'[q] = "pay", staged'[q] = {},
           \A m \in 1 .. Len(Ledger[1]) : InBatch(m) = InBatch(pos'[q]) => ~(m < pos'[q]),
           \A l, m \in 1 .. Len(Ledger[1]) : InBatch(l) = InBatch(m) /\ InBatch(pos'[q]) <= InBatch(m) =>
              (Ledger[1][l] \in listed'[q] <=> Ledger[1][m] \in listed'[q])
    PROVE  BatchesOf(q)'
<1>1. pos'[q] \in Nat \ {0} /\ InBatch(pos'[q]) \in Nat
  BY BatchBounds DEF Types
<1>2. \A m \in 1 .. Len(Ledger[1]) : InBatch(m) \in Nat
  BY BatchBounds
<1>3. \A m \in 1 .. Len(Ledger[1]) : InBatch(m) = InBatch(pos'[q]) => ~Done(q, m)'
  BY DEF Done
<1>4. InBatch(pos[q])' = InBatch(pos'[q])
  BY DEF InBatch
<1>5. \A l, m \in 1 .. Len(Ledger[1]) : InBatch(l) = InBatch(m) /\ InBatch(pos'[q]) < InBatch(m) =>
              (Ledger[1][l] \in listed'[q] <=> Ledger[1][m] \in listed'[q])
  BY <1>1, <1>2
<1>6. CASE \A m \in 1 .. Len(Ledger[1]) : InBatch(m) = InBatch(pos'[q]) => Ledger[1][m] \in listed'[q]
  BY <1>4, <1>5, <1>6 DEF BatchesOf
<1>7. CASE \E m \in 1 .. Len(Ledger[1]) : InBatch(m) = InBatch(pos'[q]) /\ Ledger[1][m] \notin listed'[q]
  <2>1. \A m \in 1 .. Len(Ledger[1]) : InBatch(m) = InBatch(pos'[q]) => Ledger[1][m] \notin listed'[q]
    BY <1>1, <1>7
  <2> QED
    BY <1>3, <1>4, <1>5, <2>1 DEF BatchesOf
<1> QED
  BY <1>6, <1>7

\* So does one that leaves a batch behind.
LEMMA NextBatchBegins ==
    ASSUME Types, Types', NEW q \in Passes, pc[q] \in {"pay", "commit"}, BatchesOf(q),
           pc'[q] = "pay", staged'[q] = {}, pos'[q] = NextBatch(q), listed'[q] = listed[q]
    PROVE  BatchesOf(q)'
<1>1. pos[q] \in Nat \ {0} /\ InBatch(pos[q]) \in Nat
  BY BatchBounds DEF Types
<1>2. NextBatch(q) - 1 = (InBatch(pos[q]) + 1) * BatchSize
  BY <1>1, PositionsGoOn, SizesAssumption
<1>3. InBatch(pos'[q]) = InBatch(pos[q]) + 1
  BY <1>1, <1>2, SizesAssumption DEF InBatch
<1>4. ASSUME NEW m \in 1 .. Len(Ledger[1]), InBatch(m) = InBatch(pos'[q]) PROVE ~(m < pos'[q])
  <2>1. m \in Nat \ {0} /\ InBatch(pos[q]) < InBatch(m) /\ InBatch(m) \in Nat /\ InBatch(m) * BatchSize < m
    BY <1>1, <1>3, <1>4, BatchBounds
  <2>2. InBatch(pos[q]) * BatchSize + BatchSize <= InBatch(m) * BatchSize
    BY <1>1, <2>1, BatchBounds, Multiples
  <2>3. InBatch(pos[q]) * BatchSize \in Nat /\ InBatch(m) * BatchSize \in Nat
    BY <1>1, <2>1, Products
  <2> QED
    BY <2>1, <2>2, <2>3, PositionsGoOn, SizesAssumption
<1>5. \A m \in 1 .. Len(Ledger[1]) : InBatch(m) \in Nat
  BY BatchBounds
<1>6. \A l, m \in 1 .. Len(Ledger[1]) : InBatch(l) = InBatch(m) /\ InBatch(pos'[q]) <= InBatch(m) =>
              (Ledger[1][l] \in listed'[q] <=> Ledger[1][m] \in listed'[q])
  BY <1>1, <1>3, <1>5 DEF BatchesOf
<1> QED
  BY <1>4, <1>6, BatchBegins

\* A pass that goes on stays in its batch.
LEMMA AdvanceInBatch ==
    ASSUME Types, Stages, pooled, NEW q \in Passes, version[q] = 1, Paying(q), Advance(q)
    PROVE  /\ InBatch(pos'[q]) = InBatch(pos[q]) /\ pc'[q] \in {"pay", "commit"}
           /\ \A m \in 1 .. Len(Ledger[1]) : Done(q, m)' <=> Done(q, m) \/ m = pos[q]
           /\ pc[q] = "pay" /\ pos[q] \in 1 .. Len(Ledger[1]) /\ Investor(q) = Ledger[1][pos[q]]
<1>1. pc[q] = "pay" /\ pos[q] \in 1 .. Len(Ledger[1]) /\ Investor(q) = Ledger[1][pos[q]] /\ pos[q] \in Nat \ {0}
  BY PayingPosition DEF Shares, Investor
<1>2. CASE LastOfBatch(q)
  BY <1>1, <1>2, AdvanceMoves DEF Done
<1>3. CASE ~LastOfBatch(q)
  <2>1. pos[q] % BatchSize # 0 /\ pc'[q] = "pay" /\ pos'[q] = pos[q] + 1
    BY <1>1, <1>3, AdvanceMoves DEF LastOfBatch
  <2> QED
    BY <1>1, <2>1, NextPosition DEF Done
<1> QED
  BY <1>2, <1>3


LEMMA PoolStays == Types /\ [Next]_vars => UNCHANGED <<pooled, balances>> \/ ChangeBalances
<1> SUFFICES ASSUME Types, [Next]_vars, ~ChangeBalances PROVE UNCHANGED <<pooled, balances>>
  OBVIOUS
<1> USE DEF world
<1>1. ASSUME NEW p \in Passes, ListReport(p) PROVE UNCHANGED <<pooled, balances>>
  BY <1>1 DEF ListReport
<1>2. ASSUME NEW p \in Passes, NextReport(p) PROVE UNCHANGED <<pooled, balances>>
  BY <1>2 DEF NextReport
<1>3. ASSUME NEW p \in Passes, FindRun(p) PROVE UNCHANGED <<pooled, balances>>
  BY <1>3 DEF FindRun
<1>4. ASSUME NEW p \in Passes, FetchBalances(p) PROVE UNCHANGED <<pooled, balances>>
  BY <1>4 DEF FetchBalances
<1>5. ASSUME NEW p \in Passes, CreateRun(p) PROVE UNCHANGED <<pooled, balances>>
  BY <1>5 DEF CreateRun
<1>6. ASSUME NEW p \in Passes, MarkProcessing(p) PROVE UNCHANGED <<pooled, balances>>
  BY <1>6 DEF MarkProcessing
<1>7. ASSUME NEW p \in Passes, ReadExisting(p) PROVE UNCHANGED <<pooled, balances>>
  BY <1>7 DEF ReadExisting
<1>8. ASSUME NEW p \in Passes, SkipPaid(p) PROVE UNCHANGED <<pooled, balances>>
  BY <1>8 DEF SkipPaid
<1>9. ASSUME NEW p \in Passes, CreatePayout(p) PROVE UNCHANGED <<pooled, balances>>
  BY <1>9 DEF CreatePayout
<1>10. ASSUME NEW p \in Passes, CommitBatch(p) PROVE UNCHANGED <<pooled, balances>>
  BY <1>10 DEF CommitBatch
<1>11. ASSUME NEW p \in Passes, Finish(p) PROVE UNCHANGED <<pooled, balances>>
  BY <1>11 DEF Finish
<1>12. ASSUME NEW p \in Passes, StatementFails(p) PROVE UNCHANGED <<pooled, balances>>
  BY <1>12 DEF StatementFails
<1>13. ASSUME NEW p \in Passes, CreateRunReplyLost(p) PROVE UNCHANGED <<pooled, balances>>
  BY <1>13 DEF CreateRunReplyLost
<1>14. ASSUME NEW p \in Passes, PayoutFails(p) PROVE UNCHANGED <<pooled, balances>>
  BY <1>14, FailedAttempt DEF PayoutFails
<1>15. ASSUME NEW p \in Passes, BatchFails(p) PROVE UNCHANGED <<pooled, balances>>
  BY <1>15 DEF BatchFails
<1>16. ASSUME NEW p \in Passes, FinishUnrecorded(p) PROVE UNCHANGED <<pooled, balances>>
  BY <1>16 DEF FinishUnrecorded
<1>17. ASSUME NEW p \in Passes, Crash(p) PROVE UNCHANGED <<pooled, balances>>
  BY <1>17 DEF Crash
<1>18. CASE UNCHANGED vars
  BY <1>18 DEF vars
<1> QED
  BY <1>1, <1>2, <1>3, <1>4, <1>5, <1>6, <1>7, <1>8, <1>9, <1>10, <1>11, <1>12, <1>13, <1>14, <1>15, <1>16, <1>17, <1>18 DEF Next, Step, Failure

LEMMA BatchesStep == Types /\ Types' /\ Stages /\ Batches /\ [Next]_vars => Batches'
<1> SUFFICES ASSUME Types, Types', Stages, Batches, [Next]_vars, pooled', balances' = 1
             PROVE  PaidAlike' /\ \A p \in Passes : version'[p] = 1 /\ BatchesOf(p)'
  BY DEF Batches
<1>1. pooled /\ balances = 1 /\ ~ChangeBalances
  <2>1. balances \in Nat \ {0}
    BY DEF Types, Versions
  <2>2. ChangeBalances => balances' = balances + 1
    BY Zenon DEF ChangeBalances
  <2>3. ~ChangeBalances
    BY <2>1, <2>2
  <2> QED
    BY <2>3, PoolStays
<1>2. PaidAlike /\ \A p \in Passes : version[p] = 1 /\ BatchesOf(p)
  BY <1>1 DEF Batches
<1>3. PaidAlike'
  <2>1. CASE payouts' = payouts
    BY <1>2, <2>1 DEF PaidAlike
  <2>2. CASE payouts' # payouts
    BY <1>1, <1>2, <2>2, PayoutWrites, CommitIsWhole
  <2> QED
    BY <2>1, <2>2
<1> SUFFICES ASSUME NEW q \in Passes PROVE version'[q] = 1 /\ BatchesOf(q)'
  BY <1>3
<1>4. ASSUME UNCHANGED <<pc[q], version[q], pos[q], listed[q], staged[q]>>
      PROVE  version'[q] = 1 /\ BatchesOf(q)'
  BY <1>2, <1>4 DEF BatchesOf, Done, InBatch
<1>5. ASSUME version'[q] = 1, pc'[q] \notin {"pay", "commit"}
      PROVE  version'[q] = 1 /\ BatchesOf(q)'
  BY <1>5 DEF BatchesOf
<1>6. ASSUME NEW p \in Passes, p # q, Step(p) \/ Failure(p) PROVE version'[q] = 1 /\ BatchesOf(q)'
  BY <1>4, <1>6, OthersStay
<1>7. CASE UNCHANGED vars
  BY <1>4, <1>7 DEF vars, pass, loop
<1>8. CASE ListReport(q)
  BY <1>2, <1>5, <1>8 DEF ListReport, Goto, Types
<1>9. CASE NextReport(q)
  BY <1>5, <1>9 DEF NextReport, Reset, Goto, Types
<1>10. CASE FindRun(q)
  <2>1. UNCHANGED version /\ pc'[q] \in {"balances", "ok"}
    BY <1>10 DEF FindRun, Goto, Types
  <2> QED
    BY <1>2, <1>5, <2>1
<1>11. CASE FetchBalances(q)
  BY <1>1, <1>5, <1>11 DEF FetchBalances, Goto, Types
<1>12. CASE CreateRun(q)
  BY <1>2, <1>5, <1>12 DEF CreateRun, Goto, Types
<1>13. CASE MarkProcessing(q)
  BY <1>2, <1>5, <1>13 DEF MarkProcessing, Goto, pass, Types
<1>14. CASE ReadExisting(q)
  <2>1. /\ pc[q] = "existing" /\ pc'[q] = "pay" /\ version'[q] = 1
        /\ pos'[q] = 1 /\ staged'[q] = {} /\ run[q] \in Runs /\ listed'[q] = PaidIn(run[q])
    BY <1>2, <1>14 DEF ReadExisting, Goto, Types, Stages, Starting
  <2>2. \A m \in 1 .. Len(Ledger[1]) : Ledger[1][m] \in Investors /\ ~(m < 1)
    BY SharesAreInvestors, FirstVersion
  <2>3. \A l, m \in 1 .. Len(Ledger[1]) : InBatch(l) = InBatch(m) =>
            (Ledger[1][l] \in listed'[q] <=> Ledger[1][m] \in listed'[q])
    <3>1. \A m \in 1 .. Len(Ledger[1]) :
              Ledger[1][m] \in listed'[q] <=> \E v \in Versions : payouts[<<run[q], Ledger[1][m], v>>] > 0
      BY <2>1, <2>2 DEF PaidIn
    <3> QED
      <4> SUFFICES ASSUME NEW l \in 1 .. Len(Ledger[1]), NEW m \in 1 .. Len(Ledger[1]), InBatch(l) = InBatch(m)
                   PROVE  Ledger[1][l] \in listed'[q] <=> Ledger[1][m] \in listed'[q]
        OBVIOUS
      <4>1. \A v \in Versions : payouts[<<run[q], Ledger[1][l], v>>] = payouts[<<run[q], Ledger[1][m], v>>]
        BY <1>2, <2>1 DEF PaidAlike
      <4> QED
        BY <3>1, <4>1
  <2> QED
    BY <2>1, <2>2, <2>3, BatchBegins
<1>15. CASE SkipPaid(q)
  <2>1. /\ Paying(q) /\ Advance(q) /\ Investor(q) \in listed[q]
        /\ UNCHANGED <<listed, staged, version>>
    BY <1>15 DEF SkipPaid
  <2>2. /\ InBatch(pos'[q]) = InBatch(pos[q])
        /\ pc[q] = "pay" /\ pos[q] \in 1 .. Len(Ledger[1]) /\ Investor(q) = Ledger[1][pos[q]] /\ pos[q] \in Int
    BY <1>1, <1>2, <2>1, AdvanceInBatch
  <2>3. ~Done(q, pos[q])
    BY <2>2 DEF Done
  <2>4. /\ staged[q] = {}
        /\ \A m \in 1 .. Len(Ledger[1]) : InBatch(m) = InBatch(pos[q]) => Ledger[1][m] \in listed[q]
    BY <1>2, <2>1, <2>2, <2>3 DEF BatchesOf
  <2>5. \A l, m \in 1 .. Len(Ledger[1]) : InBatch(l) = InBatch(m) /\ InBatch(pos[q]) < InBatch(m) =>
              (Ledger[1][l] \in listed[q] <=> Ledger[1][m] \in listed[q])
    BY <1>2, <2>2 DEF BatchesOf
  <2>6. InBatch(pos[q])' = InBatch(pos'[q])
    BY DEF InBatch
  <2> QED
    BY <1>2, <2>1, <2>2, <2>4, <2>5, <2>6 DEF BatchesOf
<1>16. CASE CreatePayout(q)
  <2>1. /\ Paying(q) /\ Advance(q) /\ Investor(q) \notin listed[q] /\ UNCHANGED version
        /\ listed' = [listed EXCEPT ![q] = @ \union {Investor(q)}]
        /\ staged' = [staged EXCEPT ![q] = @ \union {Investor(q)}]
    BY <1>1, <1>16 DEF CreatePayout
  <2>2. /\ InBatch(pos'[q]) = InBatch(pos[q]) /\ pc'[q] \in {"pay", "commit"}
        /\ \A m \in 1 .. Len(Ledger[1]) : Done(q, m)' <=> Done(q, m) \/ m = pos[q]
        /\ pc[q] = "pay" /\ pos[q] \in 1 .. Len(Ledger[1]) /\ Investor(q) = Ledger[1][pos[q]]
    BY <1>1, <1>2, <2>1, AdvanceInBatch
  <2>3. \A m \in 1 .. Len(Ledger[1]) :
           /\ Ledger[1][m] \in staged[q] <=> InBatch(m) = InBatch(pos[q]) /\ Done(q, m)
           /\ InBatch(m) = InBatch(pos[q]) => (Ledger[1][m] \in listed[q] <=> Done(q, m))
    BY <1>2, <2>1, <2>2 DEF BatchesOf
  <2>4. \A m \in 1 .. Len(Ledger[1]) :
           /\ Ledger[1][m] \in listed'[q] <=> Ledger[1][m] \in listed[q] \/ m = pos[q]
           /\ Ledger[1][m] \in staged'[q] <=> Ledger[1][m] \in staged[q] \/ m = pos[q]
    <3>1. listed'[q] = listed[q] \union {Investor(q)} /\ staged'[q] = staged[q] \union {Investor(q)}
      BY <2>1 DEF Types
    <3>2. \A m \in 1 .. Len(Ledger[1]) : Ledger[1][m] = Ledger[1][pos[q]] => m = pos[q]
      BY <2>2, HoldersAssumption, FirstVersion
    <3> QED
      BY <2>2, <3>1, <3>2
  <2>5. InBatch(pos[q])' = InBatch(pos[q]) /\ InBatch(pos[q]) \in Nat /\ \A m \in 1 .. Len(Ledger[1]) : InBatch(m) \in Nat
    <3>1. InBatch(pos[q])' = InBatch(pos'[q])
      BY DEF InBatch
    <3> QED
      BY <2>2, <3>1, BatchBounds
  <2>6. ASSUME NEW m \in 1 .. Len(Ledger[1])
        PROVE  /\ Ledger[1][m] \in staged'[q] <=> InBatch(m) = InBatch(pos[q])' /\ Done(q, m)'
               /\ InBatch(m) = InBatch(pos[q])' => (Ledger[1][m] \in listed'[q] <=> Done(q, m)')
    BY <2>2, <2>3, <2>4, <2>5
  <2>7. ASSUME NEW l \in 1 .. Len(Ledger[1]), NEW m \in 1 .. Len(Ledger[1]),
               InBatch(l) = InBatch(m), InBatch(pos[q])' < InBatch(m)
        PROVE  Ledger[1][l] \in listed'[q] <=> Ledger[1][m] \in listed'[q]
    <3>1. l # pos[q] /\ m # pos[q]
      BY <2>5, <2>7
    <3>2. Ledger[1][l] \in listed[q] <=> Ledger[1][m] \in listed[q]
      BY <1>2, <2>2, <2>5, <2>7 DEF BatchesOf
    <3> QED
      BY <2>4, <3>1, <3>2
  <2> QED
    BY <1>2, <2>1, <2>6, <2>7 DEF BatchesOf
<1>17. CASE CommitBatch(q)
  <2>1. /\ pc[q] = "commit" /\ pc'[q] = "pay" /\ UNCHANGED <<version, listed>>
        /\ staged'[q] = {} /\ pos'[q] = NextBatch(q)
    BY <1>17 DEF CommitBatch, Goto, Types
  <2> QED
    BY <1>2, <2>1, NextBatchBegins
<1>18. CASE Finish(q)
  BY <1>2, <1>5, <1>18 DEF Finish, Answer, Goto, pass, Types
<1>19. CASE StatementFails(q)
  BY <1>2, <1>5, <1>19 DEF StatementFails, Goto, pass, Types
<1>20. CASE CreateRunReplyLost(q)
  BY <1>2, <1>5, <1>20 DEF CreateRunReplyLost, Goto, Types
<1>21. CASE PayoutFails(q)
  BY <1>1, <1>21, FailedAttempt
<1>22. CASE BatchFails(q)
  <2>1. /\ pc[q] \in {"pay", "commit"} /\ pc'[q] = "pay" /\ UNCHANGED <<version, listed>>
        /\ staged'[q] = {} /\ pos'[q] = NextBatch(q)
    BY <1>22 DEF BatchFails, Paying, Goto, Types
  <2> QED
    BY <1>2, <2>1, NextBatchBegins
<1>23. CASE FinishUnrecorded(q)
  BY <1>2, <1>5, <1>23 DEF FinishUnrecorded, Answer, Goto, pass, Types
<1>24. CASE Crash(q)
  BY <1>5, <1>24 DEF Crash, Reset, Goto, Types
<1> QED
  BY <1>1, <1>6, <1>7, <1>8, <1>9, <1>10, <1>11, <1>12, <1>13, <1>14, <1>15, <1>16, <1>17, <1>18, <1>19, <1>20,
     <1>21, <1>22, <1>23, <1>24 DEF Next, Step, Failure

LEMMA WholeBatches == Types /\ Batches => BatchesAreAtomic
<1> SUFFICES ASSUME Types, PaidAlike, NEW n \in Runs, NEW k \in 0 .. Len(Ledger[1]),
                    NEW i \in BatchOf(1, k), NEW j \in BatchOf(1, k), NEW v \in Versions
             PROVE  payouts[<<n, i, v>>] = payouts[<<n, j, v>>]
  BY DEF BatchesAreAtomic, Batches
<1>1. PICK l \in 1 .. Len(Ledger[1]) : i = Ledger[1][l] /\ (l - 1) \div BatchSize = k
  BY DEF BatchOf
<1>2. PICK m \in 1 .. Len(Ledger[1]) : j = Ledger[1][m] /\ (m - 1) \div BatchSize = k
  BY DEF BatchOf
<1> QED
  BY <1>1, <1>2 DEF PaidAlike, InBatch

-----------------------------------------------------------------------------
(* Passes that do not overlap pay everybody once.                          *)

Alone == ~overlapped => \A p, q \in Passes : pc[p] # "idle" /\ pc[q] # "idle" => p = q

\* A pass that is alone lists whom its run has paid, and stages nobody else.
OnceOf(p) ==
    pc[p] \in {"pay", "commit"} =>
        /\ PaidIn(run[p]) \subseteq listed[p] /\ staged[p] \subseteq listed[p]
        /\ staged[p] \intersect PaidIn(run[p]) = {}
Once == pooled /\ ~overlapped => NoDuplicatePayouts /\ \A p \in Passes : OnceOf(p)

\* While no passes have overlapped, whoever acts does so alone.
LEMMA ActsAlone ==
    ASSUME Types, Alone, ~overlapped', NEW p \in Passes, Step(p) \/ Failure(p)
    PROVE  ~overlapped /\ \A q \in Passes : q # p => pc[q] = "idle"
<1>1. CASE ListReport(p)
  BY <1>1 DEF ListReport, NoteOverlap
<1>2. CASE ~ListReport(p)
  <2>1. pc[p] # "idle"
    BY <1>2, FailedAttempt, Zenon DEF Step, Failure, NextReport, FindRun, FetchBalances, CreateRun, MarkProcessing, ReadExisting,
       SkipPaid, CreatePayout, CommitBatch, Finish, StatementFails, CreateRunReplyLost, PayoutFails, BatchFails,
       FinishUnrecorded, Crash, Paying
  <2>2. UNCHANGED overlapped
    BY <1>2, FailedAttempt DEF Step, Failure, NextReport, FindRun, FetchBalances, CreateRun, MarkProcessing, ReadExisting,
       SkipPaid, CreatePayout, CommitBatch, Finish, StatementFails, CreateRunReplyLost, PayoutFails, BatchFails,
       FinishUnrecorded, Crash, Fault, observed
  <2> QED
    BY <2>1, <2>2 DEF Alone
<1> QED
  BY <1>1, <1>2


LEMMA AloneStep == Types /\ Types' /\ Alone /\ [Next]_vars => Alone'
<1> SUFFICES ASSUME Types, Types', Alone, [Next]_vars, ~overlapped'
             PROVE  \A r, q \in Passes : pc'[r] # "idle" /\ pc'[q] # "idle" => r = q
  BY DEF Alone
<1>1. CASE UNCHANGED <<pc, overlapped>>
  BY <1>1 DEF Alone
<1>2. ASSUME NEW p \in Passes, Step(p) \/ Failure(p)
      PROVE  \A r, q \in Passes : pc'[r] # "idle" /\ pc'[q] # "idle" => r = q
  <2>1. \A q \in Passes : q # p => pc[q] = "idle" /\ pc'[q] = pc[q]
    BY <1>2, ActsAlone, OthersStay
  <2> QED
    BY <2>1
<1>3. ChangeBalances \/ UNCHANGED vars => UNCHANGED <<pc, overlapped>>
  BY DEF ChangeBalances, vars, observed
<1> QED
  BY <1>1, <1>2, <1>3 DEF Next

\* COMMIT pays whom the run has not paid.
LEMMA CommitPaysOnce ==
    ASSUME Types, Stages, NoDuplicatePayouts, NEW p \in Passes, OnceOf(p), pc[p] = "commit", payouts' = WithStaged(p)
    PROVE  NoDuplicatePayouts'
<1>1. /\ run[p] \in Runs /\ version[p] \in Versions /\ payouts \in [Runs \X Investors \X Versions -> Nat]
      /\ staged[p] \intersect PaidIn(run[p]) = {}
  BY DEF Types, Stages, OnceOf
<1>2. ASSUME NEW n \in Runs, NEW i \in Investors, NEW v \in Versions
      PROVE  payouts'[<<n, i, v>>] = IF n = run[p] /\ i \in staged[p] /\ v = version[p]
                                     THEN payouts[<<n, i, v>>] + 1 ELSE payouts[<<n, i, v>>]
  BY <1>1 DEF WithStaged
<1> SUFFICES ASSUME NEW n \in Runs, NEW i \in Investors, NEW v \in Versions, NEW w \in Versions
             PROVE  /\ payouts'[<<n, i, v>>] <= 1
                    /\ payouts'[<<n, i, v>>] > 0 /\ payouts'[<<n, i, w>>] > 0 => v = w
  BY DEF NoDuplicatePayouts
<1>3. CASE n = run[p] /\ i \in staged[p]
  <2>1. payouts[<<n, i, v>>] = 0 /\ payouts[<<n, i, w>>] = 0
    BY <1>1, <1>3 DEF PaidIn
  <2> QED
    BY <1>2, <1>3, <2>1
<1>4. CASE ~(n = run[p] /\ i \in staged[p])
  <2>1. payouts'[<<n, i, v>>] = payouts[<<n, i, v>>] /\ payouts'[<<n, i, w>>] = payouts[<<n, i, w>>]
    BY <1>2, <1>4
  <2> QED
    BY <2>1 DEF NoDuplicatePayouts
<1> QED
  BY <1>3, <1>4

LEMMA OnceStep == Types /\ Types' /\ Stages /\ Alone /\ Once /\ [Next]_vars => Once'
<1> SUFFICES ASSUME Types, Types', Stages, Alone, Once, [Next]_vars, pooled', ~overlapped'
             PROVE  NoDuplicatePayouts' /\ \A p \in Passes : OnceOf(p)'
  BY DEF Once
<1>1. ChangeBalances \/ UNCHANGED vars => UNCHANGED <<payouts, pc, run, listed, staged, overlapped, pooled>>
  BY DEF ChangeBalances, vars, observed, table, pass, loop, world
<1>2. pooled /\ ~overlapped
  <2>1. pooled
    BY <1>1, PoolStays
  <2>2. CASE ChangeBalances \/ UNCHANGED vars
    BY <1>1, <2>1, <2>2
  <2>3. ASSUME NEW p \in Passes, Step(p) \/ Failure(p) PROVE ~overlapped
    BY <2>3, ActsAlone
  <2> QED
    BY <2>1, <2>2, <2>3 DEF Next
<1>3. NoDuplicatePayouts /\ \A p \in Passes : OnceOf(p)
  BY <1>2 DEF Once
<1>4. NoDuplicatePayouts'
  <2>1. CASE payouts' = payouts
    BY <1>3, <2>1 DEF NoDuplicatePayouts
  <2>2. CASE payouts' # payouts
    BY <1>2, <1>3, <2>2, PayoutWrites, CommitPaysOnce
  <2> QED
    BY <2>1, <2>2
<1> SUFFICES ASSUME NEW q \in Passes PROVE OnceOf(q)'
  BY <1>4
<1>5. CASE ChangeBalances \/ UNCHANGED vars
  BY <1>1, <1>3, <1>5 DEF OnceOf, PaidIn
<1>6. ASSUME NEW p \in Passes, p # q, Step(p) \/ Failure(p) PROVE OnceOf(q)'
  BY <1>6, ActsAlone, OthersStay DEF OnceOf
<1>7. ASSUME pc'[q] \notin {"pay", "commit"} PROVE OnceOf(q)'
  BY <1>7 DEF OnceOf
<1>8. CASE ListReport(q)
  BY <1>7, <1>8 DEF ListReport, Goto, Types
<1>9. CASE NextReport(q)
  BY <1>7, <1>9 DEF NextReport, Goto, Types
<1>10. CASE FindRun(q)
  <2>1. pc'[q] \in {"balances", "ok"}
    BY <1>10 DEF FindRun, Goto, Types
  <2> QED
    BY <1>7, <2>1
<1>11. CASE FetchBalances(q)
  BY <1>7, <1>11 DEF FetchBalances, Goto, Types
<1>12. CASE CreateRun(q)
  BY <1>7, <1>12 DEF CreateRun, Goto, Types
<1>13. CASE MarkProcessing(q)
  BY <1>7, <1>13 DEF MarkProcessing, Goto, Types
<1>14. CASE ReadExisting(q)
  <2>1. /\ pc[q] = "existing" /\ run[q] \in Runs /\ UNCHANGED <<payouts, run>>
        /\ staged'[q] = {} /\ listed'[q] = PaidIn(run[q])
    BY <1>14 DEF ReadExisting, Types, Stages, table
  <2> QED
    BY <2>1 DEF OnceOf, PaidIn
<1>15. CASE SkipPaid(q)
  <2>1. pc[q] = "pay" /\ UNCHANGED <<payouts, run, staged, listed>>
    BY <1>15 DEF SkipPaid, Paying, table
  <2> QED
    BY <1>3, <2>1 DEF OnceOf, PaidIn
<1>16. CASE CreatePayout(q)
  <2>1. /\ pc[q] = "pay" /\ Investor(q) \notin listed[q] /\ UNCHANGED <<payouts, run>>
        /\ listed'[q] = listed[q] \union {Investor(q)} /\ staged'[q] = staged[q] \union {Investor(q)}
    BY <1>2, <1>16 DEF CreatePayout, Paying, Types
  <2> QED
    BY <1>3, <2>1 DEF OnceOf, PaidIn
<1>17. ASSUME pc[q] \in {"pay", "commit"}, payouts' = payouts \/ payouts' = WithStaged(q),
              UNCHANGED <<run, listed>>, staged'[q] = {}
       PROVE  OnceOf(q)'
  <2>1. run[q] \in Runs /\ PaidIn(run[q]) \subseteq listed[q] /\ staged[q] \subseteq listed[q]
    BY <1>3, <1>17 DEF OnceOf, Stages
  <2>2. ASSUME NEW n \in Runs, n = run[q] PROVE PaidIn(n)' \subseteq PaidIn(n) \union staged[q]
    <3>1. CASE payouts' = payouts
      BY <3>1 DEF PaidIn
    <3>2. CASE payouts' = WithStaged(q)
      BY <2>1, <2>2, <3>2, CommitPays
    <3> QED
      BY <1>17, <3>1, <3>2
  <2> QED
    BY <1>17, <2>1, <2>2 DEF OnceOf
<1>18. CASE CommitBatch(q)
  BY <1>17, <1>18 DEF CommitBatch, Types
<1>19. CASE Finish(q)
  BY <1>7, <1>19 DEF Finish, Answer, Goto, Types
<1>20. CASE StatementFails(q)
  BY <1>7, <1>20 DEF StatementFails, Goto, Types
<1>21. CASE CreateRunReplyLost(q)
  BY <1>7, <1>21 DEF CreateRunReplyLost, Goto, Types
<1>22. CASE PayoutFails(q)
  BY <1>2, <1>22, FailedAttempt
<1>23. CASE BatchFails(q)
  <2>1. /\ pc[q] \in {"pay", "commit"} /\ UNCHANGED <<run, listed>> /\ staged'[q] = {}
        /\ payouts' = payouts \/ payouts' = WithStaged(q)
    BY <1>23 DEF BatchFails, Paying, Types
  <2> QED
    BY <1>17, <2>1
<1>24. CASE FinishUnrecorded(q)
  BY <1>7, <1>24 DEF FinishUnrecorded, Answer, Goto, Types
<1>25. CASE Crash(q)
  BY <1>7, <1>25 DEF Crash, Goto, Types
<1> QED
  BY <1>5, <1>6, <1>8, <1>9, <1>10, <1>11, <1>12, <1>13, <1>14, <1>15, <1>16, <1>18, <1>19, <1>20,
     <1>21, <1>22, <1>23, <1>24, <1>25 DEF Next, Step, Failure

-----------------------------------------------------------------------------
(* The inductive invariant, and what it implies.                           *)

IInv == Types /\ Stages /\ Accounts /\ CompletedIsFullyPaid /\ Batches /\ Alone /\ Once

LEMMA Initially == Init => IInv
<1> SUFFICES ASSUME Init PROVE IInv
  OBVIOUS
<1>1. \A x \in Runs \X Investors \X Versions : payouts[x] = 0
  BY DEF Init
<1>2. \A n \in Runs, i \in Investors, v \in Versions : payouts[<<n, i, v>>] = 0
  BY <1>1
<1>3. CompletedIsFullyPaid /\ Alone
  BY DEF Init, CompletedIsFullyPaid, Alone
<1>4. NoDuplicatePayouts
  BY <1>2 DEF NoDuplicatePayouts
<1>5. PaidAlike
  BY <1>2, SharesAreInvestors, FirstVersion DEF PaidAlike
<1>6. Batches /\ Once
  BY <1>4, <1>5 DEF Init, Batches, BatchesOf, Once, OnceOf
<1> QED
  BY <1>3, <1>6, InitialTypes DEF IInv

LEMMA Inductive == IInv /\ [Next]_vars => IInv'
<1> SUFFICES ASSUME IInv, [Next]_vars PROVE IInv'
  OBVIOUS
<1>1. Types' /\ Stages'
  BY TypesStep, StagesStep DEF IInv
<1> QED
  BY <1>1, AccountsStep, CompletedStep, BatchesStep, AloneStep, OnceStep DEF IInv

LEMMA Invariant == Spec => []IInv
  BY Initially, Inductive, PTL DEF Spec

\* For any passes, balances, failures and crashes, overlapping or not: a run
\* marked completed has paid everybody, and an answer without a pool is true and complete.
THEOREM RecordsStayTrue == Spec => []RecordsAreTrue
<1>1. IInv => RecordsAreTrue
  BY AnswersFollow DEF IInv, RecordsAreTrue
<1> QED
  BY <1>1, Invariant, PTL

\* A transactional batch is written whole or not at all by any passes, and passes
\* that do not overlap pay an investor once, however often they fail and resume.
THEOREM PayoutsAreProtected == Spec => []TransactionsProtectPayouts
<1>1. IInv => TransactionsProtectPayouts
  BY WholeBatches DEF IInv, TransactionsProtectPayouts, SequentialPassesPayOnce, Once
<1> QED
  BY <1>1, Invariant, PTL

\* No step takes a payout back: whom a run has paid stays paid.
THEOREM PayoutsStay == Spec => [][\A n \in Runs : PaidIn(n) \subseteq PaidIn(n)']_vars
<1>1. IInv /\ [Next]_vars => [\A n \in Runs : PaidIn(n) \subseteq PaidIn(n)']_vars
  BY PaidStays DEF IInv
<1> QED
  BY <1>1, Invariant, PTL DEF Spec


=============================================================================
