------------------------- MODULE DistributionShares -------------------------
(***************************************************************************)
(* How DistributionEngine.distributeWithBatch splits the revenue: each     *)
(* share is rounded to cents, and the difference goes to the largest one.  *)
(* Revenue is counted in mills (tenths of a cent, so that it need not be a *)
(* whole number of cents) and payouts in cents.  Math.round rounds halves  *)
(* up; where the exact share is half a cent its floating-point value may   *)
(* lie on either side.                                                     *)
(***************************************************************************)
EXTENDS Integers, Functions

CONSTANTS
    MaxInvestors,  \* investors of the offering (a bound)
    MaxBalance,    \* tokens of an investor (a bound)
    MaxRevenue     \* revenue in mills (a bound)

ASSUME SharesAssumption == {MaxInvestors, MaxBalance, MaxRevenue} \subseteq Nat

VARIABLES
    balances,   \* what fetchBalances returned
    revenue,    \* revenueAmount
    rounded,    \* amounts after the first rounding
    payouts     \* amounts that are persisted; <<>> until they are computed

shareVars == <<balances, revenue, rounded, payouts>>

\* The integer nearest to n/d, halves up: Math.round.
RoundHalfUp(n, d) == (2 * n + d) \div (2 * d)

\* The same for a quotient that is computed in floating point: a half may fall
\* on the lower side.
Tie(n, d) == (2 * n + d) % (2 * d) = 0
Rounding(n, d, below) == IF below /\ Tie(n, d) THEN RoundHalfUp(n, d) - 1 ELSE RoundHalfUp(n, d)

TotalBalance == SumFunction(balances)

\* maxIdx: the first of the largest shares.
MaxIndex ==
    CHOOSE m \in DOMAIN balances :
        \A n \in DOMAIN balances :
            balances[n] < balances[m] \/ (balances[n] = balances[m] /\ m <= n)

SharesInit ==
    /\ balances \in UNION {[1 .. n -> 0 .. MaxBalance] : n \in 1 .. MaxInvestors}
    /\ TotalBalance > 0
    /\ revenue \in 1 .. MaxRevenue
    /\ rounded = <<>> /\ payouts = <<>>

RoundShares ==
    /\ rounded = <<>>
    /\ \E below \in SUBSET DOMAIN balances :
        rounded' = [m \in DOMAIN balances |->
            Rounding(balances[m] * revenue, 10 * TotalBalance, m \in below)]
    /\ UNCHANGED <<balances, revenue, payouts>>

\* diff, in cents.
Difference(below) == Rounding(revenue - 10 * SumFunction(rounded), 10, below)

\* Mutant: the difference is left over.
KeepRounded ==
    /\ rounded # <<>> /\ payouts = <<>>
    /\ payouts' = rounded
    /\ UNCHANGED <<balances, revenue, rounded>>

AdjustLargest ==
    /\ rounded # <<>> /\ payouts = <<>>
    /\ \E below \in BOOLEAN : payouts' = [rounded EXCEPT ![MaxIndex] = @ + Difference(below)]
    /\ UNCHANGED <<balances, revenue, rounded>>

SharesNext == RoundShares \/ AdjustLargest

SharesSpec == SharesInit /\ [][SharesNext]_shareVars

-----------------------------------------------------------------------------
Distance(m, n) == IF m > n THEN m - n ELSE n - m

\* The payouts add up to the revenue, to the nearest cent (distributionEngine.ts:
\* "to ensure total payouts exactly match `revenueAmount` to the cent").
PayoutsAddUp == payouts # <<>> => Distance(10 * SumFunction(payouts), revenue) <= 5
=============================================================================
