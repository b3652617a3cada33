---------------------------- MODULE MCOfferings ----------------------------
(***************************************************************************)
(* What happens to an offering besides its distribution passes: revenue    *)
(* reports and their reconciliation, the catalog and investments, the      *)
(* milestones of a vault, balance snapshots, the validation matrix, the    *)
(* arithmetic of a distribution.  The six share no state, so a behaviour   *)
(* steps one of them.                                                      *)
(***************************************************************************)
EXTENDS Milestones, Offerings, Snapshots, Revenue, OfferingMatrix, DistributionShares, TLC

VARIABLE part

Parts == {"revenue", "vault", "catalog", "balances", "matrix", "shares"}

PartInit ==
    /\ part \in Parts
    /\ part # "revenue" => mapped = TRUE
    /\ part # "vault" => hardened = TRUE /\ limit = 1
    /\ part # "balances" => providers = {} /\ contract = TRUE
    /\ part # "matrix" =>
        kept = [status |-> "none", issuer |-> "issuer", target |-> 1, minimum |-> 1, starts |-> 1, ends |-> 2]
    /\ part # "shares" => balances = <<1>> /\ revenue = 1
    /\ RevenueInit /\ Init /\ OfferingsInit /\ SnapshotsInit
    /\ MatrixInit /\ SharesInit

\* A step of one part leaves the variables of the others as they are.
PartNext ==
    \/ /\ part = "revenue" /\ RevenueNext
       /\ UNCHANGED <<part, vars, offeringVars, snapshotVars, matrixVars, shareVars>>
    \/ /\ part = "vault" /\ Next
       /\ UNCHANGED <<part, revenueVars, offeringVars, snapshotVars, matrixVars, shareVars>>
    \/ /\ part = "catalog" /\ OfferingsNext
       /\ UNCHANGED <<part, revenueVars, vars, snapshotVars, matrixVars, shareVars>>
    \/ /\ part = "balances" /\ SnapshotsNext
       /\ UNCHANGED <<part, revenueVars, vars, offeringVars, matrixVars, shareVars>>
    \/ /\ part = "matrix" /\ MatrixNext
       /\ UNCHANGED <<part, revenueVars, vars, offeringVars, snapshotVars, shareVars>>
    \/ /\ part = "shares" /\ SharesNext
       /\ UNCHANGED <<part, revenueVars, vars, offeringVars, snapshotVars, matrixVars>>

PartSpec == PartInit /\ [][PartNext]_<<part, revenueVars, vars, offeringVars, snapshotVars,
    matrixVars, shareVars>>

CallSymmetry == Permutations(Submits)
=============================================================================
