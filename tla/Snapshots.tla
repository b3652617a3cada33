----------------------------- MODULE Snapshots -----------------------------
(***************************************************************************)
(* The balance snapshots of one period of one offering, taken from the     *)
(* completed investments or from the contract.  snapshotBalances awaits    *)
(* between looking for an existing snapshot, reading the balances and each *)
(* row it inserts; no constraint of the table keeps a period unique.       *)
(***************************************************************************)
CONSTANTS Takers, Holders

VARIABLES
    providers,      \* the sources the service was built with
    contract,       \* whether the offering has a contract_address
    holding,        \* the holders with a balance, by source
    take,           \* each call: its step, its arguments, the balances it read, the rows
                    \* its open transaction holds, and its answer
    rows            \* token_balance_snapshots: holders, by the call that inserted them

snapshotVars == <<providers, contract, holding, take, rows>>

Sources == {"db", "stellar"}
Requested == Sources \union {"auto"}

\* resolveEffectiveSource.
Effective(source) ==
    IF source = "auto" THEN IF "db" \in providers THEN "db" ELSE "stellar"
                       ELSE source

\* resolveSourceForRun, and the contract the Stellar source needs.
Available(source) ==
    /\ Effective(source) \in providers
    /\ Effective(source) = "stellar" => contract

AtStep(t, step) == take[t].at = step
Goes(t, step) == take' = [take EXCEPT ![t].at = step]

\* Investments complete and are refunded, tokens move on the chain.
HoldingsChange ==
    /\ \E s \in Sources, h \in Holders :
        holding' = [holding EXCEPT ![s] = (@ \union {h}) \ (@ \intersect {h})]
    /\ UNCHANGED <<providers, contract, take, rows>>

\* findById and, unless skipIfExists is off, findByOfferingAndPeriod: an existing
\* snapshot is the answer, whatever source it was taken from.
StartSnapshot(t) ==
    /\ AtStep(t, "idle")
    /\ \E source \in Requested, skip \in BOOLEAN :
        LET exists == skip /\ rows # {} IN
        take' = [take EXCEPT ![t] =
            [at |-> IF exists THEN "existing" ELSE IF Available(source) THEN "resolved" ELSE "failed",
             source |-> source, balances |-> {}, staged |-> {}, answer |-> IF exists THEN rows ELSE {}]]
    /\ UNCHANGED <<providers, contract, holding, rows>>

\* getBalancesFromDb, getBalancesFromStellar; no balance at all is an error.
ReadBalances(t) ==
    /\ AtStep(t, "resolved")
    /\ LET found == holding[Effective(take[t].source)]
       IN take' = [take EXCEPT ![t].at = IF found = {} THEN "failed" ELSE "read", ![t].balances = found]
    /\ UNCHANGED <<providers, contract, holding, rows>>

\* Mutant: insertMany without a transaction.
InsertAtOnce(t) ==
    /\ AtStep(t, "read")
    /\ \E h \in take[t].balances \ take[t].staged :
        /\ take' = [take EXCEPT ![t].staged = @ \union {h}]
        /\ rows' = rows \union {[by |-> t, holder |-> h]}
    /\ UNCHANGED <<providers, contract, holding>>

\* insertMany, after BEGIN: one INSERT per holder...
InsertRow(t) ==
    /\ AtStep(t, "read")
    /\ \E h \in take[t].balances \ take[t].staged : take' = [take EXCEPT ![t].staged = @ \union {h}]
    /\ UNCHANGED <<providers, contract, holding, rows>>

\* The rows of a call: one for each balance that it read.
Batch(t) == {[by |-> t, holder |-> h] : h \in take[t].balances}

\* ... and COMMIT, whose reply may be lost.
CommitRows(t) ==
    /\ AtStep(t, "read") /\ take[t].staged = take[t].balances
    /\ rows' = rows \union Batch(t)
    /\ \/ take' = [take EXCEPT ![t].at = "done", ![t].answer = Batch(t)]
       \/ Goes(t, "failed")
    /\ UNCHANGED <<providers, contract, holding>>

\* Any await may reject: the open transaction rolls back.
TakeFails(t) ==
    /\ take[t].at \in {"idle", "resolved", "read"}
    /\ Goes(t, "failed")
    /\ UNCHANGED <<providers, contract, holding, rows>>

SnapshotsInit ==
    /\ providers \in SUBSET Sources /\ contract \in BOOLEAN
    /\ holding = [s \in Sources |-> {}]
    /\ take = [t \in Takers |->
                  [at |-> "idle", source |-> "auto", balances |-> {}, staged |-> {}, answer |-> {}]]
    /\ rows = {}

SnapshotsNext ==
    \/ HoldingsChange
    \/ \E t \in Takers :
        StartSnapshot(t) \/ ReadBalances(t) \/ InsertRow(t) \/ CommitRows(t) \/ TakeFails(t)

SnapshotsSpec == SnapshotsInit /\ [][SnapshotsNext]_snapshotVars

-----------------------------------------------------------------------------
\* With a row of a call comes every balance that the call read, and nothing else.
IsWhole(snapshot) == \A row \in snapshot : row \in Batch(row.by) /\ Batch(row.by) \subseteq snapshot

\* No partial snapshot is stored or answered, whatever fails between the rows and
\* whoever reads while they are inserted: insertMany's transaction.
SnapshotsAreWhole ==
    /\ IsWhole(rows)
    /\ \A t \in Takers :
        /\ take[t].at = "existing" => take[t].answer # {} /\ IsWhole(take[t].answer)
        /\ take[t].at = "done" => take[t].answer = Batch(t) /\ take[t].answer # {}
=============================================================================
