----------------------------- MODULE Offerings -----------------------------
(***************************************************************************)
(* One offering: its status in the catalog and on the chain, the calls     *)
(* that synchronize the two (syncAll and the public catalog) and the       *)
(* investments made in it.  Every call awaits between the row it reads and *)
(* what it writes.                                                         *)
(***************************************************************************)
EXTENDS FiniteSets

CONSTANTS
    Syncs,          \* calls of syncAll or getCatalog
    Investors,      \* calls of createInvestment, one per investor
    Statuses,       \* the statuses the offering and its contract may have
    None

VARIABLES
    status,         \* offerings.status
    chain,          \* the status the contract answers
    sync,           \* each synchronization: its step, its kind, what it read
    stale,          \* calls whose read of the row has been overtaken by a write
    catalog,        \* OfferingService.catalogCache
    invest,         \* each createInvestment: its step
    investments     \* the investors with a row in investments

offeringVars == <<status, chain, sync, stale, catalog, invest, investments>>

rowVars == <<status, chain, stale>>
investVars == <<invest, investments>>

\* ALLOWED_TRANSITIONS; "published" and "archived" are aliases of open and completed.
Allowed(from) ==
    CASE from = "draft"  -> {"active", "open", "cancelled"}
      [] from = "active" -> {"open", "paused", "closed", "completed", "cancelled"}
      [] from = "open"   -> {"paused", "closed", "completed", "cancelled"}
      [] from = "paused" -> {"open", "closed", "cancelled"}
      [] from = "closed" -> {"completed"}
      [] OTHER           -> {}

CanTransition(from, to) == from = to \/ to \in Allowed(from)

\* normalizeOnChainStatus answers null for the others.
OnChain == {"draft", "active", "closed", "completed"}

\* What getCatalog lists, and what createInvestment accepts.
Listed == {"active", "completed"}
OpenForInvestment == {"active", "open"}

\* The calls that have read the row and not finished.
Readers == {s \in Syncs : sync[s].at \in {"read", "asked"}} \union {i \in Investors : invest[i] = "read"}

WriteStatus(new) == status' = new /\ stale' = stale \union Readers

Start == [at |-> "idle", kind |-> "all", seen |-> None, got |-> None]

-----------------------------------------------------------------------------
\* Statuses also change outside this code, which has no caller of updateStatus:
\* by the issuer's tools along the life cycle, and on the chain at will.
ChangeRow ==
    /\ \E new \in Allowed(status) \intersect Statuses : WriteStatus(new)
    /\ UNCHANGED <<chain, sync, catalog, investVars>>

ChangeChain ==
    /\ chain' \in Statuses \ {chain}
    /\ UNCHANGED <<status, sync, stale, catalog, investVars>>

\* syncAll reads every offering, getCatalog the listed ones unless it has a
\* catalog younger than a minute.
ReadRow(s) ==
    /\ sync[s].at = "idle"
    /\ \/ sync' = [sync EXCEPT ![s] = [@ EXCEPT !.at = "read", !.seen = status]]
       \/ /\ catalog = None
          /\ sync' = [sync EXCEPT ![s] =
                 IF status \in Listed THEN [@ EXCEPT !.at = "read", !.kind = "catalog", !.seen = status]
                                      ELSE [@ EXCEPT !.at = "done", !.kind = "catalog"]]
       \/ catalog # None /\ sync' = [sync EXCEPT ![s].at = "done", ![s].kind = "catalog"]
    /\ stale' = stale \ {s}
    /\ catalog' = IF sync'[s].at = "done" /\ catalog = None THEN "empty" ELSE catalog
    /\ UNCHANGED <<status, chain, investVars>>

\* The end of syncOfferingRecord.  A catalog is cached as the records it was
\* read with; when a record was updated the result is undefined, the catalog
\* request throws and nothing is cached.
Ends(s, updated) ==
    /\ sync' = [sync EXCEPT ![s] = [Start EXCEPT !.at = "done", !.kind = sync[s].kind]]
    /\ catalog' = IF sync[s].kind = "catalog" /\ ~updated THEN sync[s].seen ELSE catalog

\* getOfferingState, or its failure, or an offering without contract_address.
AskChain(s) ==
    /\ sync[s].at = "read"
    /\ \/ sync' = [sync EXCEPT ![s].at = "asked", ![s].got = chain] /\ UNCHANGED catalog
       \/ Ends(s, FALSE)
    /\ UNCHANGED <<rowVars, investVars>>

\* syncOfferingRecord refuses a status that does not follow the one it read.  It
\* would not guard an unknown one, which the CHECK of the table keeps out.
Refuse(s) ==
    /\ sync[s].at = "asked"
    /\ sync[s].got \notin OnChain \/ ~CanTransition(sync[s].seen, sync[s].got)
    /\ Ends(s, FALSE)
    /\ UNCHANGED <<rowVars, investVars>>

\* hasChanged compares total_raised too, so an update may keep the status.
Unchanged(s) ==
    /\ sync[s].at = "asked"
    /\ sync[s].got \in OnChain /\ sync[s].got = sync[s].seen
    /\ Ends(s, FALSE)
    /\ UNCHANGED <<rowVars, investVars>>

\* updateState: UPDATE ... WHERE id, whatever the status is by now; or it fails.
UpdateState(s) ==
    /\ sync[s].at = "asked"
    /\ sync[s].got \in OnChain /\ CanTransition(sync[s].seen, sync[s].got)
    /\ \/ WriteStatus(sync[s].got) /\ Ends(s, TRUE)
       \/ UNCHANGED <<status, stale>> /\ Ends(s, FALSE)
    /\ UNCHANGED <<chain, investVars>>

\* A minute passes.
CacheExpires ==
    /\ catalog # None /\ catalog' = None
    /\ UNCHANGED <<rowVars, sync, investVars>>

-----------------------------------------------------------------------------
\* Mutant: the status is not looked at.
StartUnchecked(i) ==
    /\ invest[i] = "idle"
    /\ \E valid \in BOOLEAN : invest' = [invest EXCEPT ![i] = IF valid THEN "read" ELSE "refused"]
    /\ UNCHANGED <<rowVars, sync, catalog, investments>>

\* createInvestment: the status, then amount and asset, then the INSERT.
StartInvestment(i) ==
    /\ invest[i] = "idle"
    /\ \E valid \in BOOLEAN :
        invest' = [invest EXCEPT ![i] = IF status \in OpenForInvestment /\ valid THEN "read" ELSE "refused"]
    /\ UNCHANGED <<rowVars, sync, catalog, investments>>

InsertInvestment(i) ==
    /\ invest[i] = "read"
    /\ \/ /\ invest' = [invest EXCEPT ![i] = "created"]
          /\ investments' = investments \union {i}
       \/ invest' = [invest EXCEPT ![i] = "refused"] /\ UNCHANGED investments
    /\ UNCHANGED <<rowVars, sync, catalog>>

-----------------------------------------------------------------------------
OfferingsInit ==
    /\ status = "draft" /\ chain = "draft"
    /\ sync = [s \in Syncs |-> Start] /\ stale = {} /\ catalog = None
    /\ invest = [i \in Investors |-> "idle"]
    /\ investments = {}

OfferingsNext ==
    \/ ChangeRow \/ ChangeChain \/ CacheExpires
    \/ \E s \in Syncs : ReadRow(s) \/ AskChain(s) \/ Refuse(s) \/ Unchanged(s) \/ UpdateState(s)
    \/ \E i \in Investors : StartInvestment(i) \/ InsertInvestment(i)

OfferingsSpec == OfferingsInit /\ [][OfferingsNext]_offeringVars

-----------------------------------------------------------------------------
\* Only an outdated read of the offering's row breaks the rules about its status:
\* a synchronization moves the offering along its life cycle, and an investment
\* enters an offering that is open, unless the status was written between the
\* call's read and its write (then a closed offering may become active again).
StatusRulesBreakOnlyByRace ==
    [][/\ \A s \in Syncs \ stale :
           sync[s].at = "asked" /\ sync'[s].at = "done" => status' = status \/ status' \in Allowed(status)
       /\ \A i \in (investments' \ investments) \ stale : status \in OpenForInvestment]_offeringVars
=============================================================================
