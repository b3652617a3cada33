-------------------------- MODULE OfferingsProofs --------------------------
(***************************************************************************)
(* Proofs about what happens to an offering besides its distribution, for  *)
(* any number of calls: the catalog and investments, the milestones of a   *)
(* vault, balance snapshots, revenue reports and the validation matrix.    *)
(***************************************************************************)
EXTENDS Milestones, Offerings, Snapshots, Revenue, OfferingMatrix, DistributionShares, Sums

(***************************************************************************)
(* Catalog and investments: whoever writes on the ground of a status that  *)
(* is still the offering's keeps the rules about it.  The calls of         *)
(* synchronization and of investment are different calls.                  *)
(***************************************************************************)

CallRecords == [at : {"idle", "read", "asked", "done"}, kind : {"all", "catalog"},
            seen : Statuses \union {"draft", "active", "closed", "completed", None},
            got : Statuses \union {"draft", None}]

\* A call that nobody overtook has seen the status that the offering has.
ReadsAreCurrent ==
    /\ \A s \in Syncs \ stale : sync[s].at \in {"read", "asked"} => sync[s].seen = status
    /\ \A i \in Investors \ stale : invest[i] = "read" => status \in OpenForInvestment

CatalogIInv ==
    /\ status \in Statuses \union {"draft", "active", "closed", "completed"} /\ chain \in Statuses \union {"draft"}
    /\ sync \in [Syncs -> CallRecords]
    /\ invest \in [Investors -> {"idle", "read", "refused", "created"}]
    /\ ReadsAreCurrent

\* Writing the status makes everybody who has read it stale.
LEMMA WritesOvertake ==
    ASSUME CatalogIInv, NEW new, WriteStatus(new), invest' = invest,
           \A s \in Syncs \ stale' : sync'[s].at \in {"read", "asked"} => sync'[s] = sync[s]
    PROVE  ReadsAreCurrent'
  BY DEF CatalogIInv, WriteStatus, Readers, ReadsAreCurrent

LEMMA CatalogInitially == OfferingsInit => CatalogIInv
  BY DEF OfferingsInit, CatalogIInv, ReadsAreCurrent, Start, CallRecords

\* A call that reads the row, or goes on with what it has read, leaves the others alone.
LEMMA OneMoves ==
    ASSUME CatalogIInv, NEW s \in Syncs, sync' = [sync EXCEPT ![s] = sync'[s]], sync'[s] \in CallRecords,
           UNCHANGED <<status, chain, invest>>, stale \ {s} \subseteq stale',
           Syncs \intersect Investors = {},
           s \notin stale' /\ sync'[s].at \in {"read", "asked"} => sync'[s].seen = status
    PROVE  CatalogIInv'
<1> USE DEF CatalogIInv
<1>1. sync' \in [Syncs -> CallRecords]
  OBVIOUS
<1>2. \A q \in Syncs \ {s} : sync'[q] = sync[q]
  OBVIOUS
<1>3. ReadsAreCurrent'
  BY <1>2 DEF ReadsAreCurrent
<1> QED
  BY <1>1, <1>3

LEMMA EndIsQuiet ==
    ASSUME CatalogIInv, NEW s \in Syncs, NEW updated, Ends(s, updated), UNCHANGED <<status, chain, stale, invest>>,
           Syncs \intersect Investors = {}
    PROVE  CatalogIInv'
<1>1. /\ sync' = [sync EXCEPT ![s] = sync'[s]]
      /\ sync'[s] \in CallRecords /\ sync'[s].at = "done"
  BY DEF CatalogIInv, Ends, Start, CallRecords
<1> QED
  BY <1>1, OneMoves

LEMMA CatalogStep ==
    ASSUME Syncs \intersect Investors = {}, CatalogIInv, [OfferingsNext]_offeringVars
    PROVE  CatalogIInv'
<1> USE DEF CatalogIInv
<1>1. ASSUME ChangeRow PROVE CatalogIInv'
  <2>1. PICK new \in Allowed(status) \intersect Statuses : WriteStatus(new)
    BY <1>1 DEF ChangeRow
  <2>2. ReadsAreCurrent'
    BY <1>1, <2>1, WritesOvertake DEF ChangeRow, investVars
  <2> QED
    BY <1>1, <2>1, <2>2 DEF ChangeRow, WriteStatus, investVars
<1>2. ASSUME ChangeChain \/ CacheExpires PROVE CatalogIInv'
  BY <1>2 DEF ChangeChain, CacheExpires, rowVars, investVars, ReadsAreCurrent
<1>3. ASSUME NEW s \in Syncs, ReadRow(s) PROVE CatalogIInv'
  <2>1. PICK at \in {"read", "done"}, kind \in {"all", "catalog"} :
            \/ sync' = [sync EXCEPT ![s] = [@ EXCEPT !.at = at, !.kind = kind, !.seen = status]]
            \/ at = "done" /\ sync' = [sync EXCEPT ![s] = [@ EXCEPT !.at = at, !.kind = kind]]
    <3>1. sync[s].kind = "all" \/ sync[s].kind = "catalog"
      BY DEF CallRecords
    <3>2. CASE sync' = [sync EXCEPT ![s] = [@ EXCEPT !.at = "read", !.seen = status]]
      <4>1. [sync[s] EXCEPT !.at = "read", !.seen = status]
            = [sync[s] EXCEPT !.at = "read", !.kind = sync[s].kind, !.seen = status]
        BY DEF CallRecords
      <4> QED
        BY <3>1, <3>2, <4>1
    <3> QED
      BY <1>3, <3>2 DEF ReadRow
  <2>2. sync' = [sync EXCEPT ![s] = sync'[s]] /\ sync'[s] \in CallRecords
    <3>1. CASE sync' = [sync EXCEPT ![s] = [@ EXCEPT !.at = at, !.kind = kind, !.seen = status]]
      <4>1. [sync[s] EXCEPT !.at = at, !.kind = kind, !.seen = status] \in CallRecords
        BY DEF CallRecords
      <4> QED
        BY <3>1, <4>1
    <3>2. CASE sync' = [sync EXCEPT ![s] = [@ EXCEPT !.at = at, !.kind = kind]]
      <4>1. [sync[s] EXCEPT !.at = at, !.kind = kind] \in CallRecords
        BY DEF CallRecords
      <4> QED
        BY <3>2, <4>1
    <3> QED
      BY <2>1, <3>1, <3>2
  <2>3. sync'[s].at \in {"read", "asked"} => sync'[s].seen = status
    BY <2>1 DEF CallRecords
  <2> QED
    BY <1>3, <2>2, <2>3, OneMoves DEF ReadRow, investVars
<1>4. ASSUME NEW s \in Syncs, AskChain(s) PROVE CatalogIInv'
  <2>1. CASE sync' = [sync EXCEPT ![s].at = "asked", ![s].got = chain]
    <3>1. sync' = [sync EXCEPT ![s] = sync'[s]] /\ sync'[s] \in CallRecords
      BY <2>1 DEF CallRecords
    <3>2. s \notin stale => sync'[s].seen = status
      BY <1>4, <2>1 DEF AskChain, ReadsAreCurrent
    <3> QED
      BY <1>4, <3>1, <3>2, OneMoves DEF AskChain, rowVars, investVars
  <2>2. CASE Ends(s, FALSE)
    BY <1>4, <2>2, EndIsQuiet DEF AskChain, rowVars, investVars
  <2> QED
    BY <1>4, <2>1, <2>2 DEF AskChain
<1>5. ASSUME NEW s \in Syncs, Refuse(s) \/ Unchanged(s) PROVE CatalogIInv'
  BY <1>5, EndIsQuiet DEF Refuse, Unchanged, rowVars, investVars
<1>6. ASSUME NEW s \in Syncs, UpdateState(s) PROVE CatalogIInv'
  <2>1. sync' \in [Syncs -> CallRecords] /\ chain' = chain /\ invest' = invest
    <3>1. sync' = [sync EXCEPT ![s] = [Start EXCEPT !.at = "done", !.kind = sync[s].kind]]
      BY <1>6 DEF UpdateState, Ends
    <3>2. [Start EXCEPT !.at = "done", !.kind = sync[s].kind] \in CallRecords
      BY DEF Start, CallRecords
    <3> QED
      BY <1>6, <3>1, <3>2 DEF UpdateState, investVars
  <2>2. \A q \in Syncs : sync'[q].at \in {"read", "asked"} => sync'[q] = sync[q]
    BY <1>6 DEF UpdateState, Ends, Start
  <2>3. CASE WriteStatus(sync[s].got)
    <3>1. sync[s].got \in OnChain
      BY <1>6 DEF UpdateState
    <3> QED
      BY <2>1, <2>2, <2>3, <3>1, WritesOvertake DEF WriteStatus, OnChain
  <2>4. CASE UNCHANGED <<status, stale>>
    BY <2>1, <2>2, <2>4 DEF ReadsAreCurrent
  <2> QED
    BY <1>6, <2>3, <2>4 DEF UpdateState
<1>7. ASSUME NEW i \in Investors, StartInvestment(i) PROVE CatalogIInv'
  BY <1>7 DEF StartInvestment, rowVars, ReadsAreCurrent
<1>8. ASSUME NEW i \in Investors, InsertInvestment(i) PROVE CatalogIInv'
  BY <1>8 DEF InsertInvestment, rowVars, ReadsAreCurrent
<1>9. ASSUME UNCHANGED offeringVars PROVE CatalogIInv'
  BY <1>9 DEF offeringVars, ReadsAreCurrent
<1> QED
  BY <1>1, <1>2, <1>3, <1>4, <1>5, <1>6, <1>7, <1>8, <1>9 DEF OfferingsNext

-----------------------------------------------------------------------------
\* syncOfferingRecord and createInvestment check a status they read and write later:
\* they break the rules about it only when it was written in between.
THEOREM OnlyRacesBreakTheRules ==
    ASSUME Syncs \intersect Investors = {}
    PROVE  OfferingsSpec => StatusRulesBreakOnlyByRace
<1> DEFINE Rules ==
        /\ \A s \in Syncs \ stale :
               sync[s].at = "asked" /\ sync'[s].at = "done" => status' = status \/ status' \in Allowed(status)
        /\ \A i \in (investments' \ investments) \ stale : status \in OpenForInvestment
<1>1. CatalogIInv /\ [OfferingsNext]_offeringVars => CatalogIInv'
  BY CatalogStep
<1>2. CatalogIInv /\ [OfferingsNext]_offeringVars => [Rules]_offeringVars
  <2> SUFFICES ASSUME CatalogIInv, OfferingsNext PROVE Rules
    OBVIOUS
  <2> USE DEF CatalogIInv
  <2>1. ASSUME ChangeRow \/ ChangeChain \/ CacheExpires PROVE Rules
    BY <2>1 DEF ChangeRow, ChangeChain, CacheExpires, WriteStatus, rowVars, investVars
  <2>2. ASSUME NEW s \in Syncs, ReadRow(s) \/ AskChain(s) \/ Refuse(s) \/ Unchanged(s) PROVE Rules
    BY <2>2 DEF ReadRow, AskChain, Refuse, Unchanged, rowVars, investVars
  <2>3. ASSUME NEW s \in Syncs, UpdateState(s) PROVE Rules
    <3>1. ASSUME NEW q \in Syncs \ stale, sync[q].at = "asked", sync'[q].at = "done"
          PROVE  status' = status \/ status' \in Allowed(status)
      <4>1. q = s
        BY <2>3, <3>1 DEF UpdateState, Ends
      <4>2. sync[s].seen = status
        BY <3>1, <4>1 DEF ReadsAreCurrent
      <4> QED
        BY <2>3, <4>2 DEF UpdateState, WriteStatus, CanTransition
    <3>2. investments' = investments
      BY <2>3 DEF UpdateState, investVars
    <3> QED
      BY <3>1, <3>2
  <2>4. ASSUME NEW i \in Investors, StartInvestment(i) \/ InsertInvestment(i) PROVE Rules
    BY <2>4 DEF StartInvestment, InsertInvestment, rowVars, ReadsAreCurrent
  <2> QED
    BY <2>1, <2>2, <2>3, <2>4 DEF OfferingsNext
<1> QED
  BY CatalogInitially, <1>1, <1>2, PTL DEF OfferingsSpec, StatusRulesBreakOnlyByRace

-----------------------------------------------------------------------------
(***************************************************************************)
(* Milestones: the hardened route validates milestones in order, an event  *)
(* is published of what is recorded, and a slot is held by a request.      *)
(*                                                                         *)
(* None of it rests on a lock.  What a request found when it checked the   *)
(* order still holds when it marks its milestone because milestones never  *)
(* stop being validated; an event is there before the milestone is marked, *)
(* and nobody deletes it.                                                  *)
(***************************************************************************)

Awaits == {"idle", "slot", "get", "vault", "order", "assigned", "event", "mark", "publish", "release",
          "give up", "done", "failed"}

MilestoneTypes ==
    /\ hardened \in BOOLEAN
    /\ request \in [Requests -> [at : Awaits, user : Users \union {"none"}, milestone : Milestone \union {0},
                                 pending : BOOLEAN]]

\* What a request knows of the milestones and the events once it is past its checks.
Knows(r) ==
    /\ hardened /\ request[r].at \in {"assigned", "event", "mark"} =>
           \A n \in 1 .. Of(r) - 1 : n \in validated
    /\ request[r].at \in {"mark", "publish"} => <<Of(r), By(r)>> \in events
    /\ request[r].at = "publish" => Of(r) \in validated

\* Only the hardened route has these awaits.
HardenedOnly == {"slot", "vault", "order", "release", "give up"}

\* Slots belong to the hardened route.
SlotsAreHardened ==
    /\ \A r \in Requests : request[r].at \in HardenedOnly => hardened
    /\ ~hardened => active = {}

MilestonesIInv ==
    /\ MilestoneTypes /\ SlotsAreHardened
    /\ \A r \in Requests : Knows(r)
    /\ MilestonesInOrder /\ PublishedIsRecorded /\ SlotsAreReleased

-----------------------------------------------------------------------------
\* What comes after an await, on either route.
LEMMA Order ==
    ASSUME MilestoneTypes
    PROVE  /\ After("slot") = "get" \/ ~hardened
           /\ After("get") = IF hardened THEN "vault" ELSE "event"
           /\ After("vault") = "order" \/ ~hardened
           /\ After("order") = "assigned" \/ ~hardened
           /\ After("assigned") = IF hardened THEN "event" ELSE "get"
           /\ After("event") = "mark"
           /\ After("mark") = "publish"
           /\ After("publish") = IF hardened THEN "release" ELSE "done"
           /\ After("release") = "done" \/ ~hardened
           /\ After("arrival") = IF hardened THEN "slot" ELSE "assigned"
  BY DEF After, Hardened, Plain, MilestoneTypes


\* A request that moves to an await stays typed, and moves alone.
LEMMA MoveIsTyped ==
    ASSUME MilestoneTypes, NEW r \in Requests, NEW x \in Awaits,
           request' = [request EXCEPT ![r].at = x], hardened' = hardened
    PROVE  /\ MilestoneTypes'
           /\ request'[r].at = x /\ By(r)' = By(r) /\ Of(r)' = Of(r)
           /\ \A q \in Requests \ {r} : request'[q] = request[q]
  BY DEF MilestoneTypes, By, Of

\* The awaits at which a request holds no slot.
NoSlot == {"idle", "slot", "done", "failed"}

\* What a move must bring along so that the invariant survives it.
LEMMA MoveKeeps ==
    ASSUME MilestonesIInv, NEW r \in Requests, NEW x \in Awaits,
           request' = [request EXCEPT ![r].at = x], hardened' = hardened,
           x \in HardenedOnly => hardened,
           validated \subseteq validated', events \subseteq events',
           hardened /\ x \in {"assigned", "event", "mark"} => \A n \in 1 .. Of(r) - 1 : n \in validated',
           x \in {"mark", "publish"} => <<Of(r), By(r)>> \in events',
           x = "publish" => Of(r) \in validated',
           active' \subseteq active \union {By(r)}, ~hardened => active' = {},
           x \in NoSlot => (request[r].at = "slot" /\ active' = active) \/ By(r) \notin active',
           MilestonesInOrder', PublishedIsRecorded'
    PROVE  MilestonesIInv'
<1> USE DEF MilestonesIInv
<1>1. /\ MilestoneTypes'
      /\ request'[r].at = x /\ By(r)' = By(r) /\ Of(r)' = Of(r)
      /\ \A q \in Requests \ {r} : request'[q] = request[q]
  BY MoveIsTyped
<1>2. SlotsAreHardened'
  BY <1>1 DEF SlotsAreHardened
<1>3. ASSUME NEW q \in Requests PROVE Knows(q)'
  <2>1. CASE q = r
    BY <1>1, <2>1 DEF Knows
  <2>2. CASE q # r
    BY <1>1, <2>2 DEF Knows, Of, By
  <2> QED
    BY <2>1, <2>2
<1>4. SlotsAreReleased'
  <2> SUFFICES ASSUME NEW u \in active'
               PROVE  \E q \in Requests : By(q)' = u /\ request'[q].at \notin NoSlot
    BY DEF SlotsAreReleased, NoSlot
  <2>1. CASE u = By(r) /\ x \notin NoSlot
    BY <1>1, <2>1
  <2>2. CASE ~(u = By(r) /\ x \notin NoSlot)
    <3>1. u \in active
      BY <2>2
    <3>2. PICK q \in Requests : By(q) = u /\ request[q].at \notin NoSlot
      BY <3>1 DEF SlotsAreReleased, NoSlot
    <3>3. q # r
      BY <2>2, <3>2 DEF NoSlot
    <3> QED
      BY <1>1, <3>2, <3>3 DEF By
  <2> QED
    BY <2>1, <2>2
<1> QED
  BY <1>1, <1>2, <1>3, <1>4

-----------------------------------------------------------------------------
LEMMA MilestonesInitially == Init => MilestonesIInv
<1> SUFFICES ASSUME Init PROVE MilestonesIInv
  OBVIOUS
<1>1. MilestoneTypes
  BY DEF Init, MilestoneTypes, Awaits
<1>2. SlotsAreHardened /\ \A r \in Requests : Knows(r)
  BY DEF Init, SlotsAreHardened, HardenedOnly, Knows
<1>3. MilestonesInOrder /\ PublishedIsRecorded /\ SlotsAreReleased
  BY DEF Init, MilestonesInOrder, PublishedIsRecorded, SlotsAreReleased
<1> QED
  BY <1>1, <1>2, <1>3 DEF MilestonesIInv

LEMMA ArriveKeeps ==
    ASSUME MilestonesIInv, NEW r \in Requests, Arrive(r)
    PROVE  MilestonesIInv'
<1> USE DEF MilestonesIInv
<1>1. PICK user \in Users, m \in Milestone, x \in Awaits :
          /\ request' = [request EXCEPT ![r] = [at |-> x, user |-> user, milestone |-> m, pending |-> FALSE]]
          /\ x = "failed" \/ (x = "slot" /\ hardened) \/ (x = "assigned" /\ ~hardened)
  <2> DEFINE next(user) == IF IF hardened THEN MayValidate(user) ELSE user \in Verifiers
                  THEN After("arrival") ELSE "failed"
  <2>1. PICK user \in Users, m \in Milestone :
            request' = [request EXCEPT ![r] = [at |-> next(user), user |-> user, milestone |-> m, pending |-> FALSE]]
    BY DEF Arrive
  <2>2. next(user) = "failed" \/ (next(user) = "slot" /\ hardened) \/ (next(user) = "assigned" /\ ~hardened)
    BY Order
  <2>3. next(user) \in Awaits
    BY <2>2 DEF Awaits
  <2> HIDE DEF next
  <2> QED
    BY <2>1, <2>2, <2>3
<1>2. /\ MilestoneTypes'
      /\ request'[r].at = x
      /\ \A q \in Requests \ {r} : request'[q] = request[q]
  BY <1>1 DEF Arrive, MilestoneTypes
<1>3. /\ request[r].at = "idle"
      /\ UNCHANGED <<hardened, validated, events, published, active>>
  BY DEF Arrive, At
<1>4. SlotsAreHardened'
  BY <1>1, <1>2, <1>3 DEF SlotsAreHardened, HardenedOnly
<1>5. ASSUME NEW q \in Requests PROVE Knows(q)'
  <2>1. CASE q = r
    BY <1>1, <1>2, <1>3, <2>1 DEF Knows
  <2>2. CASE q # r
    BY <1>2, <1>3, <2>2 DEF Knows, Of, By
  <2> QED
    BY <2>1, <2>2
<1>6. MilestonesInOrder' /\ PublishedIsRecorded'
  BY <1>3 DEF MilestonesInOrder, PublishedIsRecorded
<1>7. SlotsAreReleased'
  BY <1>2, <1>3 DEF SlotsAreReleased, By
<1> QED
  BY <1>2, <1>4, <1>5, <1>6, <1>7

LEMMA TakeSlotKeeps ==
    ASSUME MilestonesIInv, NEW r \in Requests, TakeSlot(r)
    PROVE  MilestonesIInv'
<1> USE DEF MilestonesIInv
<1>1. /\ request[r].at = "slot" /\ hardened
      /\ UNCHANGED <<hardened, validated, events, published>>
  BY DEF TakeSlot, At, SlotsAreHardened, HardenedOnly
<1>2. MilestonesInOrder' /\ PublishedIsRecorded'
  BY <1>1 DEF MilestonesInOrder, PublishedIsRecorded
<1>3. CASE active' = active /\ request' = [request EXCEPT ![r].at = "failed"]
  <2>1. "failed" \in Awaits /\ "failed" \notin HardenedOnly
    BY DEF Awaits, HardenedOnly
  <2> QED
    BY <1>1, <1>2, <1>3, <2>1, MoveKeeps
<1>4. CASE active' = active \union {By(r)} /\ GoesOnIf(r, By(r) \in Verifiers)
  <2>1. \/ request' = [request EXCEPT ![r].at = "get"]
        \/ request' = [request EXCEPT ![r].at = "give up"]
    <3>1. GoesOn(r) => request' = [request EXCEPT ![r].at = "get"]
      BY <1>1, Order DEF GoesOn
    <3>2. Fails(r) => request' = [request EXCEPT ![r].at = "give up"]
      BY <1>1 DEF Fails
    <3> QED
      BY <1>4, <3>1, <3>2 DEF GoesOnIf
  <2>2. PICK x \in {"get", "give up"} : request' = [request EXCEPT ![r].at = x]
    BY <2>1
  <2>3. x \in Awaits /\ x \notin NoSlot
    BY DEF Awaits, NoSlot
  <2> QED
    BY <1>1, <1>2, <1>4, <2>2, <2>3, MoveKeeps
<1> QED
  BY <1>3, <1>4 DEF TakeSlot

LEMMA ReleaseKeeps ==
    ASSUME MilestonesIInv, NEW r \in Requests, Release(r)
    PROVE  MilestonesIInv'
<1> USE DEF MilestonesIInv
<1>1. /\ hardened /\ active' = active \ {By(r)}
      /\ UNCHANGED <<hardened, validated, events, published>>
  BY DEF Release, At, SlotsAreHardened, HardenedOnly
<1>2. MilestonesInOrder' /\ PublishedIsRecorded'
  BY <1>1 DEF MilestonesInOrder, PublishedIsRecorded
<1>3. PICK x \in {"done", "failed"} : request' = [request EXCEPT ![r].at = x]
  BY <1>1, Order DEF Release, At, GoesOn
<1>4. x \in Awaits /\ x \notin HardenedOnly
  BY DEF Awaits, HardenedOnly
<1> QED
  BY <1>1, <1>2, <1>3, <1>4, MoveKeeps

\* A check only moves its request, and to an await that it knows enough for.
LEMMA CheckKeeps ==
    ASSUME MilestonesIInv, NEW r \in Requests, NEW x \in Awaits,
           request' = [request EXCEPT ![r].at = x],
           UNCHANGED <<hardened, validated, events, published, active>>,
           x \in HardenedOnly => hardened,
           x \notin {"mark", "publish"} \union NoSlot,
           hardened /\ x \in {"assigned", "event"} => \A n \in 1 .. Of(r) - 1 : n \in validated
    PROVE  MilestonesIInv'
<1> USE DEF MilestonesIInv
<1>1. MilestonesInOrder' /\ PublishedIsRecorded'
  BY DEF MilestonesInOrder, PublishedIsRecorded
<1>2. ~hardened => active' = {}
  BY DEF SlotsAreHardened
<1> QED
  BY <1>1, <1>2, MoveKeeps

\* The plain route has no slot to keep when it fails.
LEMMA FailureKeeps ==
    ASSUME MilestonesIInv, NEW r \in Requests, Fails(r),
           UNCHANGED <<hardened, validated, events, published, active>>
    PROVE  MilestonesIInv'
<1> USE DEF MilestonesIInv
<1>1. MilestonesInOrder' /\ PublishedIsRecorded'
  BY DEF MilestonesInOrder, PublishedIsRecorded
<1>2. ~hardened => active' = {}
  BY DEF SlotsAreHardened
<1>3. CASE hardened
  <2>1. request' = [request EXCEPT ![r].at = "give up"] /\ "give up" \in Awaits /\ "give up" \notin NoSlot
    BY <1>3 DEF Fails, Awaits, NoSlot
  <2> QED
    BY <1>1, <1>2, <1>3, <2>1, MoveKeeps
<1>4. CASE ~hardened
  <2>1. request' = [request EXCEPT ![r].at = "failed"] /\ "failed" \in Awaits /\ "failed" \notin HardenedOnly
    BY <1>4 DEF Fails, Awaits, HardenedOnly
  <2> QED
    BY <1>1, <1>2, <1>4, <2>1, MoveKeeps
<1> QED
  BY <1>3, <1>4 DEF MilestoneTypes

\* Going on at an await that records nothing.
LEMMA ReadKeeps ==
    ASSUME MilestonesIInv, NEW r \in Requests, GoesOn(r),
           request[r].at \in {"vault", "order", "assigned"},
           request[r].at = "order" => FirstPending(Of(r)),
           UNCHANGED <<hardened, validated, events, published, active>>
    PROVE  MilestonesIInv'
<1> DEFINE x == After(request[r].at)
<1>1. /\ x \in Awaits /\ x \notin {"mark", "publish"} \union NoSlot
      /\ x \in HardenedOnly => hardened
      /\ x = "assigned" => request[r].at = "order"
      /\ x = "event" => hardened /\ request[r].at = "assigned"
  BY Order DEF MilestonesIInv, SlotsAreHardened, HardenedOnly, Awaits, NoSlot
<1>2. request' = [request EXCEPT ![r].at = x]
  BY DEF GoesOn
<1>3. hardened /\ x \in {"assigned", "event"} => \A n \in 1 .. Of(r) - 1 : n \in validated
  BY <1>1 DEF FirstPending, MilestonesIInv, Knows
<1> HIDE DEF x
<1> QED
  BY <1>1, <1>2, <1>3, CheckKeeps

LEMMA CheckVaultKeeps ==
    ASSUME MilestonesIInv, NEW r \in Requests, CheckVault(r)
    PROVE  MilestonesIInv'
  BY ReadKeeps, FailureKeeps DEF CheckVault, At, GoesOnIf

LEMMA CheckOrderKeeps ==
    ASSUME MilestonesIInv, NEW r \in Requests, CheckOrder(r)
    PROVE  MilestonesIInv'
  BY ReadKeeps, FailureKeeps DEF CheckOrder, At, GoesOnIf

LEMMA CheckAssignedKeeps ==
    ASSUME MilestonesIInv, NEW r \in Requests, CheckAssigned(r)
    PROVE  MilestonesIInv'
  BY ReadKeeps, FailureKeeps DEF CheckAssigned, At, GoesOnIf

LEMMA AwaitFailsKeeps ==
    ASSUME MilestonesIInv, NEW r \in Requests, AwaitFails(r)
    PROVE  MilestonesIInv'
  BY FailureKeeps DEF AwaitFails

\* The hardened route also keeps what it read.
LEMMA GetMilestoneKeeps ==
    ASSUME MilestonesIInv, NEW r \in Requests, GetMilestone(r)
    PROVE  MilestonesIInv'
<1> USE DEF MilestonesIInv
<1>1. /\ request[r].at = "get"
      /\ UNCHANGED <<hardened, validated, events, published, active>>
  BY DEF GetMilestone, At
<1>2. CASE hardened
  <2> DEFINE b == Of(r) \notin validated
  <2>1. request' = [request EXCEPT ![r].at = "vault", ![r].pending = b] /\ b \in BOOLEAN
    BY <1>1, <1>2, Order DEF GetMilestone
  <2> HIDE DEF b
  <2>2. /\ MilestoneTypes'
        /\ request'[r].at = "vault" /\ By(r)' = By(r) /\ Of(r)' = Of(r)
        /\ \A q \in Requests \ {r} : request'[q] = request[q]
    BY <1>1, <2>1 DEF MilestoneTypes, Awaits, By, Of
  <2>3. SlotsAreHardened'
    BY <1>1, <1>2, <2>2 DEF SlotsAreHardened
  <2>4. ASSUME NEW q \in Requests PROVE Knows(q)'
    <3>1. CASE q = r
      BY <1>1, <2>2, <3>1 DEF Knows
    <3>2. CASE q # r
      BY <1>1, <2>2, <3>2 DEF Knows, Of, By
    <3> QED
      BY <3>1, <3>2
  <2>5. MilestonesInOrder' /\ PublishedIsRecorded'
    BY <1>1 DEF MilestonesInOrder, PublishedIsRecorded
  <2>6. SlotsAreReleased'
    <3> SUFFICES ASSUME NEW u \in active
                 PROVE  \E q \in Requests : By(q)' = u /\ request'[q].at \notin NoSlot
      BY <1>1 DEF SlotsAreReleased, NoSlot
    <3>1. PICK q \in Requests : By(q) = u /\ request[q].at \notin NoSlot
      BY DEF SlotsAreReleased, NoSlot
    <3> QED
      BY <2>2, <3>1 DEF By, NoSlot
  <2> QED
    BY <2>2, <2>3, <2>4, <2>5, <2>6
<1>3. CASE ~hardened /\ GoesOn(r)
  <2>1. request' = [request EXCEPT ![r].at = "event"]
    BY <1>1, <1>3, Order DEF GoesOn
  <2>2. "event" \in Awaits /\ "event" \notin HardenedOnly \union {"mark", "publish"} \union NoSlot
    BY DEF Awaits, HardenedOnly, NoSlot
  <2> QED
    BY <1>1, <1>3, <2>1, <2>2, CheckKeeps
<1>4. CASE Fails(r)
  BY <1>1, <1>4, FailureKeeps
<1> QED
  BY <1>2, <1>3, <1>4 DEF GetMilestone, GoesOnIf, MilestoneTypes

LEMMA CreateEventKeeps ==
    ASSUME MilestonesIInv, NEW r \in Requests, CreateEvent(r)
    PROVE  MilestonesIInv'
<1> USE DEF MilestonesIInv
<1>1. /\ request[r].at = "event" /\ events' = events \union {<<Of(r), By(r)>>}
      /\ UNCHANGED <<hardened, validated, published, active>>
  BY DEF CreateEvent, At
<1>2. MilestonesInOrder' /\ PublishedIsRecorded'
  BY <1>1 DEF MilestonesInOrder, PublishedIsRecorded
<1>3. hardened => \A n \in 1 .. Of(r) - 1 : n \in validated
  BY <1>1 DEF Knows
<1>4. ~hardened => active' = {}
  BY <1>1 DEF SlotsAreHardened
<1>5. PICK x \in {"mark", "give up", "failed"} :
          /\ request' = [request EXCEPT ![r].at = x]
          /\ x = "give up" => hardened
          /\ x = "failed" => ~hardened
  BY <1>1, Order DEF CreateEvent, GoesOnIf, GoesOn, Fails
<1>6. /\ x \in Awaits
      /\ x \in HardenedOnly => x = "give up"
      /\ x \in NoSlot => x = "failed"
  BY DEF Awaits, HardenedOnly, NoSlot
<1> QED
  BY <1>1, <1>2, <1>3, <1>4, <1>5, <1>6, MoveKeeps

\* Marking adds the milestone of a request that knows all earlier ones validated.
LEMMA MarkValidatedKeeps ==
    ASSUME MilestonesIInv, NEW r \in Requests, MarkValidated(r)
    PROVE  MilestonesIInv'
<1> USE DEF MilestonesIInv
<1>1. /\ request[r].at = "mark" /\ validated' = validated \union {Of(r)}
      /\ UNCHANGED <<hardened, events, published, active>>
  BY DEF MarkValidated, At
<1>2. request' = [request EXCEPT ![r].at = "publish"]
  BY <1>1, Order DEF MarkValidated, GoesOn
<1>3. <<Of(r), By(r)>> \in events /\ (hardened => \A n \in 1 .. Of(r) - 1 : n \in validated)
  BY <1>1 DEF Knows
<1>4. Of(r) \in Int
  BY DEF MilestoneTypes, Of, Milestone
<1>5. MilestonesInOrder'
  <2> SUFFICES ASSUME hardened, NEW m \in validated', NEW n \in 1 .. m
               PROVE  n \in validated'
    BY <1>1 DEF MilestonesInOrder
  <2>1. CASE m \in validated
    BY <1>1, <2>1 DEF MilestonesInOrder
  <2>2. CASE m = Of(r) /\ n # m
    BY <1>1, <1>3, <1>4, <2>2
  <2>3. CASE m = Of(r) /\ n = m
    BY <1>1, <2>3
  <2> QED
    BY <1>1, <2>1, <2>2, <2>3
<1>6. PublishedIsRecorded'
  BY <1>1 DEF PublishedIsRecorded
<1>7. ~hardened => active' = {}
  BY <1>1 DEF SlotsAreHardened
<1>8. "publish" \in Awaits /\ "publish" \notin HardenedOnly \union NoSlot
  BY DEF Awaits, HardenedOnly, NoSlot
<1> QED
  BY <1>1, <1>2, <1>3, <1>5, <1>6, <1>7, <1>8, MoveKeeps

LEMMA PublishKeeps ==
    ASSUME MilestonesIInv, NEW r \in Requests, Publish(r)
    PROVE  MilestonesIInv'
<1> USE DEF MilestonesIInv
<1>1. /\ request[r].at = "publish" /\ published' = published \union {<<Of(r), By(r)>>}
      /\ UNCHANGED <<hardened, validated, events, active>>
  BY DEF Publish, At
<1>2. Of(r) \in validated /\ <<Of(r), By(r)>> \in events
  BY <1>1 DEF Knows
<1>3. MilestonesInOrder' /\ PublishedIsRecorded'
  BY <1>1, <1>2 DEF MilestonesInOrder, PublishedIsRecorded
<1>4. ~hardened => active' = {}
  BY <1>1 DEF SlotsAreHardened
<1>5. PICK x \in {"release", "done"} :
          /\ request' = [request EXCEPT ![r].at = x]
          /\ x = "release" => hardened
          /\ x = "done" => ~hardened
  BY <1>1, Order DEF Publish, GoesOn, MilestoneTypes
<1>6. /\ x \in Awaits
      /\ x \in HardenedOnly => x = "release"
      /\ x \in NoSlot => x = "done"
  BY DEF Awaits, HardenedOnly, NoSlot
<1> QED
  BY <1>1, <1>3, <1>4, <1>5, <1>6, MoveKeeps

\* Nobody else touches requests, milestones, events or slots.
LEMMA ChangeVaultKeeps ==
    ASSUME MilestonesIInv, ChangeVault
    PROVE  MilestonesIInv'
  BY DEF MilestonesIInv, ChangeVault, MilestoneTypes, SlotsAreHardened, Knows, Of, By, MilestonesInOrder, PublishedIsRecorded,
         SlotsAreReleased

LEMMA StutterKeeps ==
    ASSUME MilestonesIInv, UNCHANGED vars
    PROVE  MilestonesIInv'
  BY DEF MilestonesIInv, vars, MilestoneTypes, SlotsAreHardened, Knows, Of, By, MilestonesInOrder, PublishedIsRecorded,
         SlotsAreReleased

LEMMA CrashKeeps ==
    ASSUME MilestonesIInv, Crash
    PROVE  MilestonesIInv'
<1> USE DEF MilestonesIInv
<1>1. active' = {} /\ UNCHANGED <<hardened, validated, events, published>>
  BY DEF Crash
<1>2. \A q \in Requests : request'[q].at \in {"idle", "done", "failed"}
  BY DEF Crash, MilestoneTypes
<1>3. MilestoneTypes'
  BY <1>1 DEF Crash, MilestoneTypes, Awaits
<1>4. SlotsAreHardened' /\ \A q \in Requests : Knows(q)'
  BY <1>1, <1>2 DEF SlotsAreHardened, HardenedOnly, Knows
<1>5. MilestonesInOrder' /\ PublishedIsRecorded' /\ SlotsAreReleased'
  BY <1>1 DEF MilestonesInOrder, PublishedIsRecorded, SlotsAreReleased
<1> QED
  BY <1>3, <1>4, <1>5

-----------------------------------------------------------------------------
\* The invariant is kept by every step.
THEOREM MilestonesInductive == Spec => []MilestonesIInv
<1>1. MilestonesIInv /\ [Next]_vars => MilestonesIInv'
  BY ArriveKeeps, TakeSlotKeeps, ReleaseKeeps, GetMilestoneKeeps, CheckVaultKeeps, CheckOrderKeeps,
     CheckAssignedKeeps, CreateEventKeeps, MarkValidatedKeeps, PublishKeeps, AwaitFailsKeeps,
     ChangeVaultKeeps, CrashKeeps, StutterKeeps DEF Next
<1> QED
  BY MilestonesInitially, <1>1, PTL DEF Spec

\* On the hardened route milestones are validated in their order, and whatever is
\* announced was recorded: validateMilestoneInvariants and the order of the three
\* writes, whatever the requests, the crashes and the failed awaits.
THEOREM MilestonesAreSound == Spec => []ValidationsAreSound
<1>1. MilestonesIInv => ValidationsAreSound
  BY DEF MilestonesIInv, ValidationsAreSound
<1> QED
  BY MilestonesInductive, <1>1, PTL

\* InMemoryValidationLimiter: every slot that is taken has a request that will
\* give it back, so no path through the handler leaks one.
THEOREM SlotsAreNotLeaked == Spec => []SlotsAreReleased
<1>1. MilestonesIInv => SlotsAreReleased
  BY DEF MilestonesIInv
<1> QED
  BY MilestonesInductive, <1>1, PTL

-----------------------------------------------------------------------------
(***************************************************************************)
(* Balance snapshots: only a COMMIT adds rows, all those of a call at      *)
(* once, and what a call has read no longer changes by then.               *)
(***************************************************************************)

SnapshotCalls == [at : {"idle", "existing", "failed", "resolved", "read", "done"}, source : Requested,
                  balances : SUBSET Holders, staged : SUBSET Holders,
                  answer : SUBSET [by : Takers, holder : Holders]]

\* Rows are of calls that are through, all of them or none.
SnapshotRows ==
    /\ rows \subseteq [by : Takers, holder : Holders]
    /\ \A row \in rows : take[row.by].at \in {"done", "failed"}
    /\ IsWhole(rows)

\* An answer is one of whole batches that are stored.
SnapshotAnswers ==
    \A t \in Takers :
        /\ take[t].at = "read" => take[t].balances # {}
        /\ take[t].at = "existing" => take[t].answer # {} /\ take[t].answer \subseteq rows /\ IsWhole(take[t].answer)
        /\ take[t].at = "done" => take[t].answer = Batch(t) /\ take[t].answer # {}

SnapshotsIInv ==
    /\ take \in [Takers -> SnapshotCalls] /\ holding \in [Sources -> SUBSET Holders]
    /\ SnapshotRows /\ SnapshotAnswers

\* A step that adds no row keeps the invariant when it changes one call, which is
\* not through, to a proper one, and gives it an answer only from the table.
LEMMA CallMovesOn ==
    ASSUME SnapshotsIInv, NEW t \in Takers, NEW call \in SnapshotCalls,
           take[t].at \in {"idle", "resolved", "read"}, take' = [take EXCEPT ![t] = call],
           rows' = rows, holding' = holding, call.at # "done",
           call.at = "read" => call.balances # {},
           call.at = "existing" => call.answer = rows /\ rows # {}
    PROVE  SnapshotsIInv'
<1>1. take'[t] = call /\ \A q \in Takers : q # t => take'[q] = take[q]
  BY DEF SnapshotsIInv
<1>2. take' \in [Takers -> SnapshotCalls]
  BY DEF SnapshotsIInv
<1>3. \A row \in rows : row.by \in Takers /\ row.by # t
  BY DEF SnapshotsIInv, SnapshotRows
<1>4. \A q \in Takers : q # t => Batch(q)' = Batch(q)
  BY <1>1 DEF Batch
<1>5. ASSUME NEW S \in SUBSET rows, IsWhole(S)
      PROVE  \A row \in S : row \in Batch(row.by)' /\ Batch(row.by)' \subseteq S
  BY <1>3, <1>4, <1>5 DEF IsWhole
<1>6. SnapshotRows'
  BY <1>1, <1>3, <1>5 DEF SnapshotsIInv, SnapshotRows, IsWhole
<1>7. SnapshotAnswers'
  <2> SUFFICES ASSUME NEW q \in Takers
               PROVE  /\ take'[q].at = "read" => take'[q].balances # {}
                      /\ take'[q].at = "existing" =>
                           /\ take'[q].answer # {} /\ take'[q].answer \subseteq rows
                           /\ \A row \in take'[q].answer : row \in Batch(row.by)' /\ Batch(row.by)' \subseteq take'[q].answer
                      /\ take'[q].at = "done" => take'[q].answer = Batch(q)' /\ take'[q].answer # {}
    BY DEF SnapshotAnswers, IsWhole
  <2>1. CASE q = t
    <3>1. call.at = "existing" => \A row \in rows : row \in Batch(row.by)' /\ Batch(row.by)' \subseteq rows
      BY <1>5 DEF SnapshotsIInv, SnapshotRows
    <3> QED
      BY <1>1, <2>1, <3>1
  <2>2. CASE q # t
    <3>1. take'[q] = take[q] /\ Batch(q)' = Batch(q)
      BY <1>1, <1>4, <2>2
    <3>2. take[q].at = "existing" =>
             \A row \in take[q].answer : row \in Batch(row.by)' /\ Batch(row.by)' \subseteq take[q].answer
      BY <1>5 DEF SnapshotsIInv, SnapshotAnswers
    <3> QED
      BY <3>1, <3>2 DEF SnapshotsIInv, SnapshotAnswers
  <2> QED
    BY <2>1, <2>2
<1> QED
  BY <1>2, <1>6, <1>7 DEF SnapshotsIInv

LEMMA SnapshotsInductive == SnapshotsIInv /\ [SnapshotsNext]_snapshotVars => SnapshotsIInv'
<1> SUFFICES ASSUME SnapshotsIInv, [SnapshotsNext]_snapshotVars PROVE SnapshotsIInv'
  OBVIOUS
<1>0. take \in [Takers -> SnapshotCalls] /\ holding \in [Sources -> SUBSET Holders]
      /\ rows \subseteq [by : Takers, holder : Holders]
  BY DEF SnapshotsIInv, SnapshotRows
<1>1. CASE UNCHANGED snapshotVars
  BY <1>1 DEF snapshotVars, SnapshotsIInv, SnapshotRows, SnapshotAnswers, IsWhole, Batch
<1>2. CASE HoldingsChange
  <2>1. holding' \in [Sources -> SUBSET Holders] /\ UNCHANGED <<take, rows>>
    BY <1>0, <1>2 DEF HoldingsChange
  <2> QED
    BY <2>1 DEF SnapshotsIInv, SnapshotRows, SnapshotAnswers, IsWhole, Batch
<1>3. ASSUME NEW t \in Takers, StartSnapshot(t) PROVE SnapshotsIInv'
  <2>1. PICK source \in Requested, skip \in BOOLEAN :
            take' = [take EXCEPT ![t] =
                [at |-> IF skip /\ rows # {} THEN "existing" ELSE IF Available(source) THEN "resolved" ELSE "failed",
                 source |-> source, balances |-> {}, staged |-> {}, answer |-> IF skip /\ rows # {} THEN rows ELSE {}]]
    BY <1>3 DEF StartSnapshot
  <2> DEFINE call == [at |-> IF skip /\ rows # {} THEN "existing" ELSE IF Available(source) THEN "resolved" ELSE "failed",
                      source |-> source, balances |-> {}, staged |-> {}, answer |-> IF skip /\ rows # {} THEN rows ELSE {}]
  <2>2. take[t].at = "idle" /\ UNCHANGED <<holding, rows>>
    BY <1>3 DEF StartSnapshot, AtStep
  <2>3. call \in SnapshotCalls /\ call.at \notin {"done", "read"} /\ (call.at = "existing" => call.answer = rows /\ rows # {})
    BY <1>0 DEF SnapshotCalls
  <2>4. take' = [take EXCEPT ![t] = call]
    BY <2>1
  <2> HIDE DEF call
  <2> QED
    BY <2>2, <2>3, <2>4, CallMovesOn
<1>4. ASSUME NEW t \in Takers, ReadBalances(t) PROVE SnapshotsIInv'
  <2> DEFINE found == holding[Effective(take[t].source)]
             call == [take[t] EXCEPT !.at = IF found = {} THEN "failed" ELSE "read", !.balances = found]
  <2>1. /\ take' = [take EXCEPT ![t].at = IF found = {} THEN "failed" ELSE "read", ![t].balances = found]
        /\ take[t].at = "resolved" /\ UNCHANGED <<holding, rows>>
    BY <1>4 DEF ReadBalances, AtStep
  <2>2. Effective(take[t].source) \in Sources
    BY <1>0 DEF Effective, SnapshotCalls, Requested, Sources
  <2>3. found \in SUBSET Holders
    BY <1>0, <2>2
  <2> HIDE DEF found
  <2>4. call \in SnapshotCalls /\ call.at \notin {"done", "existing"} /\ (call.at = "read" => call.balances # {})
    BY <1>0, <2>3 DEF SnapshotCalls
  <2>5. take' = [take EXCEPT ![t] = call]
    BY <1>0, <2>1
  <2> HIDE DEF call
  <2> QED
    BY <2>1, <2>4, <2>5, CallMovesOn
<1>5. ASSUME NEW t \in Takers, InsertRow(t) PROVE SnapshotsIInv'
  <2>1. PICK h \in take[t].balances : take' = [take EXCEPT ![t].staged = @ \union {h}]
    BY <1>5 DEF InsertRow
  <2>2. take[t].at = "read" /\ UNCHANGED <<holding, rows>>
    BY <1>5 DEF InsertRow, AtStep
  <2> DEFINE call == [take[t] EXCEPT !.staged = @ \union {h}]
  <2>3. call \in SnapshotCalls /\ call.at = "read" /\ call.balances # {}
    BY <1>0, <2>2 DEF SnapshotCalls, SnapshotsIInv, SnapshotAnswers
  <2>4. take' = [take EXCEPT ![t] = call]
    BY <1>0, <2>1
  <2> HIDE DEF call
  <2> QED
    BY <2>2, <2>3, <2>4, CallMovesOn
<1>6. ASSUME NEW t \in Takers, CommitRows(t) PROVE SnapshotsIInv'
  <2>1. /\ take[t].at = "read" /\ take[t].balances # {} /\ take[t].balances \subseteq Holders
        /\ rows' = rows \union Batch(t) /\ holding' = holding
    BY <1>0, <1>6 DEF CommitRows, AtStep, SnapshotsIInv, SnapshotAnswers, SnapshotCalls
  <2>2. Batch(t) \subseteq [by : Takers, holder : Holders] /\ Batch(t) # {}
    <3>1. \A h \in take[t].balances : [by |-> t, holder |-> h] \in [by : Takers, holder : Holders]
      BY <2>1
    <3>2. Batch(t) \subseteq [by : Takers, holder : Holders]
      BY <3>1, Zenon DEF Batch
    <3>3. PICK h \in take[t].balances : TRUE
      BY <2>1
    <3>4. [by |-> t, holder |-> h] \in Batch(t)
      BY <3>3, Zenon DEF Batch
    <3> QED
      BY <3>2, <3>4
  <2>3. /\ take' \in [Takers -> SnapshotCalls] /\ \A q \in Takers : take'[q].balances = take[q].balances
        /\ \A q \in Takers : q # t => take'[q] = take[q]
        /\ \/ take'[t].at = "done" /\ take'[t].answer = Batch(t)
           \/ take'[t].at = "failed"
    <3>1. CASE take' = [take EXCEPT ![t].at = "done", ![t].answer = Batch(t)]
      BY <1>0, <2>2, <3>1 DEF SnapshotCalls
    <3>2. CASE take' = [take EXCEPT ![t].at = "failed"]
      BY <1>0, <3>2 DEF SnapshotCalls
    <3> QED
      BY <1>6, <3>1, <3>2 DEF CommitRows, Goes
  <2>4. \A q \in Takers : Batch(q)' = Batch(q)
    BY <2>3 DEF Batch
  <2>5. \A row \in rows' : row.by \in Takers /\ row \in Batch(row.by) /\ Batch(row.by) \subseteq rows'
    <3>1. \A row \in rows : row.by \in Takers /\ row \in Batch(row.by) /\ Batch(row.by) \subseteq rows
      BY <1>0 DEF SnapshotsIInv, SnapshotRows, IsWhole
    <3>2. \A row \in Batch(t) : row.by = t
      BY DEF Batch
    <3> QED
      BY <2>1, <3>1, <3>2
  <2>6. SnapshotRows'
    <3>1. \A row \in rows' : take'[row.by].at \in {"done", "failed"}
      <4>1. \A row \in rows : row.by \in Takers /\ take[row.by].at \in {"done", "failed"}
        BY <1>0 DEF SnapshotsIInv, SnapshotRows
      <4>2. \A row \in Batch(t) : row.by = t
        BY DEF Batch
      <4> QED
        BY <2>1, <2>3, <4>1, <4>2
    <3>2. rows' \subseteq [by : Takers, holder : Holders]
      BY <1>0, <2>1, <2>2
    <3>3. IsWhole(rows)'
      BY <2>4, <2>5 DEF IsWhole
    <3> QED
      BY <3>1, <3>2, <3>3 DEF SnapshotRows
  <2>7. SnapshotAnswers'
    <3> SUFFICES ASSUME NEW q \in Takers
                 PROVE  /\ take'[q].at = "read" => take'[q].balances # {}
                        /\ take'[q].at = "existing" =>
                             take'[q].answer # {} /\ take'[q].answer \subseteq rows' /\ IsWhole(take[q].answer)'
                        /\ take'[q].at = "done" => take'[q].answer = Batch(q)' /\ take'[q].answer # {}
      BY DEF SnapshotAnswers
    <3>1. CASE q = t
      BY <2>2, <2>3, <2>4, <3>1
    <3>2. CASE q # t
      <4>1. take'[q] = take[q]
        BY <2>3, <3>2
      <4>2. take[q].at = "existing" => take[q].answer \subseteq rows /\ IsWhole(take[q].answer)
        BY DEF SnapshotsIInv, SnapshotAnswers
      <4>3. take[q].at = "existing" => IsWhole(take[q].answer)'
        <5>1. \A row \in rows : row.by \in Takers
          BY <1>0
        <5> QED
          BY <2>4, <4>1, <4>2, <5>1 DEF IsWhole
      <4> QED
        BY <2>1, <2>4, <4>1, <4>2, <4>3 DEF SnapshotsIInv, SnapshotAnswers
    <3> QED
      BY <3>1, <3>2
  <2> QED
    BY <2>1, <2>3, <2>6, <2>7, <1>0 DEF SnapshotsIInv
<1>7. ASSUME NEW t \in Takers, TakeFails(t) PROVE SnapshotsIInv'
  <2> DEFINE call == [take[t] EXCEPT !.at = "failed"]
  <2>1. take[t].at \in {"idle", "resolved", "read"} /\ UNCHANGED <<holding, rows>>
    BY <1>7 DEF TakeFails
  <2>2. call \in SnapshotCalls /\ call.at = "failed"
    BY <1>0 DEF SnapshotCalls
  <2>3. take' = [take EXCEPT ![t] = call]
    BY <1>0, <1>7 DEF TakeFails, Goes
  <2> HIDE DEF call
  <2> QED
    BY <2>1, <2>2, <2>3, CallMovesOn
<1> QED
  BY <1>1, <1>2, <1>3, <1>4, <1>5, <1>6, <1>7 DEF SnapshotsNext

\* For any calls, holders and sources: no partial snapshot is stored or answered.
THEOREM SnapshotsStayWhole == SnapshotsSpec => []SnapshotsAreWhole
<1>1. SnapshotsInit => SnapshotsIInv
  BY DEF SnapshotsInit, SnapshotsIInv, SnapshotRows, SnapshotAnswers, SnapshotCalls, Requested, IsWhole
<1>2. SnapshotsIInv => SnapshotsAreWhole
  BY DEF SnapshotsIInv, SnapshotRows, SnapshotAnswers, SnapshotsAreWhole
<1> QED
  BY <1>1, <1>2, SnapshotsInductive, PTL DEF SnapshotsSpec

-----------------------------------------------------------------------------
(***************************************************************************)
(* Revenue reports.  The overlap check saw the reports that were there;    *)
(* those that came since are kept apart by the unique index alone.         *)
(***************************************************************************)

Submissions == [stage : {"idle", "checked", "inserted", "refused"}, amount : Int, from : Int, to : Int]

Overlap(s, t) == submit[s].from < submit[t].to /\ submit[t].from < submit[s].to
Same(s, t) == submit[s].from = submit[t].from /\ submit[s].to = submit[t].to

\* A report that passed the check overlaps none that it saw.
ReportsIInv ==
    /\ submit \in [Submits -> Submissions] /\ seen \in [Submits -> SUBSET Submits]
    /\ \A s \in Submits : submit[s].stage \in {"checked", "inserted"} =>
          \A t \in seen[s] : submit[t].stage = "inserted" /\ ~Overlap(s, t)
    /\ \A s, t \in Submits :
          submit[s].stage = "inserted" /\ submit[t].stage = "inserted" /\ s # t => ~Same(s, t)

LEMMA ReportsInductive ==
    ASSUME ReportsIInv, [RevenueNext]_revenueVars
    PROVE  ReportsIInv'
<1> USE DEF ReportsIInv
<1>1. CASE UNCHANGED <<submit, seen>>
  BY <1>1 DEF Overlap, Same
<1>2. ASSUME NEW s \in Submits, CheckReport(s) PROVE ReportsIInv'
  <2>1. submit[s].stage = "idle" /\ seen' = [seen EXCEPT ![s] = Reports] /\ Reports \in SUBSET Submits
    BY <1>2 DEF CheckReport, Reports
  <2>2. CASE submit' = [submit EXCEPT ![s].stage = "refused"]
    <3>1. /\ submit' \in [Submits -> Submissions] /\ seen' \in [Submits -> SUBSET Submits]
          /\ \A t \in Submits : submit'[t].from = submit[t].from /\ submit'[t].to = submit[t].to
          /\ \A t \in Submits : submit'[t].stage = IF t = s THEN "refused" ELSE submit[t].stage
          /\ \A t \in Submits : t # s => seen'[t] = seen[t]
      BY <2>1, <2>2 DEF Submissions
    <3>2. \A q, t \in Submits : (Overlap(q, t)' <=> Overlap(q, t)) /\ (Same(q, t)' <=> Same(q, t))
      BY <3>1 DEF Overlap, Same
    <3>3. \A q \in Submits : submit'[q].stage \in {"checked", "inserted"} =>
             \A t \in seen'[q] : submit'[t].stage = "inserted" /\ ~Overlap(q, t)'
      BY <2>1, <3>1, <3>2
    <3> QED
      BY <3>1, <3>2, <3>3
  <2>3. ASSUME NEW input \in Inputs, Conflicts(input) = {},
               submit' = [submit EXCEPT ![s] =
                 [stage |-> "checked", amount |-> input.amount, from |-> input.from, to |-> input.to]]
        PROVE  ReportsIInv'
    <3>1. input.amount \in Int /\ input.from \in Int /\ input.to \in Int
      <4>1. Amounts \union {0, MaxAmount + 1} \subseteq Int /\ Days \subseteq Int
        <5>1. Amounts \subseteq Int /\ MaxAmount \in Int
          BY MoneyAssumption
        <5>2. Days \subseteq Int
          BY DaysAssumption DEF Days
        <5> QED
          BY <5>1, <5>2
      <4>2. input.amount \in Amounts \union {0, MaxAmount + 1} /\ input.from \in Days /\ input.to \in Days
        BY <2>3 DEF Inputs
      <4> QED
        BY <4>1, <4>2
    <3>2. submit'[s] = [stage |-> "checked", amount |-> input.amount, from |-> input.from, to |-> input.to]
      BY <2>3
    <3>3. \A q \in Submits : q # s => submit'[q] = submit[q] /\ seen'[q] = seen[q]
      BY <2>1, <2>3
    <3>4. \A t \in Reports : t # s /\ submit[t].stage = "inserted" /\ ~(submit[t].from < input.to /\ submit[t].to > input.from)
      BY <2>1, <2>3 DEF Conflicts, Overlapping, Reports
    <3>5. \A t \in Reports : submit'[t].stage = "inserted" /\ ~Overlap(s, t)'
      BY <2>1, <3>1, <3>2, <3>3, <3>4 DEF Overlap, Submissions
    <3>6. submit' \in [Submits -> Submissions] /\ seen' \in [Submits -> SUBSET Submits]
      BY <2>1, <2>3, <3>1 DEF Submissions
    <3>7. ASSUME NEW q \in Submits, q # s, submit[q].stage \in {"checked", "inserted"}, NEW t \in seen[q]
          PROVE  submit'[t].stage = "inserted" /\ ~Overlap(q, t)'
      <4>1. t \in Submits /\ t # s /\ ~Overlap(q, t) /\ submit[t].stage = "inserted"
        BY <2>1, <3>7
      <4> QED
        BY <3>3, <3>7, <4>1 DEF Overlap
    <3>8. \A q, t \in Submits :
            submit'[q].stage = "inserted" /\ submit'[t].stage = "inserted" /\ q # t => ~Same(q, t)'
      BY <3>2, <3>3 DEF Same
    <3> QED
      BY <2>1, <3>2, <3>3, <3>5, <3>6, <3>7, <3>8
  <2> QED
    BY <1>2, <2>2, <2>3 DEF CheckReport
<1>3. ASSUME NEW s \in Submits, InsertReport(s) PROVE ReportsIInv'
  <2>1. submit[s].stage = "checked" /\ seen' = seen
    BY <1>3 DEF InsertReport
  <2>2. \A t \in Submits : seen[t] \subseteq Submits
    OBVIOUS
  <2>3. CASE submit' = [submit EXCEPT ![s].stage = "refused"]
    BY <2>1, <2>2, <2>3 DEF Submissions, Overlap, Same
  <2>4. CASE ~PeriodTaken(s) /\ submit' = [submit EXCEPT ![s].stage = "inserted"]
    <3>1. \A t \in Submits : submit[t].stage = "inserted" => ~Same(s, t) /\ ~Same(t, s)
      BY <2>4 DEF PeriodTaken, SamePeriod, Reports, Same
    <3>2. /\ submit' \in [Submits -> Submissions]
          /\ \A t \in Submits : submit'[t].from = submit[t].from /\ submit'[t].to = submit[t].to
          /\ \A t \in Submits : submit'[t].stage = IF t = s THEN "inserted" ELSE submit[t].stage
      BY <2>4 DEF Submissions
    <3>3. \A q, t \in Submits : (Overlap(q, t)' <=> Overlap(q, t)) /\ (Same(q, t)' <=> Same(q, t))
      BY <3>2 DEF Overlap, Same
    <3> QED
      BY <2>1, <2>2, <3>1, <3>2, <3>3
  <2> QED
    BY <1>3, <2>3, <2>4 DEF InsertReport
<1> QED
  BY <1>1, <1>2, <1>3 DEF RevenueNext, revenueVars, CreateRun, UpdateRunStatus, Settle, ReadReports, ReadRuns,
     DetectChainDrift, Answer, ValidateReport, VerifyRun

\* For any submissions: two reports overlap only if neither was there when the
\* other was checked, and no two have the same period.
THEOREM ReportsOverlapSeldom == RevenueSpec => []ReportsOverlapOnlyByRace
<1>1. RevenueInit => ReportsIInv
  BY DEF RevenueInit, ReportsIInv, Submissions
<1>2. ReportsIInv => ReportsOverlapOnlyByRace
  BY DEF ReportsIInv, ReportsOverlapOnlyByRace, Reports, Overlap, Same, Submissions
<1> QED
  BY <1>1, <1>2, ReportsInductive, PTL DEF RevenueSpec

-----------------------------------------------------------------------------
(***************************************************************************)
(* The validation matrix.  Investing does not ask for a minimum; that an   *)
(* offering has one rests on what every way to get there has asked.        *)
(***************************************************************************)

\* An offering that exists has a target and a minimum.
OfferingHasAmounts ==
    kept.status # "none" => kept.minimum > 0 /\ kept.target > 0

KeptOfferings == [status : {"none", "draft", "open", "paused", "closed", "cancelled"}, issuer : Issuers,
                  target : Money, minimum : Money, starts : Dates, ends : Dates]

MatrixIInv == kept \in KeptOfferings /\ instant \in Int /\ raised \in Int /\ OfferingHasAmounts

LEMMA MatrixInductive ==
    ASSUME MatrixIInv, [MatrixNext]_matrixVars
    PROVE  MatrixIInv'
<1> USE DEF MatrixIInv
<1>1. CASE UNCHANGED matrixVars
  BY <1>1 DEF matrixVars, OfferingHasAmounts
<1>2. ASSUME NEW a \in Actors, Create(a) PROVE MatrixIInv'
  BY <1>2 DEF Create, MatrixAllows, AmountsValid, MinimumValid, OfferingHasAmounts, KeptOfferings
<1>3. ASSUME NEW a \in Actors, Update(a) PROVE MatrixIInv'
  <2>1. PICK o \in Edits : MatrixAllows(a, "update", o, Absent) /\ kept' = o
    BY <1>3 DEF Update
  <2>2. o \in KeptOfferings
    BY <2>1 DEF Edits, KeptOfferings
  <2> QED
    BY <1>3, <2>1, <2>2 DEF Update, MatrixAllows, AmountsValid, MinimumValid, OfferingHasAmounts
<1>4. ASSUME NEW a \in Actors, NEW action \in DOMAIN Becomes, Move(a, action) PROVE MatrixIInv'
  <2>1. kept.status # "none" /\ Becomes[action] \in {"open", "paused", "closed", "cancelled"}
    BY <1>4 DEF Move, MatrixAllows, StatusEligible, Becomes
  <2> QED
    BY <1>4, <2>1 DEF Move, OfferingHasAmounts, KeptOfferings
<1>5. ASSUME NEW a \in Actors, NEW amount \in 0 .. MaxMoney, Invest(a, amount) PROVE MatrixIInv'
  BY <1>5 DEF Invest, OfferingHasAmounts
<1>6. CASE PassTime
  BY <1>6 DEF PassTime, OfferingHasAmounts
<1> QED
  BY <1>1, <1>2, <1>3, <1>4, <1>5, <1>6 DEF MatrixNext

\* For any amounts and times: whoever is allowed to invest invests between the
\* minimum and the target of an open offering, which has both.
THEOREM InvestmentsFit == MatrixSpec => InvestmentsFitTheOffering
<1>1. MatrixInit => MatrixIInv
  BY DEF MatrixInit, MatrixIInv, OfferingHasAmounts, KeptOfferings
<1>2. MatrixIInv /\ [MatrixNext]_matrixVars =>
         [raised' # raised =>
            /\ kept.status = "open"
            /\ 0 < kept.minimum /\ kept.minimum <= raised' - raised /\ raised' - raised <= kept.target
            /\ kept.starts <= instant /\ instant <= kept.ends]_matrixVars
  <2> SUFFICES ASSUME MatrixIInv, [MatrixNext]_matrixVars, raised' # raised
               PROVE  /\ kept.status = "open"
                      /\ 0 < kept.minimum /\ kept.minimum <= raised' - raised /\ raised' - raised <= kept.target
                      /\ kept.starts <= instant /\ instant <= kept.ends
    OBVIOUS
  <2>1. PICK a \in Actors, amount \in 0 .. MaxMoney : Invest(a, amount)
    BY DEF MatrixNext, matrixVars, Create, Update, Move, PassTime
  <2>2. /\ raised' = raised + amount /\ kept.status = "open"
        /\ InvestmentValid(a, kept, amount)
    BY <2>1 DEF Invest, MatrixAllows, StatusEligible
  <2>3. kept.minimum > 0 /\ kept.target > 0 /\ kept.minimum \in Int /\ kept.target \in Int /\ raised \in Int /\ amount \in Int
    BY <2>2 DEF MatrixIInv, OfferingHasAmounts, KeptOfferings, Money, Absent
  <2>4. kept.minimum <= amount /\ amount <= kept.target /\ kept.starts <= instant /\ instant <= kept.ends
    BY <2>2, <2>3 DEF InvestmentValid, Absent
  <2> QED
    BY <2>2, <2>3, <2>4
<1> QED
  BY <1>1, <1>2, MatrixInductive, PTL DEF MatrixSpec, InvestmentsFitTheOffering

-----------------------------------------------------------------------------
(***************************************************************************)
(* The arithmetic of a distribution: the payouts are the rounded shares    *)
(* with the rounded difference on one of them, so their sum is the sum of  *)
(* the shares and the difference, however many investors there are.        *)
(***************************************************************************)

SharesTypes ==
    /\ \E n \in Nat \ {0} : balances \in [1 .. n -> 0 .. MaxBalance]
    /\ TotalBalance \in Nat \ {0} /\ revenue \in Nat
    /\ rounded = <<>> \/ rounded \in [DOMAIN balances -> Int]

SharesIInv == SharesTypes /\ PayoutsAddUp

\* There is a first of the largest balances.
LEMMA LargestExists ==
    ASSUME NEW n \in Nat \ {0}, balances \in [1 .. n -> 0 .. MaxBalance]
    PROVE  MaxIndex \in 1 .. n
<1> DEFINE left == {MaxBalance - balances[m] : m \in 1 .. n}
<1>0. MaxBalance \in Nat
  BY SharesAssumption
<1>1. \A m \in 1 .. n : balances[m] \in 0 .. MaxBalance
  OBVIOUS
<1>2. left \in SUBSET Nat /\ MaxBalance - balances[1] \in left
  BY <1>0, <1>1
<1>3. PICK least \in left : \A k \in left : least <= k
  <2> HIDE DEF left
  <2> QED
    BY <1>2, LeastNumber
<1> DEFINE largest == {m \in 1 .. n : MaxBalance - balances[m] = least}
<1>4. largest \in SUBSET Nat /\ largest # {}
  BY <1>3
<1>5. PICK first \in largest : \A m \in largest : first <= m
  <2> HIDE DEF largest
  <2> QED
    BY <1>4, LeastNumber
<1>6. ASSUME NEW m \in 1 .. n
      PROVE  balances[m] < balances[first] \/ (balances[m] = balances[first] /\ first <= m)
  <2>1. first \in 1 .. n /\ MaxBalance - balances[first] = least
    BY <1>5
  <2>2. least <= MaxBalance - balances[m]
    BY <1>3
  <2>3. CASE MaxBalance - balances[m] = least
    <3>1. first <= m
      BY <1>5, <2>3
    <3> QED
      BY <3>1, <2>1, <2>3, <1>0, <1>1
  <2>4. CASE MaxBalance - balances[m] # least
    BY <2>1, <2>2, <2>4, <1>0, <1>1
  <2> QED
    BY <2>3, <2>4
<1>7. first \in DOMAIN balances /\ DOMAIN balances = 1 .. n
  BY <1>5
<1> QED
  BY <1>6, <1>7 DEF MaxIndex

LEMMA RoundingIsInt ==
    ASSUME NEW n \in Int, NEW d \in Nat \ {0}, NEW below
    PROVE  Rounding(n, d, below) \in Int
<1>1. 2 * n + d \in Int /\ 2 * d \in Nat \ {0}
  OBVIOUS
<1>2. (2 * n + d) \div (2 * d) \in Int
  <2> DEFINE a == 2 * n + d
             b == 2 * d
  <2>1. a \in Int /\ b \in Nat \ {0}
    BY <1>1
  <2> HIDE DEF a, b
  <2>2. a \div b \in Int
    BY <2>1
  <2> QED
    BY <2>2 DEF a, b
<1>3. RoundHalfUp(n, d) \in Int
  BY <1>2 DEF RoundHalfUp
<1> QED
  BY <1>3 DEF Rounding

\* Rounded to cents, an amount of mills is half a cent away at most.
LEMMA RoundingIsNear ==
    ASSUME NEW n \in Int, NEW below
    PROVE  10 * Rounding(n, 10, below) - n \in -5 .. 5
<1> DEFINE up == (2 * n + 10) \div 20
<1>1. up \in Int /\ 20 * up <= 2 * n + 10 /\ 2 * n + 10 < 20 * up + 20
  OBVIOUS
<1>2. (2 * n + 10) % 20 = 2 * n + 10 - 20 * up
  OBVIOUS
<1>3. RoundHalfUp(n, 10) = up /\ (Tie(n, 10) <=> 2 * n + 10 - 20 * up = 0)
  BY <1>2 DEF RoundHalfUp, Tie
<1> HIDE DEF up
<1>4. CASE below /\ Tie(n, 10)
  <2>1. Rounding(n, 10, below) = up - 1
    BY <1>3, <1>4 DEF Rounding
  <2>2. 2 * n + 10 - 20 * up = 0
    BY <1>3, <1>4
  <2>3. 10 * (up - 1) - n = -5
    BY <2>2, <1>1
  <2> QED
    BY <2>1, <2>3
<1>5. CASE ~(below /\ Tie(n, 10))
  <2>1. Rounding(n, 10, below) = up
    BY <1>3, <1>5 DEF Rounding
  <2> QED
    BY <2>1, <1>1
<1> QED
  BY <1>4, <1>5

LEMMA SharesInductive == SharesIInv /\ [SharesNext]_shareVars => SharesIInv'
<1> SUFFICES ASSUME SharesIInv, [SharesNext]_shareVars PROVE SharesIInv'
  OBVIOUS
<1>1. SharesTypes /\ PayoutsAddUp
  BY DEF SharesIInv
<1>2. PICK n \in Nat \ {0} : balances \in [1 .. n -> 0 .. MaxBalance]
  BY <1>1 DEF SharesTypes
<1>3. DOMAIN balances = 1 .. n /\ revenue \in Nat /\ TotalBalance \in Nat \ {0}
  BY <1>1, <1>2 DEF SharesTypes
<1>4. MaxBalance \in Nat
  BY SharesAssumption
<1>5. CASE RoundShares
  <2>1. PICK below \in SUBSET DOMAIN balances :
          rounded' = [m \in DOMAIN balances |->
              Rounding(balances[m] * revenue, 10 * TotalBalance, m \in below)]
    BY <1>5 DEF RoundShares
  <2>2. balances' = balances /\ revenue' = revenue /\ payouts' = payouts
    BY <1>5 DEF RoundShares
  <2>3. TotalBalance' = TotalBalance
    BY <2>2 DEF TotalBalance
  <2>4. ASSUME NEW m \in DOMAIN balances
        PROVE  Rounding(balances[m] * revenue, 10 * TotalBalance, m \in below) \in Int
    <3>1. balances[m] \in Nat
      BY <1>2, <1>4
    <3>2. balances[m] * revenue \in Int /\ 10 * TotalBalance \in Nat \ {0}
      BY <3>1, <1>3
    <3> QED
      BY <3>2, RoundingIsInt
  <2>5. rounded' \in [DOMAIN balances -> Int]
    BY <2>1, <2>4
  <2> QED
    BY <1>1, <2>2, <2>3, <2>5 DEF SharesIInv, SharesTypes, PayoutsAddUp
<1>6. CASE AdjustLargest
  <2>1. PICK below \in BOOLEAN : payouts' = [rounded EXCEPT ![MaxIndex] = @ + Difference(below)]
    BY <1>6 DEF AdjustLargest
  <2>2. balances' = balances /\ revenue' = revenue /\ rounded' = rounded /\ rounded # <<>>
    BY <1>6 DEF AdjustLargest
  <2>3. TotalBalance' = TotalBalance
    BY <2>2 DEF TotalBalance
  <2>4. MaxIndex \in 1 .. n /\ rounded \in [1 .. n -> Int]
    BY <1>1, <1>2, <1>3, <2>2, LargestExists DEF SharesTypes
  <2>5. IsFiniteSet(1 .. n)
    BY FS_Interval
  <2> DEFINE total == SumFunction(rounded)
             diff == Difference(below)
  <2>6. total \in Int
    BY <2>4, <2>5, SumIsInt DEF SumFunction
  <2>7. revenue - 10 * total \in Int
    BY <2>6, <1>3
  <2>8. diff \in Int /\ 10 * diff - (revenue - 10 * total) \in -5 .. 5
    BY <2>7, RoundingIsInt, RoundingIsNear DEF Difference
  <2>9. SumFunction(payouts') = total + diff
    <3> HIDE DEF diff
    <3>1. payouts' = [rounded EXCEPT ![MaxIndex] = rounded[MaxIndex] + diff]
      BY <2>1 DEF diff
    <3>2. payouts' \in [1 .. n -> Int] /\ payouts'[MaxIndex] = rounded[MaxIndex] + diff
      BY <3>1, <2>4, <2>8
    <3>3. \A m \in (1 .. n) \ {MaxIndex} : payouts'[m] = rounded[m]
      BY <3>1, <2>4
    <3>4. \A m \in 1 .. n : rounded[m] \in Int /\ payouts'[m] \in Int
      BY <3>2, <2>4
    <3>5. SumFunctionOnSet(payouts', 1 .. n)
            = SumFunctionOnSet(rounded, 1 .. n) + (payouts'[MaxIndex] - rounded[MaxIndex])
      BY <2>4, <2>5, <3>3, <3>4, SumChanges
    <3>6. DOMAIN payouts' = 1 .. n /\ DOMAIN rounded = 1 .. n
      BY <3>2, <2>4
    <3>7. payouts'[MaxIndex] - rounded[MaxIndex] = diff
      BY <3>2, <3>4, <2>4, <2>8
    <3> QED
      BY <3>5, <3>6, <3>7 DEF SumFunction
  <2> HIDE DEF total, diff
  <2>10. Distance(10 * (total + diff), revenue) <= 5
    BY <2>6, <2>8, <1>3 DEF Distance
  <2> QED
    BY <1>1, <2>2, <2>3, <2>9, <2>10 DEF SharesIInv, SharesTypes, PayoutsAddUp
<1>7. CASE UNCHANGED shareVars
  <2>1. balances' = balances /\ revenue' = revenue /\ rounded' = rounded /\ payouts' = payouts
    BY <1>7 DEF shareVars
  <2>2. TotalBalance' = TotalBalance
    BY <2>1 DEF TotalBalance
  <2> QED
    BY <1>1, <2>1, <2>2 DEF SharesIInv, SharesTypes, PayoutsAddUp
<1> QED
  BY <1>5, <1>6, <1>7 DEF SharesNext

\* For any investors, balances and revenue: once the payouts are computed, they add
\* up to the revenue to the nearest cent, although each share was rounded.
THEOREM PayoutsAlwaysAddUp == SharesSpec => []PayoutsAddUp
<1>1. SharesInit => SharesIInv
  <2> SUFFICES ASSUME SharesInit PROVE SharesIInv
    OBVIOUS
  <2>1. PICK n \in 1 .. MaxInvestors : balances \in [1 .. n -> 0 .. MaxBalance]
    BY DEF SharesInit
  <2>2. MaxBalance \in Nat /\ MaxRevenue \in Nat /\ MaxInvestors \in Nat
    BY SharesAssumption
  <2>3. n \in Nat \ {0} /\ IsFiniteSet(1 .. n)
    BY <2>2, FS_Interval
  <2>4. \A m \in 1 .. n : balances[m] \in Int
    BY <2>1, <2>2
  <2>5. DOMAIN balances = 1 .. n
    BY <2>1
  <2>6. SumFunctionOnSet(balances, 1 .. n) \in Int
    BY <2>3, <2>4, SumIsInt
  <2>7. TotalBalance \in Int
    BY <2>5, <2>6 DEF TotalBalance, SumFunction
  <2>8. TotalBalance \in Nat \ {0}
    BY <2>7 DEF SharesInit
  <2>9. revenue \in Nat
    BY <2>2 DEF SharesInit
  <2> QED
    BY <2>1, <2>3, <2>8, <2>9 DEF SharesInit, SharesIInv, SharesTypes, PayoutsAddUp
<1>2. SharesIInv => PayoutsAddUp
  BY DEF SharesIInv
<1> QED
  BY <1>1, <1>2, SharesInductive, PTL DEF SharesSpec

-----------------------------------------------------------------------------
(***************************************************************************)
(* Reconciliation.  Once a check has read the runs, the difference that it *)
(* found is at least what is unpaid now, less half a cent for each rounded *)
(* sum: reports were read before, and what completed runs have paid only   *)
(* grows.                                                                  *)
(***************************************************************************)

RunRecords == [status : {"none", "processing", "completed", "failed"}, amount : Nat, day : Int]
CheckRecords == [kind : Kinds, drift : BOOLEAN, period : Days \X Days,
                 tolerance : Tolerances \union {Tolerance, NotANumber},
                 stage : {"idle", "reports", "drift", "answer", "balanced", "unbalanced", "valid", "invalid"}]
Findings == [reported : Int, revenue : Int, difference : Int, issues : SUBSET {"error", "warning"}]

RevenueTypes ==
    /\ submit \in [Submits -> Submissions]
    /\ run \in [Runs -> RunRecords]
    /\ check \in [Checks -> CheckRecords]
    /\ got \in [Checks -> Findings]

Unpaid(c) == got[c].reported - PaidIn(check[c].period)

\* A tolerance that is a number is kept.
Tolerated(c) == check[c].tolerance # NotANumber => got[c].difference <= check[c].tolerance

Covered(c) ==
    /\ check[c].stage = "reports" => 2 * (got[c].reported - got[c].revenue) <= Cent
    /\ check[c].stage \in {"drift", "answer", "balanced"} =>
          /\ Unpaid(c) <= got[c].difference + Cent
          /\ check[c].kind = "full" /\ got[c].issues = {} => Tolerated(c)
          /\ check[c].stage = "balanced" => Tolerated(c)

DifferencesCover == \A c \in Checks : Covered(c)

BalanceIInv == RevenueTypes /\ DifferencesCover

\* toFixed(2) is wrong by half a cent at most.
LEMMA RoundedIsNear ==
    ASSUME NEW mills \in Int, NEW cents \in ToCents(mills)
    PROVE  /\ cents \in Int
           /\ 2 * (mills - cents) <= Cent /\ 2 * (cents - mills) <= Cent
<1> DEFINE below == Cent * (mills \div Cent)
<1>1. below \in Int
  BY DEF Cent
<1>2. cents \in {below, below + Cent} /\ 2 * Abs(cents - mills) <= Cent
  BY DEF ToCents
<1> HIDE DEF below
<1>3. cents \in Int
  BY <1>1, <1>2 DEF Cent
<1> QED
  BY <1>2, <1>3 DEF Abs, Cent

\* What does not exceed a number is at most that number.
LEMMA NotExceeded ==
    ASSUME NEW difference \in Int, NEW most \in Int, most # NotANumber,
           FALSE \in Exceeds(Abs(difference), most)
    PROVE  difference <= most
<1>1. Abs(difference) \in Int /\ difference <= Abs(difference)
  BY DEF Abs
<1>2. Abs(difference) <= most
  BY DEF Exceeds
<1> QED
  BY <1>1, <1>2

LEMMA AmountsAddUp ==
    ASSUME RevenueTypes, NEW period
    PROVE  /\ SumFunctionOnSet(Reported, ReportsIn(period)) \in Int
           /\ \A runs \in SUBSET Runs : SumFunctionOnSet(Paid, {r \in runs : Counted(r)}) \in Int
           /\ PaidIn(period) \in Nat
<1>1. \A s \in Submits : Reported[s] \in Int
  BY DEF Reported, RevenueTypes, Submissions
<1>2. \A r \in Runs : Paid[r] \in Nat
  BY DEF Paid, RevenueTypes, RunRecords
<1>3. ReportsIn(period) \in SUBSET Submits
  BY DEF ReportsIn, Reports
<1>4. {r \in RunsIn(period) : run[r].status = "completed"} \in SUBSET Runs
  BY DEF RunsIn
<1>5. SumFunctionOnSet(Reported, ReportsIn(period)) \in Int
  BY <1>1, <1>3, CallsAreFinite, SumIsInt
<1>6. \A runs \in SUBSET Runs : SumFunctionOnSet(Paid, runs) \in Int
  BY <1>2, CallsAreFinite, SumIsInt
<1>7. \A runs \in SUBSET Runs : {r \in runs : Counted(r)} \in SUBSET Runs
  OBVIOUS
<1>8. PaidIn(period) \in Int
  BY <1>4, <1>6 DEF PaidIn
<1>9. 0 <= PaidIn(period)
  <2>1. \A s, t \in SUBSET Runs : s \subseteq t => SumFunctionOnSet(Paid, s) <= SumFunctionOnSet(Paid, t)
    BY <1>2, CallsAreFinite, SumGrows
  <2>2. SumFunctionOnSet(Paid, {}) <= SumFunctionOnSet(Paid, {r \in RunsIn(period) : run[r].status = "completed"})
    BY <1>4, <2>1
  <2> QED
    BY <2>2, SumOfEmpty DEF PaidIn
<1> QED
  BY <1>5, <1>6, <1>7, <1>8, <1>9

\* A completed run stays as it is, so a period has more and more paid.
LEMMA PaidGrows ==
    ASSUME RevenueTypes, RevenueTypes',
           \A r \in Runs : run[r].status = "completed" => run'[r] = run[r],
           NEW period
    PROVE  PaidIn(period) <= PaidIn(period)'
<1> DEFINE before == {r \in RunsIn(period) : run[r].status = "completed"}
           after == {r \in RunsIn(period)' : run'[r].status = "completed"}
<1>1. before \in SUBSET after /\ after \in SUBSET Runs /\ before \in SUBSET Runs
  BY DEF RunsIn
<1>2. \A r \in before : Paid[r] = Paid'[r]
  BY DEF Paid, RunsIn
<1>3. \A r \in Runs : Paid'[r] \in Nat
  BY DEF Paid, RevenueTypes, RunRecords
<1>4. IsFiniteSet(Runs) /\ IsFiniteSet(before)
  BY <1>1, CallsAreFinite, FS_Subset
<1> HIDE DEF before, after
<1>5. SumFunctionOnSet(Paid, before) = SumFunctionOnSet(Paid', before)
  BY <1>2, <1>4, SumOfEqual
<1>6. \A s, t \in SUBSET Runs : s \subseteq t => SumFunctionOnSet(Paid', s) <= SumFunctionOnSet(Paid', t)
  BY <1>3, <1>4, SumGrows
<1>7. SumFunctionOnSet(Paid', before) <= SumFunctionOnSet(Paid', after)
  BY <1>1, <1>6
<1>8. PaidIn(period) = SumFunctionOnSet(Paid, before) /\ PaidIn(period)' = SumFunctionOnSet(Paid', after)
  BY DEF PaidIn, before, after
<1> QED
  BY <1>5, <1>7, <1>8

\* What ReadRuns leaves in a check: the difference to a rounded sum, and an issue
\* unless the tolerance allows it.
RunsRead(c, relevant) ==
    \E paid \in TotalPayouts(relevant), issues \in SUBSET {"error", "warning"} :
        LET difference == got[c].revenue - paid IN
        /\ difference \in Int
        /\ issues = {} => FALSE \in Exceeds(Abs(difference), check[c].tolerance)
        /\ got' = [got EXCEPT ![c].difference = difference, ![c].issues = issues]

LEMMA RunsAreRead ==
    ASSUME RevenueTypes, NEW c \in Checks, ReadRuns(c)
    PROVE  RunsRead(c, IF mapped THEN RunsIn(check[c].period) ELSE {})
<1> DEFINE relevant == IF mapped THEN RunsIn(check[c].period) ELSE {}
<1>1. PICK paid \in TotalPayouts(relevant) :
        LET difference == got[c].revenue - paid
        IN \E mismatch \in Mismatches(Abs(difference), check[c].tolerance),
              looked \in ChainIssues(relevant), rounding \in RoundingIssues(relevant) :
             got' = [got EXCEPT ![c].difference = difference,
                                ![c].issues = mismatch \union looked \union rounding \union OtherIssues
                                              \union UNION {RunIssue(r) : r \in relevant}]
  BY DEF ReadRuns
<1> DEFINE difference == got[c].revenue - paid
<1>2. PICK mismatch \in Mismatches(Abs(difference), check[c].tolerance),
           looked \in ChainIssues(relevant), rounding \in RoundingIssues(relevant) :
             got' = [got EXCEPT ![c].difference = difference,
                                ![c].issues = mismatch \union looked \union rounding \union OtherIssues
                                              \union UNION {RunIssue(r) : r \in relevant}]
  BY <1>1
<1> DEFINE issues == mismatch \union looked \union rounding \union OtherIssues \union UNION {RunIssue(r) : r \in relevant}
<1>3. relevant \in SUBSET Runs
  BY DEF RunsIn
<1>4. SumFunctionOnSet(Paid, {r \in relevant : Counted(r)}) \in Int
  BY <1>3, AmountsAddUp
<1>5. paid \in Int
  BY <1>4, RoundedIsNear DEF TotalPayouts
<1>6. got[c].revenue \in Int
  BY DEF RevenueTypes, Findings
<1>7. difference \in Int
  BY <1>5, <1>6
<1> HIDE DEF relevant, difference
<1>8. PICK over \in Exceeds(Abs(difference), check[c].tolerance) : mismatch = Error(over)
  BY <1>2 DEF Mismatches
<1>9. over \in BOOLEAN
  BY <1>8 DEF Exceeds
<1>10. /\ mismatch \subseteq {"error", "warning"} /\ looked \subseteq {"error", "warning"}
       /\ rounding \subseteq {"error", "warning"} /\ OtherIssues \subseteq {"error", "warning"}
       /\ \A r \in relevant : RunIssue(r) \subseteq {"error", "warning"}
  BY <1>2, <1>8 DEF Error, ChainIssues, RoundingIssues, OtherIssues, RunIssue
<1>11. issues \in SUBSET {"error", "warning"}
  BY <1>10
<1>12. issues = {} => FALSE \in Exceeds(Abs(difference), check[c].tolerance)
  <2>1. mismatch = {} => over = FALSE
    BY <1>8, <1>9 DEF Error
  <2>2. issues = {} => mismatch = {}
    OBVIOUS
  <2> QED
    BY <1>8, <2>1, <2>2
<1>13. got' = [got EXCEPT ![c].difference = difference, ![c].issues = issues]
  BY <1>2
<1> HIDE DEF issues
<1> QED
  BY <1>1, <1>7, <1>11, <1>12, <1>13 DEF RunsRead, difference, relevant

LEMMA RevenueTyped ==
    ASSUME RevenueTypes, [RevenueNext]_revenueVars
    PROVE  RevenueTypes'
<1>1. submit' \in [Submits -> Submissions]
  <2>1. submit \in [Submits -> Submissions]
    BY DEF RevenueTypes
  <2>2. ASSUME NEW s \in Submits, CheckReport(s) PROVE submit' \in [Submits -> Submissions]
    <3>1. CASE submit' = [submit EXCEPT ![s].stage = "refused"]
      BY <2>1, <3>1 DEF Submissions
    <3>2. ASSUME NEW input \in Inputs, submit' = [submit EXCEPT ![s] =
                 [stage |-> "checked", amount |-> input.amount, from |-> input.from, to |-> input.to]]
          PROVE  submit' \in [Submits -> Submissions]
      <4>1. Amounts \union {0, MaxAmount + 1} \subseteq Int
        <5>1. Amounts \subseteq Int /\ MaxAmount \in Int
          BY MoneyAssumption
        <5> QED
          BY <5>1
      <4>2. Days \subseteq Int
        BY DaysAssumption DEF Days
      <4>3. input.amount \in Int /\ input.from \in Int /\ input.to \in Int
        BY <4>1, <4>2, <3>2 DEF Inputs
      <4> QED
        BY <2>1, <3>2, <4>3 DEF Submissions
    <3> QED
      BY <2>2, <3>1, <3>2 DEF CheckReport
  <2>3. ASSUME NEW s \in Submits, InsertReport(s) PROVE submit' \in [Submits -> Submissions]
    BY <2>1, <2>3 DEF InsertReport, Submissions
  <2> QED
    BY <2>1, <2>2, <2>3 DEF RevenueNext, revenueVars, CreateRun, UpdateRunStatus, Settle, ReadReports, ReadRuns,
       DetectChainDrift, Answer, ValidateReport, VerifyRun
<1>2. run' \in [Runs -> RunRecords]
  <2>1. run \in [Runs -> RunRecords]
    BY DEF RevenueTypes
  <2>2. ASSUME NEW r \in Runs, CreateRun(r) PROVE run' \in [Runs -> RunRecords]
    <3>1. PICK amount \in Amounts, day \in Days :
            run' = [run EXCEPT ![r] = [status |-> "processing", amount |-> amount, day |-> day]]
      BY <2>2 DEF CreateRun
    <3>2. amount \in Nat
      BY MoneyAssumption
    <3>3. day \in Int
      BY DaysAssumption DEF Days
    <3> QED
      BY <2>1, <3>1, <3>2, <3>3 DEF RunRecords
  <2>3. ASSUME NEW r \in Runs, UpdateRunStatus(r) PROVE run' \in [Runs -> RunRecords]
    BY <2>1, <2>3 DEF UpdateRunStatus, RunRecords
  <2> QED
    BY <2>1, <2>2, <2>3 DEF RevenueNext, revenueVars, CheckReport, InsertReport, Settle, ReadReports, ReadRuns,
       DetectChainDrift, Answer, ValidateReport, VerifyRun
<1>3. check' \in [Checks -> CheckRecords]
  <2>1. check \in [Checks -> CheckRecords]
    BY DEF RevenueTypes
  <2>2. ASSUME NEW c \in Checks, ReadReports(c) PROVE check' \in [Checks -> CheckRecords]
    <3>1. PICK kind \in Kinds, drift \in BOOLEAN : \E period \in PeriodsOf(kind), tolerance \in TolerancesOf(kind) :
            LET reported == SumFunctionOnSet(Reported, ReportsIn(period)) IN
            /\ check' = [check EXCEPT ![c] =
                   [kind |-> kind, stage |-> "reports", period |-> period, tolerance |-> tolerance,
                    drift |-> drift /\ kind = "full"]]
            /\ \E cents \in ToCents(reported) :
                got' = [got EXCEPT ![c].reported = reported, ![c].revenue = cents]
      BY <2>2 DEF ReadReports
    <3>2. PICK period \in PeriodsOf(kind), tolerance \in TolerancesOf(kind) :
            check' = [check EXCEPT ![c] =
                   [kind |-> kind, stage |-> "reports", period |-> period, tolerance |-> tolerance,
                    drift |-> drift /\ kind = "full"]]
      BY <3>1
    <3>3. PeriodsOf(kind) \subseteq Days \X Days /\ TolerancesOf(kind) \subseteq Tolerances \union {Tolerance, NotANumber}
      BY DEF PeriodsOf, Periods, TolerancesOf
    <3> QED
      BY <2>1, <3>2, <3>3 DEF CheckRecords
  <2>3. ASSUME NEW c \in Checks, NEW stage \in {"drift", "answer", "balanced", "unbalanced", "valid", "invalid"},
               check' = [check EXCEPT ![c].stage = stage]
        PROVE  check' \in [Checks -> CheckRecords]
    BY <2>1, <2>3 DEF CheckRecords
  <2> QED
    BY <2>1, <2>2, <2>3 DEF RevenueNext, revenueVars, CheckReport, InsertReport, CreateRun, UpdateRunStatus,
       Settle, ReadRuns, DetectChainDrift, Answer, ValidateReport, VerifyRun
<1>4. got' \in [Checks -> Findings]
  <2>1. got \in [Checks -> Findings]
    BY DEF RevenueTypes
  <2>2. ASSUME NEW c \in Checks, ReadReports(c) PROVE got' \in [Checks -> Findings]
    <3>1. PICK kind \in Kinds : \E period \in PeriodsOf(kind) :
            \E cents \in ToCents(SumFunctionOnSet(Reported, ReportsIn(period))) :
            got' = [got EXCEPT ![c].reported = SumFunctionOnSet(Reported, ReportsIn(period)), ![c].revenue = cents]
      BY <2>2, Zenon DEF ReadReports
    <3>2. PICK sum \in Int : \E cents \in ToCents(sum) : got' = [got EXCEPT ![c].reported = sum, ![c].revenue = cents]
      BY <3>1, AmountsAddUp
    <3>3. PICK cents \in Int : got' = [got EXCEPT ![c].reported = sum, ![c].revenue = cents]
      BY <3>2, RoundedIsNear
    <3> QED
      BY <2>1, <3>3 DEF Findings
  <2>3. ASSUME NEW c \in Checks, ReadRuns(c) PROVE got' \in [Checks -> Findings]
    <3>1. PICK difference \in Int, issues \in SUBSET {"error", "warning"} :
            got' = [got EXCEPT ![c].difference = difference, ![c].issues = issues]
      BY <2>3, RunsAreRead DEF RunsRead
    <3> QED
      BY <2>1, <3>1 DEF Findings
  <2>4. ASSUME NEW c \in Checks, DetectChainDrift(c) PROVE got' \in [Checks -> Findings]
    <3>1. PICK issue : issue \subseteq {"error", "warning"} /\ got' = [got EXCEPT ![c].issues = @ \union issue]
      BY <2>4 DEF DetectChainDrift, DriftIssues, Error
    <3> QED
      BY <2>1, <3>1 DEF Findings
  <2> QED
    BY <2>1, <2>2, <2>3, <2>4 DEF RevenueNext, revenueVars, CheckReport, InsertReport, CreateRun, UpdateRunStatus,
       Settle, Answer, ValidateReport, VerifyRun
<1> QED
  BY <1>1, <1>2, <1>3, <1>4 DEF RevenueTypes

PaidIsTyped == \A period \in Days \X Days : PaidIn(period) \in Nat

LEMMA PaidIsNatural == RevenueTypes => PaidIsTyped
  BY AmountsAddUp DEF PaidIsTyped

LEMMA BalanceInductive ==
    ASSUME BalanceIInv, [RevenueNext]_revenueVars
    PROVE  BalanceIInv'
<1>1. RevenueTypes /\ DifferencesCover /\ RevenueTypes'
  BY RevenueTyped DEF BalanceIInv
<1>2. \A r \in Runs : run[r].status = "completed" => run'[r] = run[r]
  <2>1. run \in [Runs -> RunRecords]
    BY <1>1 DEF RevenueTypes
  <2>2. ASSUME NEW r \in Runs, CreateRun(r) \/ UpdateRunStatus(r)
        PROVE  run[r].status \in {"none", "processing"} /\ \A q \in Runs \ {r} : run'[q] = run[q]
    BY <2>1, <2>2 DEF CreateRun, UpdateRunStatus
  <2>3. run' = run \/ \E r \in Runs : CreateRun(r) \/ UpdateRunStatus(r)
    BY DEF RevenueNext, revenueVars, CheckReport, InsertReport, Settle, ReadReports, ReadRuns,
       DetectChainDrift, Answer, ValidateReport, VerifyRun
  <2> QED
    BY <2>2, <2>3
<1>3. ASSUME NEW period \in Days \X Days
      PROVE  PaidIn(period) \in Nat /\ PaidIn(period)' \in Nat /\ PaidIn(period) <= PaidIn(period)'
  <2>1. RevenueTypes' => PaidIsTyped'
    BY PaidIsNatural, PTL
  <2>2. PaidIn(period) \in Nat /\ PaidIn(period)' \in Nat
    BY <1>1, <2>1, PaidIsNatural DEF PaidIsTyped
  <2>3. PaidIn(period) <= PaidIn(period)'
    BY <1>1, <1>2, PaidGrows
  <2> QED
    BY <2>2, <2>3
<1>4. \A c \in Checks : check[c] \in CheckRecords /\ got[c] \in Findings
  BY <1>1 DEF RevenueTypes
<1>5. \A c \in Checks : /\ check[c].period \in Days \X Days
                        /\ got[c].reported \in Int /\ got[c].revenue \in Int /\ got[c].difference \in Int
  BY <1>4 DEF CheckRecords, Findings
<1>6. \A c \in Checks : check[c].tolerance # NotANumber => check[c].tolerance \in Int
  <2>1. Tolerances \subseteq Int /\ Tolerance \in Int
    BY MoneyAssumption
  <2> QED
    BY <2>1, <1>4 DEF CheckRecords
\* Whoever is not moved stays covered, since the period has more and more paid.
<1>7. ASSUME NEW c \in Checks, check'[c].period = check[c].period, got'[c].reported = got[c].reported,
             got'[c].difference = got[c].difference, Unpaid(c) <= got[c].difference + Cent
      PROVE  Unpaid(c)' <= got'[c].difference + Cent
  <2>0. PICK p \in Days \X Days : p = check[c].period
    BY <1>5
  <2> DEFINE old == PaidIn(p)
             new == PaidIn(p)'
  <2>1. old \in Nat /\ new \in Nat /\ old <= new
    BY <1>3
  <2>2. Unpaid(c) = got[c].reported - old
    BY <2>0 DEF Unpaid
  <2>3. Unpaid(c)' = got[c].reported - new
    BY <2>0, <1>7 DEF Unpaid
  <2> HIDE DEF old, new
  <2> QED
    BY <2>1, <2>2, <2>3, <1>5, <1>7 DEF Cent
<1>8. ASSUME NEW c \in Checks, got'[c] = got[c], check'[c] = check[c]
      PROVE  Covered(c)'
  BY <1>1, <1>7, <1>8 DEF DifferencesCover, Covered, Tolerated
<1>9. DifferencesCover'
  <2>1. CASE UNCHANGED <<check, got>>
    BY <1>8, <2>1 DEF DifferencesCover
  <2>2. ASSUME NEW c \in Checks, ReadReports(c) PROVE DifferencesCover'
    <3>1. PICK kind \in Kinds : \E period \in PeriodsOf(kind) :
            \E cents \in ToCents(SumFunctionOnSet(Reported, ReportsIn(period))) :
            got' = [got EXCEPT ![c].reported = SumFunctionOnSet(Reported, ReportsIn(period)), ![c].revenue = cents]
      BY <2>2, Zenon DEF ReadReports
    <3>2. PICK sum \in Int : \E cents \in ToCents(sum) : got' = [got EXCEPT ![c].reported = sum, ![c].revenue = cents]
      BY <3>1, <1>1, AmountsAddUp
    <3>2a. PICK cents \in ToCents(sum) : got' = [got EXCEPT ![c].reported = sum, ![c].revenue = cents]
      BY <3>2
    <3>3. \A d \in Checks \ {c} : got'[d] = got[d] /\ check'[d] = check[d]
      <4>1. PICK record : check' = [check EXCEPT ![c] = record]
        BY <2>2, Zenon DEF ReadReports
      <4> QED
        BY <3>2a, <4>1, <1>1 DEF RevenueTypes
    <3>4. check'[c].stage = "reports"
      BY <2>2, <1>1 DEF ReadReports, RevenueTypes
    <3>5. got'[c].reported = sum /\ got'[c].revenue = cents
      BY <3>2a, <1>1 DEF RevenueTypes, Findings
    <3>6. 2 * (sum - cents) <= Cent
      BY RoundedIsNear
    <3>7. Covered(c)'
      BY <3>4, <3>5, <3>6 DEF Covered, Cent
    <3> QED
      BY <3>3, <3>7, <1>8 DEF DifferencesCover
  <2>3. ASSUME NEW c \in Checks, ReadRuns(c) PROVE DifferencesCover'
    <3> DEFINE relevant == IF mapped THEN RunsIn(check[c].period) ELSE {}
               exact == SumFunctionOnSet(Paid, {r \in relevant : Counted(r)})
               paid == PaidIn(check[c].period)
    <3>1. PICK total \in TotalPayouts(relevant), issues \in SUBSET {"error", "warning"} :
            /\ got[c].revenue - total \in Int
            /\ issues = {} => FALSE \in Exceeds(Abs(got[c].revenue - total), check[c].tolerance)
            /\ got' = [got EXCEPT ![c].difference = got[c].revenue - total, ![c].issues = issues]
      BY <2>3, <1>1, RunsAreRead DEF RunsRead
    <3>2. \A d \in Checks \ {c} : got'[d] = got[d] /\ check'[d] = check[d]
      <4>1. \A d \in Checks \ {c} : check'[d] = check[d]
        BY <2>3 DEF ReadRuns
      <4> HIDE DEF relevant
      <4> QED
        BY <3>1, <4>1, <1>1 DEF RevenueTypes
    <3>3. /\ check'[c].period = check[c].period /\ check'[c].kind = check[c].kind
          /\ check'[c].tolerance = check[c].tolerance /\ run' = run
      BY <2>3, <1>1 DEF ReadRuns, RevenueTypes, CheckRecords
    <3>4. /\ got'[c].reported = got[c].reported /\ got'[c].difference = got[c].revenue - total
          /\ got'[c].issues = issues
      <4> HIDE DEF relevant
      <4> QED
        BY <3>1, <1>1 DEF RevenueTypes, Findings
    <3>5. exact \in Int /\ paid \in Nat /\ exact <= paid
      <4>1. paid \in Nat
        BY <1>3, <1>5
      <4>2. CASE mapped
        <5>1. exact = paid
          BY <4>2 DEF PaidIn, Counted
        <5> HIDE DEF exact, paid
        <5> QED
          BY <5>1, <4>1
      <4>3. CASE ~mapped
        <5>1. {r \in relevant : Counted(r)} = {}
          BY <4>3
        <5>2. exact = 0
          BY <5>1, SumOfEmpty
        <5> HIDE DEF exact, paid
        <5> QED
          BY <5>2, <4>1
      <4> QED
        BY <4>2, <4>3
    <3>6. PaidIn(check[c].period)' = PaidIn(check[c].period)
      BY <3>3 DEF PaidIn, RunsIn, Paid
    <3>7. Unpaid(c)' = got[c].reported - paid
      BY <3>4, <3>6 DEF Unpaid
    <3>8. 2 * (got[c].reported - got[c].revenue) <= Cent
      BY <2>3, <1>1 DEF DifferencesCover, Covered, ReadRuns
    <3>9. total \in ToCents(exact)
      BY <3>1 DEF TotalPayouts
    <3> HIDE DEF relevant, exact, paid
    <3>10. total \in Int /\ 2 * (total - exact) <= Cent
      BY <3>5, <3>9, RoundedIsNear
    <3>11. Unpaid(c)' <= got'[c].difference + Cent
      BY <3>4, <3>5, <3>7, <3>8, <3>10, <1>5 DEF Cent
    <3>12. check'[c].kind = "full" /\ got'[c].issues = {} => Tolerated(c)'
      <4>1. check[c].tolerance # NotANumber => check[c].tolerance \in Int
        BY <1>6
      <4>2. issues = {} /\ check[c].tolerance # NotANumber => got[c].revenue - total <= check[c].tolerance
        BY <3>1, <4>1, NotExceeded
      <4> QED
        BY <3>3, <3>4, <4>2 DEF Tolerated
    <3>13. check'[c].stage \in {"drift", "answer"}
      BY <2>3, <1>1 DEF ReadRuns, RevenueTypes, CheckRecords
    <3>14. Covered(c)'
      BY <3>11, <3>12, <3>13 DEF Covered
    <3> QED
      BY <3>2, <3>14, <1>8 DEF DifferencesCover
  <2>4. ASSUME NEW c \in Checks, DetectChainDrift(c) PROVE DifferencesCover'
    <3>1. PICK issue : got' = [got EXCEPT ![c].issues = @ \union issue]
      BY <2>4 DEF DetectChainDrift
    <3>2. check' = [check EXCEPT ![c].stage = "answer"] /\ check[c].stage = "drift"
      BY <2>4 DEF DetectChainDrift
    <3>3. \A d \in Checks \ {c} : got'[d] = got[d] /\ check'[d] = check[d]
      BY <3>1, <3>2
    <3>4. /\ check'[c].kind = check[c].kind /\ check'[c].period = check[c].period
          /\ check'[c].tolerance = check[c].tolerance
          /\ got'[c].reported = got[c].reported /\ got'[c].difference = got[c].difference
          /\ got[c].issues \subseteq got'[c].issues
      BY <3>1, <3>2, <1>1 DEF RevenueTypes, CheckRecords, Findings
    <3>5. /\ Unpaid(c) <= got[c].difference + Cent
          /\ check[c].kind = "full" /\ got[c].issues = {} => Tolerated(c)
      BY <3>2, <1>1 DEF DifferencesCover, Covered
    <3>6. Unpaid(c)' <= got'[c].difference + Cent
      BY <3>4, <3>5, <1>7
    <3>7. check'[c].kind = "full" /\ got'[c].issues = {} => Tolerated(c)'
      BY <3>4, <3>5 DEF Tolerated
    <3>8. check'[c].stage = "answer"
      BY <3>2, <1>1 DEF RevenueTypes, CheckRecords
    <3>9. Covered(c)'
      BY <3>6, <3>7, <3>8 DEF Covered
    <3> QED
      BY <3>3, <3>9, <1>8 DEF DifferencesCover
  <2>5. ASSUME NEW c \in Checks, Answer(c) PROVE DifferencesCover'
    <3>1. PICK balanced \in Balanced(c) :
            check' = [check EXCEPT ![c].stage = IF balanced THEN "balanced" ELSE "unbalanced"]
      BY <2>5 DEF Answer
    <3>2. check[c].stage = "answer" /\ got' = got
      BY <2>5 DEF Answer
    <3>3. \A d \in Checks \ {c} : got'[d] = got[d] /\ check'[d] = check[d]
      BY <3>1, <3>2
    <3>4. /\ check'[c].kind = check[c].kind /\ check'[c].period = check[c].period
          /\ check'[c].tolerance = check[c].tolerance /\ got'[c] = got[c]
          /\ check'[c].stage = IF balanced THEN "balanced" ELSE "unbalanced"
      BY <3>1, <3>2, <1>1 DEF RevenueTypes, CheckRecords
    <3>5. /\ Unpaid(c) <= got[c].difference + Cent
          /\ check[c].kind = "full" /\ got[c].issues = {} => Tolerated(c)
      BY <3>2, <1>1 DEF DifferencesCover, Covered
    <3>6. Unpaid(c)' <= got'[c].difference + Cent
      BY <3>4, <3>5, <1>7
    <3>7. balanced => Tolerated(c)
      <4> SUFFICES ASSUME balanced PROVE Tolerated(c)
        OBVIOUS
      <4>1. CASE check[c].kind = "quick"
        <5>1. PICK over \in Exceeds(Abs(got[c].difference), check[c].tolerance) : balanced = ~over
          BY <3>1, <4>1 DEF Balanced
        <5>2. over \in BOOLEAN
          BY <5>1 DEF Exceeds
        <5>3. FALSE \in Exceeds(Abs(got[c].difference), check[c].tolerance)
          BY <5>1, <5>2
        <5>4. check[c].tolerance # NotANumber => got[c].difference <= check[c].tolerance
          BY <5>3, <1>5, <1>6, NotExceeded
        <5> QED
          BY <5>4 DEF Tolerated
      <4>2. CASE check[c].kind = "full"
        <5>1. got[c].issues = {}
          BY <3>1, <4>2 DEF Balanced
        <5> QED
          BY <3>5, <4>2, <5>1
      <4> QED
        BY <4>1, <4>2, <1>4 DEF CheckRecords, Kinds
    <3>8. Tolerated(c)' = Tolerated(c)
      BY <3>4 DEF Tolerated
    <3>9. Covered(c)'
      BY <3>4, <3>5, <3>6, <3>7, <3>8 DEF Covered
    <3> QED
      BY <3>3, <3>9, <1>8 DEF DifferencesCover
  <2>6. ASSUME NEW c \in Checks, NEW stage \in {"valid", "invalid"}, check' = [check EXCEPT ![c].stage = stage], got' = got
        PROVE  DifferencesCover'
    <3>1. \A d \in Checks \ {c} : got'[d] = got[d] /\ check'[d] = check[d]
      BY <2>6
    <3>2. check'[c].stage = stage
      BY <2>6, <1>1 DEF RevenueTypes, CheckRecords
    <3> QED
      BY <3>1, <3>2, <1>8 DEF DifferencesCover, Covered
  <2> QED
    BY <2>1, <2>2, <2>3, <2>4, <2>5, <2>6 DEF RevenueNext, revenueVars, CheckReport, InsertReport, CreateRun,
       UpdateRunStatus, Settle, ValidateReport, VerifyRun
<1> QED
  BY <1>1, <1>9 DEF BalanceIInv

\* For any reports, runs, checks and tolerances: a period that is answered to be
\* balanced has its revenue paid by completed runs, up to the tolerance that was
\* asked for, if it is a number, and half a cent for each rounded sum.
THEOREM BalancedStaysPaid == RevenueSpec => []BalancedIsPaid
<1>1. RevenueInit => BalanceIInv
  <2> SUFFICES ASSUME RevenueInit PROVE BalanceIInv
    OBVIOUS
  <2>1. 0 \in Days
    BY DaysAssumption DEF Days
  <2>2. RevenueTypes
    BY <2>1 DEF RevenueInit, RevenueTypes, Submissions, RunRecords, CheckRecords, Findings, Kinds
  <2>3. DifferencesCover
    BY DEF RevenueInit, DifferencesCover, Covered
  <2> QED
    BY <2>2, <2>3 DEF BalanceIInv
<1>2. BalanceIInv => BalancedIsPaid
  <2> SUFFICES ASSUME BalanceIInv, NEW c \in Checks, check[c].stage = "balanced", check[c].tolerance # NotANumber
               PROVE  Unpaid(c) <= check[c].tolerance + Cent
    BY DEF BalancedIsPaid, Unpaid
  <2>1. RevenueTypes /\ Covered(c)
    BY DEF BalanceIInv, DifferencesCover
  <2>2. Unpaid(c) <= got[c].difference + Cent /\ got[c].difference <= check[c].tolerance
    BY <2>1 DEF Covered, Tolerated
  <2>3. PaidIn(check[c].period) \in Nat
    BY <2>1, AmountsAddUp
  <2>4. got[c].reported \in Int /\ got[c].difference \in Int /\ check[c].tolerance \in Int
    <3>1. check[c] \in CheckRecords /\ got[c] \in Findings
      BY <2>1 DEF RevenueTypes
    <3>2. Tolerances \subseteq Int /\ Tolerance \in Int
      BY MoneyAssumption
    <3> QED
      BY <3>1, <3>2 DEF CheckRecords, Findings
  <2> DEFINE paid == PaidIn(check[c].period)
  <2>5. Unpaid(c) = got[c].reported - paid
    BY DEF Unpaid
  <2> HIDE DEF paid
  <2>6. Unpaid(c) \in Int
    BY <2>3, <2>4, <2>5 DEF paid
  <2> QED
    BY <2>2, <2>4, <2>6 DEF Cent
<1> QED
  BY <1>1, <1>2, BalanceInductive, PTL DEF RevenueSpec
=============================================================================
