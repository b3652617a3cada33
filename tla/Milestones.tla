----------------------------- MODULE Milestones -----------------------------
(***************************************************************************)
(* Validation of the milestones of one vault, by the hardened route or by  *)
(* the plain one.  A request awaits one repository after the other, so     *)
(* each await is a step; any of them may fail.                             *)
(***************************************************************************)
EXTENDS Integers, FiniteSets

CONSTANTS
    Requests,       \* POST /vaults/:id/milestones/:mid/validate
    Users,
    Verifiers,      \* the users with the role verifier
    Admins,         \* the users with the role admin
    Last,           \* milestones are 1 .. Last, by created_at
    Limits          \* the values of maxConcurrentValidations

VARIABLES
    hardened,       \* which of the two routes is mounted
    limit,          \* maxConcurrentValidations
    vault,          \* vaults.status
    assigned,       \* verifier_assignments
    validated,      \* milestones with status validated
    events,         \* milestone_validation_events
    published,      \* domain_events
    active,         \* InMemoryValidationLimiter.activeValidations
    request         \* each request: its next await, its user and its milestone

vars == <<hardened, limit, vault, assigned, validated, events, published, active, request>>

Milestone == 1 .. Last

\* The awaits of the two handlers: what comes after each.
Hardened == [arrival |-> "slot", slot |-> "get", get |-> "vault", vault |-> "order", order |-> "assigned",
             assigned |-> "event", event |-> "mark", mark |-> "publish", publish |-> "release",
             release |-> "done"]
Plain == [arrival |-> "assigned", assigned |-> "get", get |-> "event", event |-> "mark",
          mark |-> "publish", publish |-> "done"]

After(await) == IF hardened THEN Hardened[await] ELSE Plain[await]

At(r, await) == request[r].at = await
Of(r) == request[r].milestone
By(r) == request[r].user

\* The request goes on, or fails; the hardened handler then gives its slot back.
GoesOn(r) == request' = [request EXCEPT ![r].at = After(request[r].at)]
Fails(r) == request' = [request EXCEPT ![r].at = IF hardened THEN "give up" ELSE "failed"]

GoesOnIf(r, condition) == IF condition THEN GoesOn(r) ELSE Fails(r)

-----------------------------------------------------------------------------
\* enabledPermissions: milestone:validate.
MayValidate(user) == user \in Verifiers \union Admins

\* Authentication, permission and parameters; the plain route wants a verifier.
Arrive(r) ==
    /\ At(r, "idle")
    /\ \E user \in Users, m \in Milestone :
        LET admitted == IF hardened THEN MayValidate(user) ELSE user \in Verifiers
        IN request' = [request EXCEPT ![r] =
               [at |-> IF admitted THEN After("arrival") ELSE "failed",
                user |-> user, milestone |-> m, pending |-> FALSE]]
    /\ UNCHANGED <<hardened, limit, vault, assigned, validated, events, published, active>>

\* checkConcurrentValidations; then validateVerifierRole, in the handler.
TakeSlot(r) ==
    /\ At(r, "slot")
    /\ IF Cardinality(active) >= limit
       THEN active' = active /\ request' = [request EXCEPT ![r].at = "failed"]
       ELSE active' = active \union {By(r)} /\ GoesOnIf(r, By(r) \in Verifiers)
    /\ UNCHANGED <<hardened, limit, vault, assigned, validated, events, published>>

\* Mutant: only a success releases the slot.
ReleaseOnSuccess(r) ==
    /\ \/ At(r, "release") /\ GoesOn(r) /\ active' = active \ {By(r)}
       \/ At(r, "give up") /\ request' = [request EXCEPT ![r].at = "failed"] /\ active' = active
    /\ UNCHANGED <<hardened, limit, vault, assigned, validated, events, published>>

\* releaseValidation, after the answer is known or in the catch block.
Release(r) ==
    /\ \/ At(r, "release") /\ GoesOn(r)
       \/ At(r, "give up") /\ request' = [request EXCEPT ![r].at = "failed"]
    /\ active' = active \ {By(r)}
    /\ UNCHANGED <<hardened, limit, vault, assigned, validated, events, published>>

\* getByVaultAndId: both routes look at the status that this read returns, the
\* hardened one only after it has read the vault.
GetMilestone(r) ==
    /\ At(r, "get")
    /\ IF hardened
       THEN request' = [request EXCEPT ![r].at = After("get"), ![r].pending = Of(r) \notin validated]
       ELSE GoesOnIf(r, Of(r) \notin validated)
    /\ UNCHANGED <<hardened, limit, vault, assigned, validated, events, published, active>>

\* validateVaultInvariants, then the status that was read.
CheckVault(r) ==
    /\ At(r, "vault")
    /\ GoesOnIf(r, vault = "active" /\ request[r].pending)
    /\ UNCHANGED <<hardened, limit, vault, assigned, validated, events, published, active>>

\* Mutant: any milestone may be next.
AnyPending(m) == Milestone \ validated # {}

\* validateMilestoneInvariants: the first that is pending by created_at.
FirstPending(m) == m \notin validated /\ \A n \in 1 .. m - 1 : n \in validated

CheckOrder(r) ==
    /\ At(r, "order")
    /\ GoesOnIf(r, FirstPending(Of(r)))
    /\ UNCHANGED <<hardened, limit, vault, assigned, validated, events, published, active>>

CheckAssigned(r) ==
    /\ At(r, "assigned")
    /\ GoesOnIf(r, By(r) \in assigned)
    /\ UNCHANGED <<hardened, limit, vault, assigned, validated, events, published, active>>

\* INSERT under UNIQUE(vault_id, milestone_id, verifier_id).
CreateEvent(r) ==
    /\ At(r, "event")
    /\ GoesOnIf(r, <<Of(r), By(r)>> \notin events)
    /\ events' = events \union {<<Of(r), By(r)>>}
    /\ UNCHANGED <<hardened, limit, vault, assigned, validated, published, active>>

\* UPDATE milestones, whatever their status is by now.
MarkValidated(r) ==
    /\ At(r, "mark") /\ GoesOn(r)
    /\ validated' = validated \union {Of(r)}
    /\ UNCHANGED <<hardened, limit, vault, assigned, events, published, active>>

Publish(r) ==
    /\ At(r, "publish") /\ GoesOn(r)
    /\ published' = published \union {<<Of(r), By(r)>>}
    /\ UNCHANGED <<hardened, limit, vault, assigned, validated, events, active>>

\* A repository or the publisher rejects.
AwaitFails(r) ==
    /\ request[r].at \in {"get", "vault", "order", "assigned", "event", "mark", "publish"}
    /\ Fails(r)
    /\ UNCHANGED <<hardened, limit, vault, assigned, validated, events, published, active>>

-----------------------------------------------------------------------------
\* What others do to the vault, and the end of the process.
ChangeVault ==
    /\ \/ vault' \in {"active", "paused", "closed"} \ {vault} /\ UNCHANGED assigned
       \/ \E v \in Verifiers : assigned' = (assigned \union {v}) \ (assigned \intersect {v}) /\ UNCHANGED vault
    /\ UNCHANGED <<hardened, limit, validated, events, published, active, request>>

Crash ==
    /\ active' = {}
    /\ request' = [r \in Requests |->
           IF request[r].at \in {"idle", "done", "failed"} THEN request[r] ELSE [request[r] EXCEPT !.at = "failed"]]
    /\ UNCHANGED <<hardened, limit, vault, assigned, validated, events, published>>

Init ==
    /\ hardened \in BOOLEAN /\ limit \in Limits
    /\ vault = "active" /\ assigned = Verifiers
    /\ validated = {} /\ events = {} /\ published = {} /\ active = {}
    /\ request = [r \in Requests |->
           [at |-> "idle", user |-> "none", milestone |-> 0, pending |-> FALSE]]

Next ==
    \/ \E r \in Requests :
        \/ Arrive(r) \/ TakeSlot(r) \/ Release(r) \/ GetMilestone(r) \/ CheckVault(r)
        \/ CheckOrder(r) \/ CheckAssigned(r) \/ CreateEvent(r) \/ MarkValidated(r)
        \/ Publish(r) \/ AwaitFails(r)
    \/ ChangeVault \/ Crash

Spec == Init /\ [][Next]_vars

-----------------------------------------------------------------------------
\* The hardened route validates the milestones of a vault in their order, however
\* many requests check the order and mark their milestone at the same time.
MilestonesInOrder == hardened => \A m \in validated : \A n \in 1 .. m : n \in validated

\* Whoever hears that a milestone is validated finds it so, with its event.
PublishedIsRecorded == \A p \in published : p[1] \in validated /\ p \in events

\* What a vault may rely on.
ValidationsAreSound == MilestonesInOrder /\ PublishedIsRecorded

\* A slot of the vault is taken only while its verifier has a request in
\* progress: no path through the handler keeps it.
SlotsAreReleased ==
    \A u \in active : \E r \in Requests :
        By(r) = u /\ request[r].at \notin {"idle", "slot", "done", "failed"}
=============================================================================
