--------------------------- MODULE OfferingMatrix ---------------------------
(***************************************************************************)
(* The offering validation matrix of src/src/index.ts: an endpoint that    *)
(* keeps nothing and answers whether an actor may do something with the    *)
(* offering that the request describes.  The caller is modelled as one     *)
(* that keeps a single offering, sends it as it is, and does what it is    *)
(* allowed to do.                                                          *)
(***************************************************************************)
EXTENDS Integers

CONSTANTS
    MaxMoney,    \* amounts (a bound)
    LastInstant  \* instants (a bound)

ASSUME BoundsAssumption == {MaxMoney, LastInstant} \subseteq Nat

VARIABLES
    kept,        \* the caller's offering
    instant,
    raised       \* the investments it made, up to a bound

matrixVars == <<kept, instant, raised>>

Absent == -1       \* absent, or a string that does not parse
Money == {Absent} \union 0 .. MaxMoney
Dates == {Absent} \union 1 .. LastInstant

\* requireOfferingAuth: who the headers say is asking.
Actors == [id : {"issuer", "other"}, role : {"startup", "admin", "compliance", "investor"}]

\* The issuer as the payload names it.
Issuers == {"unknown", "issuer"}

MatrixInit ==
    /\ kept \in [status : {"none"}, issuer : Issuers, target : Money, minimum : Money,
                 starts : Dates, ends : Dates]
    /\ instant = 0 /\ raised = 0

-----------------------------------------------------------------------------
(* evaluateOfferingValidationMatrix: an action is allowed when every check *)
(* made of it passes, those of severity "warning" included.                *)

Privileged(a) == a.role \in {"admin", "compliance"}
Owns(a, o) == o.issuer = a.id

RoleAllowed(a, action) ==
    \/ Privileged(a)
    \/ a.role = "startup" /\ action # "invest"
    \/ a.role = "investor" /\ action = "invest"

OwnershipConfirmed(a, action, o) ==
    action # "invest" =>
        Privileged(a) \/ action = "create" \/ o.issuer = "unknown" \/ Owns(a, o)

\* Mutant: an offering needs no minimum.
MinimumOptional(o) == TRUE

MinimumValid(o) == o.minimum > 0

AmountsValid(action, o) ==
    action \in {"create", "update", "publish"} =>
        /\ o.target > 0
        /\ MinimumValid(o)
        /\ o.target # Absent /\ o.minimum # Absent => o.minimum <= o.target

StatusEligible(action, o) ==
    CASE action = "publish" -> o.status = "draft"
      [] action = "pause" -> o.status = "open"
      [] action = "close" -> o.status \in {"open", "paused"}
      [] action = "cancel" -> o.status \in {"draft", "open", "paused"}
      [] action = "invest" -> o.status = "open"
      [] OTHER -> TRUE

WindowValid(o) ==
    /\ o.starts # Absent /\ o.ends # Absent
    /\ o.ends > o.starts /\ o.ends > instant

PrivateViewAllowed(a, o) ==
    Privileged(a) \/ (a.role = "startup" /\ (o.issuer = "unknown" \/ Owns(a, o)))

InvestmentValid(a, o, amount) ==
    /\ amount > 0
    /\ o.minimum # Absent => amount >= o.minimum
    /\ o.target # Absent => amount <= o.target
    /\ ~Owns(a, o)
    /\ o.starts # Absent /\ o.ends # Absent
    /\ o.starts <= instant /\ instant <= o.ends

MatrixAllows(a, action, o, amount) ==
    /\ RoleAllowed(a, action)
    /\ OwnershipConfirmed(a, action, o)
    /\ AmountsValid(action, o)
    /\ StatusEligible(action, o)
    /\ action = "publish" => WindowValid(o)
    /\ action = "viewPrivate" => PrivateViewAllowed(a, o)
    /\ action = "invest" => InvestmentValid(a, o, amount)

-----------------------------------------------------------------------------
(* The caller.                                                             *)

Create(a) ==
    /\ kept.status = "none" /\ MatrixAllows(a, "create", kept, Absent)
    /\ kept' = [kept EXCEPT !.status = "draft"]
    /\ UNCHANGED <<instant, raised>>

\* One field at a time; what is sent is the offering as it would become.
Edits ==
    {[kept EXCEPT !.target = m] : m \in Money} \union {[kept EXCEPT !.minimum = m] : m \in Money}
        \union {[kept EXCEPT !.starts = d] : d \in Dates} \union {[kept EXCEPT !.ends = d] : d \in Dates}

Update(a) ==
    /\ kept.status # "none"
    /\ \E o \in Edits : MatrixAllows(a, "update", o, Absent) /\ kept' = o
    /\ UNCHANGED <<instant, raised>>

Becomes == [publish |-> "open", pause |-> "paused", close |-> "closed", cancel |-> "cancelled"]

Move(a, action) ==
    /\ MatrixAllows(a, action, kept, Absent)
    /\ kept' = [kept EXCEPT !.status = Becomes[action]]
    /\ UNCHANGED <<instant, raised>>

Invest(a, amount) ==
    /\ raised + amount <= MaxMoney
    /\ MatrixAllows(a, "invest", kept, amount)
    /\ raised' = raised + amount
    /\ UNCHANGED <<kept, instant>>

PassTime ==
    /\ instant < LastInstant /\ instant' = instant + 1
    /\ UNCHANGED <<kept, raised>>

MatrixNext ==
    \/ \E a \in Actors :
        \/ Create(a) \/ Update(a)
        \/ \E action \in DOMAIN Becomes : Move(a, action)
        \/ \E amount \in 0 .. MaxMoney : Invest(a, amount)
    \/ PassTime

MatrixSpec == MatrixInit /\ [][MatrixNext]_matrixVars

-----------------------------------------------------------------------------
\* Whatever was allowed before, an investment that is allowed lies between the
\* minimum and the target of an offering that is open and has both: investing does
\* not ask for a minimum, so this rests on what creating, updating and publishing ask.
InvestmentsFitTheOffering ==
    [][raised' # raised =>
        /\ kept.status = "open"
        /\ 0 < kept.minimum /\ kept.minimum <= raised' - raised /\ raised' - raised <= kept.target
        /\ kept.starts <= instant /\ instant <= kept.ends]_matrixVars
=============================================================================
