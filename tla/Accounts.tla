------------------------------ MODULE Accounts ------------------------------
(***************************************************************************)
(* The users row of one (normalized) e-mail address and the reset tokens   *)
(* of its owner: the registrations of investors (auth/register) and of     *)
(* startups (services/startupAuthService.ts), and the password reset       *)
(* (services/passwordResetService.ts) with its rate limiter.  A call waits *)
(* at every query, where the others go on.                                 *)
(***************************************************************************)
EXTENDS Naturals, FiniteSets

CONSTANTS
    Signups,     \* registrations
    Resets,      \* calls of resetPassword
    Tokens,      \* reset tokens that may be generated
    MaxRequests, \* maxRequests of the limiter
    MaxFaults    \* queries that fail, or whose reply is lost (a bound)

VARIABLES
    account,     \* the rows with this address: the registrations that inserted them
    password,    \* by whom, and how, the password was last set
    signup,      \* each registration: where it is, or what was answered
    tokenRow,    \* each token's row: "none", "live", "expired" or "used"
    reset,       \* each reset: where it is, and its token
    limitRow,    \* the limiter's row: "none", "recent", "old" or "blocked"
    faults,
    spent        \* observed: per token, the resets that committed with it

accountVars == <<account, password, signup, tokenRow, reset, limitRow, faults, spent>>

Kinds == {"investor", "startup"}
Passwords == {"weak", "strong"}

\* validatePasswordStrength, after the length checks of the routes.
Strong(p) == p = "strong"

AccountsInit ==
    /\ account = {} /\ password = [by |-> "nobody", hash |-> "none"]
    /\ signup = [s \in Signups |-> [at |-> "idle", kind |-> "investor"]]
    /\ tokenRow = [t \in Tokens |-> "none"]
    /\ reset = [r \in Resets |-> [at |-> "idle", token |-> "none"]]
    /\ limitRow = "none" /\ faults = 0
    /\ spent = [t \in Tokens |-> {}]

Fault == faults < MaxFaults /\ faults' = faults + 1
Step(s, at) == signup' = [signup EXCEPT ![s].at = at]
ResetStep(r, at) == reset' = [reset EXCEPT ![r].at = at]

-----------------------------------------------------------------------------
(* Registration.  The password is checked before any query.                *)

Register(s, k, p) ==
    /\ signup[s].at = "idle"
    /\ signup' = [signup EXCEPT ![s] =
         [at |-> IF Strong(p) THEN "received" ELSE "refused", kind |-> k]]
    /\ UNCHANGED <<account, password, tokenRow, reset, limitRow, faults, spent>>

FindByEmail(s) ==
    /\ signup[s].at = "received"
    /\ Step(s, IF account = {} THEN "absent" ELSE "conflict")
    /\ UNCHANGED <<account, password, tokenRow, reset, limitRow, faults, spent>>

\* RegisterService hashes with SHA-256, StartupAuthService with scrypt.
HashOf(k) == IF k = "investor" THEN "sha256" ELSE "scrypt"

\* Mutant: the address is not unique.
CreateUserAnyway(s) ==
    /\ signup[s].at = "absent"
    /\ account' = account \union {s}
    /\ password' = [by |-> s, hash |-> HashOf(signup[s].kind)]
    /\ Step(s, "created")
    /\ UNCHANGED <<tokenRow, reset, limitRow, faults, spent>>

\* The unique index refuses a second row; handlePgError and the handlers turn
\* that into the answer of the lookup.
CreateUser(s) ==
    /\ signup[s].at = "absent"
    /\ IF account = {}
       THEN /\ account' = {s}
            /\ password' = [by |-> s, hash |-> HashOf(signup[s].kind)]
            /\ Step(s, "created")
       ELSE /\ Step(s, "conflict")
            /\ UNCHANGED <<account, password>>
    /\ UNCHANGED <<tokenRow, reset, limitRow, faults, spent>>

\* A query fails: 500.
SignupFails(s) ==
    /\ signup[s].at \in {"received", "absent"} /\ Fault
    /\ Step(s, "error")
    /\ UNCHANGED <<account, password, tokenRow, reset, limitRow, spent>>

\* The row is inserted and the reply is lost: 500.
SignupReplyLost(s) ==
    /\ signup[s].at = "absent" /\ account = {} /\ Fault
    /\ account' = {s}
    /\ password' = [by |-> s, hash |-> HashOf(signup[s].kind)]
    /\ Step(s, "error")
    /\ UNCHANGED <<tokenRow, reset, limitRow, spent>>

-----------------------------------------------------------------------------
(* requestPasswordReset.  Whatever the limiter does, being over the limit  *)
(* included, ends in the same catch block, and the request goes on.        *)

\* COUNT(*) over a table whose key is the identifier.
RequestCount == IF limitRow = "recent" THEN 1 ELSE 0

CheckRateLimit ==
    limitRow' = CASE limitRow = "blocked" -> "blocked"
                  [] limitRow # "blocked" /\ RequestCount >= MaxRequests -> "blocked"
                  [] limitRow = "none" /\ RequestCount < MaxRequests -> "recent"
                  [] OTHER -> limitRow     \* recordRequest's INSERT finds the key

RequestPasswordReset(t) ==
    /\ CheckRateLimit
    /\ tokenRow[t] = "none"
    /\ tokenRow' = [tokenRow EXCEPT ![t] = IF account = {} THEN "none" ELSE "live"]
    /\ UNCHANGED <<account, password, signup, reset, faults, spent>>

\* windowMinutes or blockMinutes pass; the block also counts as a request.
LimitAges ==
    /\ limitRow \in {"recent", "blocked"}
    /\ limitRow' = IF limitRow = "blocked" THEN "recent" ELSE "old"
    /\ UNCHANGED <<account, password, signup, tokenRow, reset, faults, spent>>

ResetRateLimit ==
    /\ limitRow # "none" /\ limitRow' = "none"
    /\ UNCHANGED <<account, password, signup, tokenRow, reset, faults, spent>>

-----------------------------------------------------------------------------
(* resetPassword: a transaction that holds the lock of the token's row     *)
(* from its SELECT to its end.                                             *)

Holds(r, t) == reset[r].token = t /\ reset[r].at \in {"locked", "changed", "marked"}

StartReset(r, t) ==
    /\ reset[r].at = "idle"
    /\ reset' = [reset EXCEPT ![r] = [at |-> "begun", token |-> t]]
    /\ UNCHANGED <<account, password, signup, tokenRow, limitRow, faults, spent>>

\* Mutant: SELECT without FOR UPDATE.
SelectToken(r) ==
    /\ reset[r].at = "begun"
    /\ ResetStep(r, IF tokenRow[reset[r].token] = "live" THEN "locked" ELSE "refused")
    /\ UNCHANGED <<account, password, signup, tokenRow, limitRow, faults, spent>>

\* SELECT ... FOR UPDATE, and the checks of used_at and expires_at.
SelectForUpdate(r) ==
    LET t == reset[r].token IN
    /\ reset[r].at = "begun"
    /\ \A q \in Resets : ~Holds(q, t)
    /\ ResetStep(r, IF tokenRow[t] = "live" THEN "locked" ELSE "refused")
    /\ UNCHANGED <<account, password, signup, tokenRow, limitRow, faults, spent>>

\* The UPDATEs of users and password_reset_tokens; both show with COMMIT.
UpdateUser(r) ==
    /\ reset[r].at = "locked" /\ ResetStep(r, "changed")
    /\ UNCHANGED <<account, password, signup, tokenRow, limitRow, faults, spent>>

MarkUsed(r) ==
    /\ reset[r].at = "changed" /\ ResetStep(r, "marked")
    /\ UNCHANGED <<account, password, signup, tokenRow, limitRow, faults, spent>>

Commits(r) ==
    /\ password' = [by |-> r, hash |-> "sha256"]
    /\ tokenRow' = [tokenRow EXCEPT ![reset[r].token] = "used"]
    /\ spent' = [spent EXCEPT ![reset[r].token] = @ \union {r}]

CommitReset(r) ==
    /\ reset[r].at = "marked" /\ ResetStep(r, "done")
    /\ Commits(r)
    /\ UNCHANGED <<account, signup, limitRow, faults>>

\* A query fails, or the process stops: ROLLBACK.
ResetFails(r) ==
    /\ reset[r].at \in {"begun", "locked", "changed", "marked"} /\ Fault
    /\ ResetStep(r, "error")
    /\ UNCHANGED <<account, password, signup, tokenRow, limitRow, spent>>

\* COMMIT took effect and its reply is lost.
CommitReplyLost(r) ==
    /\ reset[r].at = "marked" /\ ResetStep(r, "error") /\ Fault
    /\ Commits(r)
    /\ UNCHANGED <<account, signup, limitRow>>

\* tokenTtlMinutes pass.
TokenExpires(t) ==
    /\ tokenRow[t] = "live"
    /\ tokenRow' = [tokenRow EXCEPT ![t] = "expired"]
    /\ UNCHANGED <<account, password, signup, reset, limitRow, faults, spent>>

AccountsNext ==
    \/ \E s \in Signups :
        \/ \E k \in Kinds, p \in Passwords : Register(s, k, p)
        \/ FindByEmail(s) \/ CreateUser(s) \/ SignupFails(s) \/ SignupReplyLost(s)
    \/ \E t \in Tokens : RequestPasswordReset(t) \/ TokenExpires(t)
    \/ LimitAges \/ ResetRateLimit
    \/ \E r \in Resets :
        \/ \E t \in Tokens : StartReset(r, t)
        \/ SelectForUpdate(r) \/ UpdateUser(r) \/ MarkUsed(r) \/ CommitReset(r)
        \/ ResetFails(r) \/ CommitReplyLost(r)

AccountsSpec == AccountsInit /\ [][AccountsNext]_accountVars

-----------------------------------------------------------------------------
\* Every variable stays in its type.
AccountsTypeOK ==
    /\ account \subseteq Signups
    /\ password \in [by : {"nobody"} \union Signups \union Resets, hash : {"none", "sha256", "scrypt"}]
    /\ signup \in [Signups -> [at : {"idle", "received", "refused", "absent", "conflict", "created",
         "error"}, kind : Kinds]]
    /\ tokenRow \in [Tokens -> {"none", "live", "expired", "used"}]
    /\ reset \in [Resets -> [at : {"idle", "begun", "locked", "changed", "marked", "refused", "done",
         "error"}, token : Tokens \union {"none"}]]
    /\ \A r \in Resets : reset[r].at # "idle" => reset[r].token \in Tokens
    /\ limitRow \in {"none", "recent", "old", "blocked"}
    /\ faults \in Nat
    /\ spent \in [Tokens -> SUBSET Resets]

\* However the lookups and INSERTs of registrations of both kinds overlap, the
\* address gets one account, and a registration that was answered 201 owns it.
OneAccountPerEmail ==
    /\ Cardinality(account) <= 1
    /\ \A s \in Signups : signup[s].at = "created" => account = {s}

\* A reset token changes the password once, whatever resets present it at the same
\* time, fail or lose their replies; and a token that changed it is used up.
TokensAreSpentOnce ==
    \A t \in Tokens : Cardinality(spent[t]) <= 1 /\ (spent[t] # {} => tokenRow[t] = "used")
=============================================================================
