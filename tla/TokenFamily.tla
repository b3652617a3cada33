----------------------------- MODULE TokenFamily -----------------------------
(***************************************************************************)
(* What refresh-token rotation promises, without requests, locks or SQL:   *)
(* every session is issued once, its token is good for one rotation, and   *)
(* revocation and logout are final.  SessionRotation implements it.        *)
(***************************************************************************)
CONSTANTS Sessions, None

VARIABLES
    status,   \* unborn, live, used (rotated), revoked or gone (logged out)
    parent    \* the session a session was rotated from

fvars == <<status, parent>>

Statuses == {"unborn", "live", "used", "revoked", "gone"}

FInit ==
    /\ status = [s \in Sessions |-> "unborn"]
    /\ parent = [s \in Sessions |-> None]

\* A login starts a family.
Issue(s) ==
    /\ status[s] = "unborn"
    /\ status' = [status EXCEPT ![s] = "live"]
    /\ UNCHANGED parent

\* A live token is exchanged for a new one, in one step.
Rotate(s, c) ==
    /\ status[s] = "live" /\ status[c] = "unborn"
    /\ status' = [status EXCEPT ![s] = "used", ![c] = "live"]
    /\ parent' = [parent EXCEPT ![c] = s]

\* Reuse was detected: some sessions stop working.
Revoke(S) ==
    /\ \A s \in S : status[s] \in {"live", "used"}
    /\ status' = [s \in Sessions |-> IF s \in S THEN "revoked" ELSE status[s]]
    /\ UNCHANGED parent

\* A logout takes the sessions rotated from its own along.
Forget(S) ==
    /\ \A s \in S : status[s] \in {"live", "used", "revoked"}
    /\ \A c \in Sessions : parent[c] \in S => c \in S \/ status[c] = "gone"
    /\ status' = [s \in Sessions |-> IF s \in S THEN "gone" ELSE status[s]]
    /\ UNCHANGED parent

FNext ==
    \/ \E s \in Sessions : Issue(s)
    \/ \E s, c \in Sessions : Rotate(s, c)
    \/ \E S \in SUBSET Sessions : Revoke(S) \/ Forget(S)

FSpec == FInit /\ [][FNext]_fvars
=============================================================================
