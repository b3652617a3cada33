---------------------------- MODULE IdempotentKey ----------------------------
(***************************************************************************)
(* What an idempotency store promises for each key: one request at a time  *)
(* holds it, and while an answer is stored for it nobody does.             *)
(***************************************************************************)
CONSTANTS Keys, Requests, None

VARIABLES
    holder,   \* the request each key is reserved for
    answer    \* the request whose response is stored under each key

kvars == <<holder, answer>>

KInit ==
    /\ holder = [k \in Keys |-> None]
    /\ answer = [k \in Keys |-> None]

\* The key is free: r may do the work.
Reserve(r, k) ==
    /\ holder[k] = None /\ answer[k] = None
    /\ holder' = [holder EXCEPT ![k] = r]
    /\ UNCHANGED answer

\* The holder's response is stored.
Complete(k) ==
    /\ holder[k] # None
    /\ answer' = [answer EXCEPT ![k] = holder[k]]
    /\ holder' = [holder EXCEPT ![k] = None]

\* The holder failed or its client left: a retry may do the work.
GiveUp(k) ==
    /\ holder' = [holder EXCEPT ![k] = None]
    /\ UNCHANGED answer

\* A stored answer expires.
Forget(k) ==
    /\ answer' = [answer EXCEPT ![k] = None]
    /\ UNCHANGED holder

\* A restart forgets everything.
ForgetAll ==
    /\ holder' = [k \in Keys |-> None]
    /\ answer' = [k \in Keys |-> None]

KNext ==
    \/ \E k \in Keys : Complete(k) \/ GiveUp(k) \/ Forget(k) \/ \E r \in Requests : Reserve(r, k)
    \/ ForgetAll

KSpec == KInit /\ [][KNext]_kvars
=============================================================================
