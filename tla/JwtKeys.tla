------------------------------ MODULE JwtKeys ------------------------------
(***************************************************************************)
(* The rotation of the JWT keys (src/src/lib/jwt.ts): every instance of    *)
(* the server reads a current and a previous key from its environment when *)
(* it starts, signs with the current one, and looks the key of a token up  *)
(* by the id in its header.  Time is in units of the clock tolerance.      *)
(***************************************************************************)
EXTENDS Naturals, FiniteSets, Sequences

CONSTANTS
    Instances,    \* server processes
    MaxRotations, \* rotations of the keys (a bound)
    MaxTokens,    \* tokens issued (a bound)
    TokenTtl,     \* expiresIn
    MaxInstant    \* time that passes (a bound)

ASSUME TtlAssumption == TokenTtl \in Nat

VARIABLES
    jwtClock,
    deployed,     \* the keys of each deployment: the current one, the previous one
    renamed,      \* every rotation kept the previous key, and gave the new one an id
    env,          \* the deployment each instance was started with
    issued,       \* tokens: key, iat, exp, and the deployment they were issued in
    asked         \* the last verification

jwtVars == <<jwtClock, deployed, renamed, env, issued, asked>>

Tolerance == 1

\* JWT_KEY_ID is "current" (here 0) unless it is set.
Key(secret, named) == [kid |-> IF named THEN secret ELSE 0, secret |-> secret]

JwtInit ==
    /\ jwtClock = 0 /\ deployed = <<<<Key(1, TRUE)>>>> /\ renamed = TRUE
    /\ env = [i \in Instances |-> 1]
    /\ issued = {} /\ asked = [done |-> FALSE]

\* Mutant: the previous key is forgotten.
CurrentOnly(i) == <<deployed[env[i]][1]>>

\* getJwtKeyset: the current key first.
Keyset(i) == deployed[env[i]]

\* getSecretByKid: the first key with the id.
SecretByKid(i, kid) ==
    LET named == {n \in DOMAIN Keyset(i) : Keyset(i)[n].kid = kid}
    IN  IF named = {} THEN 0 ELSE Keyset(i)[CHOOSE n \in named : \A m \in named : n <= m].secret

\* validateClaims
ClaimsValid(t) == t.exp >= jwtClock - Tolerance /\ t.iat <= jwtClock + Tolerance

\* A deployment names the old current key as the previous one, if that has a secret of
\* 32 characters and an id of its own.
Rotate(named, kept) ==
    LET last == Len(deployed)
        key == Key(last + 1, named)
    IN  /\ last <= MaxRotations
        /\ deployed' = Append(deployed, IF kept THEN <<key, deployed[last][1]>> ELSE <<key>>)
        /\ renamed' = (renamed /\ named /\ kept)
        /\ UNCHANGED <<jwtClock, env, issued, asked>>

Restart(i) ==
    /\ env[i] # Len(deployed) /\ env' = [env EXCEPT ![i] = Len(deployed)]
    /\ UNCHANGED <<jwtClock, deployed, renamed, issued, asked>>

\* issueToken
IssueToken(i) ==
    /\ Cardinality(issued) < MaxTokens
    /\ issued' = issued \union
         {[key |-> Keyset(i)[1], iat |-> jwtClock, exp |-> jwtClock + TokenTtl, in |-> env[i]]}
    /\ UNCHANGED <<jwtClock, deployed, renamed, env, asked>>

\* verifyToken
VerifyToken(i, t) ==
    /\ asked' = [done |-> TRUE, token |-> t, since |-> env[i], at |-> jwtClock,
                 passed |-> SecretByKid(i, t.key.kid) = t.key.secret /\ ClaimsValid(t)]
    /\ UNCHANGED <<jwtClock, deployed, renamed, env, issued>>

PassJwtTime ==
    /\ jwtClock < MaxInstant /\ jwtClock' = jwtClock + 1
    /\ UNCHANGED <<deployed, renamed, env, issued, asked>>

JwtNext ==
    \/ \E named, kept \in BOOLEAN : Rotate(named, kept)
    \/ \E i \in Instances :
        \/ Restart(i) \/ IssueToken(i)
        \/ \E t \in issued : VerifyToken(i, t)
    \/ PassJwtTime

JwtSpec == JwtInit /\ [][JwtNext]_jwtVars

-----------------------------------------------------------------------------
\* A token outlives one rotation of the keys and never two, on whichever instance it
\* is presented and in whatever order the instances are restarted: one that has not
\* expired passes on an instance started with its keys or the next ones, provided
\* that rotations give keys ids of their own; and none passes that expired longer ago
\* than the tolerance.
TokensOutliveOneRotation ==
    asked.done =>
        LET t == asked.token IN
        /\ renamed /\ asked.at <= t.exp /\ asked.since \in {t.in, t.in + 1} => asked.passed
        /\ asked.passed => asked.at <= t.exp + Tolerance /\ asked.since \in {t.in, t.in + 1}
=============================================================================
