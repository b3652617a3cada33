-------------------------- MODULE StellarFailures --------------------------
(***************************************************************************)
(* The classification of failed Stellar calls (src/src/lib/                *)
(* stellarRpcFailure.ts) and what its callers make of the class.  An error *)
(* is what the classifier looks at: whether it is an Error, what its name, *)
(* code and message speak of, its HTTP status and its result codes.        *)
(***************************************************************************)
EXTENDS Integers

CONSTANTS
    MaxAttempts,  \* maxAttempts of shouldRetryStellarRPCFailure
    LastAttempt,  \* attempts (a bound)
    RetryAfters   \* seconds a Retry-After may ask for; 0: none, or not a number

ASSUME AttemptsAssumption == {MaxAttempts, LastAttempt} \subseteq Nat /\ RetryAfters \subseteq Int

VARIABLES
    failure,      \* the error and the attempt it ended; attempt 0: not given
    verdict

failureVars == <<failure, verdict>>

Topics == {"timeout", "network", "contract", "failed", "insufficient", "sequence", "signature"}
Failures ==
    [isError : BOOLEAN, speaksOf : SUBSET Topics, syntax : BOOLEAN,
     status : {0, 403, 404, 429, 503}, codes : {"none", "unlisted", "transaction", "operation"},
     retryAfter : RetryAfters, attempt : 0 .. LastAttempt]

\* A SyntaxError is an Error; it carries no status.
FailuresInit ==
    /\ failure \in Failures
    /\ failure.syntax => failure.isError /\ failure.status = 0 /\ failure.codes = "none"
    /\ failure.status # 429 => failure.retryAfter = 0
    /\ verdict = [decided |-> FALSE]

When(test, class) == IF test THEN class ELSE "none"

\* The first of the checks that finds a class.
FirstOf(checks) ==
    LET found == {n \in DOMAIN checks : checks[n] # "none"}
    IN  IF found = {} THEN "none" ELSE checks[CHOOSE n \in found : \A m \in found : n <= m]

\* Messages are only searched for timeouts and network trouble when e is an Error.
ByMessage(e) ==
    FirstOf(<<When(e.isError /\ "timeout" \in e.speaksOf, "TIMEOUT"),
              When(e.isError /\ "network" \in e.speaksOf, "NETWORK_ERROR")>>)

ByResultCodes(e) ==
    FirstOf(<<When(e.codes = "operation", "OP_RESULT_CODE"),
              When(e.codes = "transaction", "TX_RESULT_CODE")>>)

ByStatus(e) ==
    FirstOf(<<When(e.status = 429, "RATE_LIMIT"),
              When(e.status \in {401, 403}, "UNAUTHORIZED"),
              When(e.status >= 500, "UPSTREAM_ERROR")>>)

ByTransaction(e) ==
    FirstOf(<<When("contract" \in e.speaksOf, "CONTRACT_ERROR"),
              When("failed" \in e.speaksOf, "TRANSACTION_FAILED"),
              When("insufficient" \in e.speaksOf, "INSUFFICIENT_FUNDS"),
              When("sequence" \in e.speaksOf, "BAD_SEQUENCE"),
              When("signature" \in e.speaksOf, "SIGNING_ERROR")>>)

ByShape(e) == IF e.syntax THEN "MALFORMED_RESPONSE" ELSE "UNKNOWN"

\* Mutant: the HTTP status is looked at before the result codes.
StatusFirst(e) == <<ByMessage(e), ByStatus(e), ByResultCodes(e), ByTransaction(e), ByShape(e)>>

\* The checks in their order; the last one always finds a class.
Checks(e) == <<ByMessage(e), ByResultCodes(e), ByStatus(e), ByTransaction(e), ByShape(e)>>

\* classifyStellarRPCFailure(...).class
Class(e) == FirstOf(Checks(e))

\* classifyStellarRPCFailure(...).shouldRetry
Worthwhile(e) ==
    \/ Class(e) \in {"TIMEOUT", "NETWORK_ERROR", "RATE_LIMIT", "UPSTREAM_ERROR", "BAD_SEQUENCE",
                     "MALFORMED_RESPONSE"}
    \/ Class(e) = "UNKNOWN" /\ e.attempt < 3

AtMost(ms, limit) == IF ms < limit THEN ms ELSE limit

\* suggestedRetryDelayMs; 0 where there is none.
Delay(e) ==
    LET growth == 2 ^ (IF e.attempt = 0 THEN 0 ELSE e.attempt - 1) IN
    CASE Class(e) = "TIMEOUT" -> AtMost(1000 * growth, 30000)
      [] Class(e) = "NETWORK_ERROR" -> AtMost(2000 * growth, 60000)
      [] Class(e) = "RATE_LIMIT" -> IF e.retryAfter = 0 THEN 10000 ELSE 1000 * e.retryAfter
      [] Class(e) = "UPSTREAM_ERROR" -> 5000
      [] Class(e) \in {"BAD_SEQUENCE", "MALFORMED_RESPONSE"} -> 1000
      [] Class(e) = "UNKNOWN" -> AtMost(5000 * growth, 30000)
      [] OTHER -> 0

\* An attempt that is not given is the first.
CurrentAttempt(e) == IF e.attempt = 0 THEN 1 ELSE e.attempt

\* shouldRetryStellarRPCFailure
ShouldRetry(e) ==
    /\ CurrentAttempt(e) < MaxAttempts
    /\ Class(e) \notin {"VALIDATION_ERROR", "UNAUTHORIZED", "INSUFFICIENT_FUNDS",
                        "TRANSACTION_FAILED", "CONTRACT_ERROR", "SIGNING_ERROR"}
    /\ Worthwhile(e)

\* isStellarRPCRetryable
Transient(class) == class \in {"TIMEOUT", "UPSTREAM_ERROR"}

\* getStatusCodeForFailureClass of routes/offeringSync.ts.
StatusCode(class) ==
    CASE class = "TIMEOUT" -> 504
      [] class = "RATE_LIMIT" -> 429
      [] class = "UNAUTHORIZED" -> 401
      [] class \in {"UPSTREAM_ERROR", "MALFORMED_RESPONSE"} -> 502
      [] OTHER -> 503

Classify ==
    /\ ~verdict.decided
    /\ verdict' = [decided |-> TRUE, class |-> Class(failure), retry |-> ShouldRetry(failure),
                   delay |-> Delay(failure), answer |-> StatusCode(Class(failure))]
    /\ UNCHANGED failure

FailuresSpec == FailuresInit /\ [][Classify]_failureVars

-----------------------------------------------------------------------------
\* The error says nothing that the classifier looks for.
SaysNothing(e) == e.speaksOf = {} /\ ~e.syntax /\ e.status \in {0, 404}

\* A result code of the lists is final, whatever HTTP status it came with and
\* whatever else the error speaks of, as long as it does not look like a connection
\* that failed; a code that no list knows decides nothing, and the call is tried
\* again like any unknown failure.  What is retried has attempts left and waits one
\* to sixty seconds, except as long as a Retry-After asks, which is passed on as it
\* is, without a limit.  What isStellarRPCRetryable calls transient is retried while
\* attempts are left.
DecisionsAreFinal ==
    verdict.decided =>
        /\ failure.codes \in {"transaction", "operation"}
             /\ failure.speaksOf \intersect {"timeout", "network"} = {} => ~verdict.retry
        /\ failure.codes = "unlisted" /\ SaysNothing(failure)
             /\ CurrentAttempt(failure) < MaxAttempts /\ CurrentAttempt(failure) < 3 => verdict.retry
        /\ verdict.retry =>
             /\ CurrentAttempt(failure) < MaxAttempts
             /\ IF verdict.class = "RATE_LIMIT" /\ failure.retryAfter # 0
                THEN verdict.delay = 1000 * failure.retryAfter
                ELSE 1000 <= verdict.delay /\ verdict.delay <= 60000
        /\ Transient(verdict.class) /\ CurrentAttempt(failure) < MaxAttempts => verdict.retry
=============================================================================
