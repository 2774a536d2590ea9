-------------------------- MODULE RetryClassifier --------------------------
(***************************************************************************)
(* RetryClassifier::classify (src/retry.cpp).  A decision is what a caller *)
(* acts on; reasons and factors are text.  The rules are tried in order:   *)
(* each one answers only for what the rules before it let through.         *)
(***************************************************************************)
EXTENDS FailureRecord, Naturals

RetryVerdict == {"RETRY", "DO_NOT_RETRY", "RETRY_ELSEWHERE", "ROLLBACK_FIRST"}

RetryDecision ==
    [verdict : RetryVerdict, requires_fresh_attempt : BOOLEAN,
     same_idempotency_key : BOOLEAN]

\* Decisions keep same_idempotency_key at its default except where the policy
\* decides about it.
Decision(verdict, fresh) ==
    [verdict |-> verdict, requires_fresh_attempt |-> fresh,
     same_idempotency_key |-> TRUE]

\* Also a class without derived retryability is not retryable here.
eff_retryability(fail) ==
    IF fail.retryability # "UNKNOWN" THEN fail.retryability
    ELSE IF fail.failure_class = "UNKNOWN" THEN "NON_RETRYABLE"
    ELSE DerivedRetryability(fail.failure_class)

FencedClasses ==
    {"PERMANENT", "NON_RETRYABLE", "VALIDATION_FAILURE", "INCOMPATIBILITY",
     "CANCELLED", "RECOVERY_FAILURE", "STALE_AUTHORITY"}

MayEffect(fail) == fail.side_effect_state \in {"MAY_OCCURRED", "UNKNOWN"}

ClassifyAmbiguous(fail, in, policy) ==
    IF in.idempotent_retry_possible
    THEN [Decision("RETRY", TRUE)
             EXCEPT !.same_idempotency_key = policy.require_same_key]
    ELSE IF fail.rollback = "REQUIRED" \/ MayEffect(fail)
    THEN Decision("ROLLBACK_FIRST", TRUE)
    ELSE Decision("DO_NOT_RETRY", TRUE)

ClassifyRetryable(in, policy) ==
    IF in.deadline_exceeded THEN Decision("DO_NOT_RETRY", TRUE)
    ELSE IF ~in.worker_healthy /\ policy.allow_retry_elsewhere
    THEN Decision("RETRY_ELSEWHERE", TRUE)
    ELSE IF ~in.dependency_ready THEN Decision("DO_NOT_RETRY", TRUE)
    ELSE Decision("RETRY", TRUE)

\* Mutant: the attempt limit is off by one.
Exhausted_late(in, policy) == in.attempt_count > policy.max_attempts

Exhausted(in, policy) == in.attempt_count >= policy.max_attempts

\* Mutant: only side effects known to have happened ask for a rollback.
RollbackFirst_known_only(fail, in, policy) ==
    fail.side_effect_state = "KNOWN_OCCURRED" /\ ~in.idempotent_retry_possible

\* A completion that is not ambiguous but leaves side effects behind.
RollbackFirst(fail, in, policy) ==
    \/ fail.side_effect_state = "KNOWN_OCCURRED" /\ ~in.idempotent_retry_possible
    \/ MayEffect(fail) /\ ~policy.allow_retry_unknown_side_effects

classify(fail, in, policy) ==
    IF Exhausted(in, policy) THEN Decision("DO_NOT_RETRY", FALSE)
    ELSE IF fail.failure_class \in FencedClasses THEN Decision("DO_NOT_RETRY", FALSE)
    ELSE IF Ambiguous(fail) THEN ClassifyAmbiguous(fail, in, policy)
    ELSE IF RollbackFirst(fail, in, policy)
    THEN Decision("ROLLBACK_FIRST", fail.side_effect_state # "KNOWN_OCCURRED")
    ELSE IF eff_retryability(fail) \in {"RETRYABLE", "CONDITIONALLY_RETRYABLE"}
    THEN ClassifyRetryable(in, policy)
    ELSE Decision("DO_NOT_RETRY", TRUE)

LeastOf(a, b) == IF a < b THEN a ELSE b

\* Mutant: the shift is clamped before the cap is reached.
backoff_ms_clamped_early(attempt) == LeastOf(10 * 2^LeastOf(attempt, 8), 5000)

\* A shift of at most 12, in 64 bits; base and cap of the policy are not read.
backoff_ms(attempt) == LeastOf(10 * 2^LeastOf(attempt, 12), 5000)

=============================================================================
