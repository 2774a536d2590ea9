---------------------------- MODULE RecoveryLoop ----------------------------
(***************************************************************************)
(* One operation that is attempted, fails, and is retried, rolled back or  *)
(* given up as RetryClassifier decides, with RecoveryPlanner asked about   *)
(* the same failure, the way the command line tool consults both.  The     *)
(* attempts and their side effects, and what the caller does with a        *)
(* decision, are the surroundings of the library.                          *)
(***************************************************************************)
EXTENDS RetryClassifier, RecoveryPlanner, FiniteSets

CONSTANTS MaxAttempts,      \* bound on max_attempts of the policies
          ExplicitRetry,    \* retryabilities a builder's caller may set
          ExplicitRollback, \* rollback requirements it may set
          NoFailure

ASSUME MaxAttemptsAssumption == MaxAttempts \in Nat \ {0}
ASSUME ExplicitAssumption ==
    /\ ExplicitRetry \subseteq Retryability \cup {Unset}
    /\ ExplicitRollback \subseteq RollbackRequirement \cup {Unset}
ASSUME UnsetAssumption ==
    /\ Unset \notin Retryability \cup RollbackRequirement
    /\ NoFailure \notin FailureRecords

VARIABLES
    policy,        \* RetryPolicy of the operation
    idempotent,    \* whether the operation has an idempotency key
    phase,         \* running, failed, rollback, stopped or completed
    attempt_count, \* attempts dispatched so far
    same_key,      \* whether this attempt runs under the operation's key
    failure,       \* the record that awaits a decision
    decision,      \* what the classifier said about it
    applied        \* how often the side effect is in force

vars == <<policy, idempotent, phase, attempt_count, same_key, failure, decision,
          applied>>

\* allow_retry_after_ambiguous and the backoff limits are never read.
RetryPolicy ==
    [max_attempts : 1..MaxAttempts, allow_retry_unknown_side_effects : BOOLEAN,
     require_same_key : BOOLEAN, allow_retry_elsewhere : BOOLEAN]

\* What the runtime knows when it asks.  reservation_active is never read.
Inputs ==
    [attempt_count : {attempt_count}, idempotent_retry_possible : {idempotent},
     worker_healthy : BOOLEAN, dependency_ready : BOOLEAN,
     deadline_exceeded : BOOLEAN]

PlanInputs ==
    [attempt_count : {attempt_count}, idempotent_retry_possible : {idempotent},
     worker_healthy : BOOLEAN, dependency_ready : BOOLEAN,
     deadline_exceeded : BOOLEAN, device_healthy : BOOLEAN,
     rollback_possible : BOOLEAN, compensation_possible : BOOLEAN,
     externally_committed : BOOLEAN]

Init ==
    /\ policy \in RetryPolicy
    /\ idempotent \in BOOLEAN
    /\ phase = "running"
    /\ attempt_count = 1
    /\ same_key = TRUE
    /\ failure = NoFailure
    /\ decision = Decision("DO_NOT_RETRY", TRUE)
    /\ applied = 0

\* A record never claims more about the side effect than is true.
Truthful(effects, occurred) ==
    /\ effects \in {"NONE_POSSIBLE", "KNOWN_NOT_OCCURRED"} => ~occurred
    /\ effects = "KNOWN_OCCURRED" => occurred

\* Under the same key the side effect is deduplicated.
Applied(occurred) ==
    IF ~occurred THEN applied
    ELSE IF idempotent /\ same_key THEN 1 ELSE applied + 1

\* The attempt fails, before or after its side effect.
Fail(class, completion, effects, retryability, rollback, occurred) ==
    /\ phase = "running"
    /\ Truthful(effects, occurred)
    /\ failure' = build(class, completion, effects, retryability, rollback)
    /\ applied' = Applied(occurred)
    /\ phase' = "failed"
    /\ UNCHANGED <<policy, idempotent, attempt_count, same_key, decision>>

Succeed ==
    /\ phase = "running"
    /\ applied' = Applied(TRUE)
    /\ phase' = "completed"
    /\ UNCHANGED <<policy, idempotent, attempt_count, same_key, failure, decision>>

NewAttempt(d) ==
    /\ phase' = "running"
    /\ attempt_count' = attempt_count + 1
    /\ same_key' = d.same_idempotency_key

EndAttempt(p) == phase' = p /\ UNCHANGED <<attempt_count, same_key>>

\* The record stays in the failure log; nothing asks about it again.
Decide(in) ==
    LET d == classify(failure, in, policy) IN
    /\ phase = "failed"
    /\ decision' = d /\ failure' = NoFailure
    /\ \/ d.verdict \in {"RETRY", "RETRY_ELSEWHERE"} /\ NewAttempt(d)
       \/ d.verdict = "ROLLBACK_FIRST" /\ EndAttempt("rollback")
       \/ d.verdict = "DO_NOT_RETRY" /\ EndAttempt("stopped")
    /\ UNCHANGED <<policy, idempotent, applied>>

\* The side effect is undone; a fresh attempt follows if one is asked for.
RolledBack ==
    /\ phase = "rollback"
    /\ applied' = 0
    /\ \/ decision.requires_fresh_attempt /\ NewAttempt(decision)
       \/ ~decision.requires_fresh_attempt /\ EndAttempt("stopped")
    /\ UNCHANGED <<policy, idempotent, failure, decision>>

RollbackFailed ==
    /\ phase = "rollback"
    /\ EndAttempt("stopped")
    /\ UNCHANGED <<policy, idempotent, failure, decision, applied>>

Next ==
    \/ \E class \in FailureClass, completion \in Ambiguity,
          effects \in SideEffectState, retryability \in ExplicitRetry,
          rollback \in ExplicitRollback, occurred \in BOOLEAN :
           Fail(class, completion, effects, retryability, rollback, occurred)
    \/ Succeed
    \/ \E in \in Inputs : Decide(in)
    \/ RolledBack
    \/ RollbackFailed

Spec == Init /\ [][Next]_vars

-----------------------------------------------------------------------------
(* Properties.                                                             *)

\* Every reachable record and decision is well formed.
TypeOK ==
    /\ policy \in RetryPolicy
    /\ idempotent \in BOOLEAN
    /\ phase \in {"running", "failed", "rollback", "stopped", "completed"}
    /\ attempt_count \in 1..MaxAttempts
    /\ same_key \in BOOLEAN
    /\ failure \in FailureRecords \cup {NoFailure}
    /\ decision \in RetryDecision
    /\ applied \in 0..MaxAttempts

\* A policy that neither retries over unknown side effects nor gives up the key.
Cautious ==
    ~policy.allow_retry_unknown_side_effects /\ policy.require_same_key

\* Whatever sequence of failures an operation goes through, and whether or not
\* it is idempotent, the classifier's decisions under a cautious policy never
\* let its side effect be in force twice: retry.cpp answers RETRY only when the
\* effect cannot have happened, is deduplicated, or was rolled back.
NoDoubleApply == Cautious => applied <= 1

\* "never retry past the policy limit (no unbounded loops)", also by way of
\* rollbacks, which ask for fresh attempts too.
AttemptsBounded == attempt_count <= policy.max_attempts

\* Asked about any failure the loop can reach, the planner plans a retry in
\* place only under a key and below the attempt limit the classifier keeps to;
\* and where the effect has happened or the completion is ambiguous it moves the
\* operation to another worker only under a key: "not idempotent-safe; retry
\* would double-apply" and "would re-apply side effect" (recovery.cpp).
PlanRetriesUnderKey ==
    phase = "failed" =>
        \A in \in PlanInputs :
            LET action == plan(failure, in, policy.max_attempts) IN
            /\ action = "RETRY" => idempotent /\ attempt_count < policy.max_attempts
            /\ /\ action = "RETRY_ELSEWHERE"
               /\ Ambiguous(failure) \/ failure.side_effect_state = "KNOWN_OCCURRED"
               => idempotent

\* Counted from 0, so that an argument of 0 is covered: the delay of this and any
\* later attempt is 10 ms doubled that often and cut off at 5 s; clamping the
\* shift at 12 never shows below the cap.  (27 doublings are as many as TLC's
\* integers hold.)
BackoffDoublesToCap ==
    \A n \in (attempt_count - 1)..27 : backoff_ms(n) = LeastOf(10 * 2^n, 5000)

-----------------------------------------------------------------------------
(* Refuted by the planner.                                                 *)

\* A retry, in place or elsewhere, is planned for at least one good reason: the
\* operation has a key, or the side effect cannot have happened, or at least
\* the attempt limit is not reached.  plan() answers RETRY_ELSEWHERE to
\* exhausted resources with none of the three, over side effects that may have
\* occurred and cannot be rolled back (recovery.cpp:157).
PlanRetriesSafely ==
    phase = "failed" =>
        \A in \in PlanInputs :
            plan(failure, in, policy.max_attempts) \in {"RETRY", "RETRY_ELSEWHERE"} =>
                \/ idempotent
                \/ failure.side_effect_state \in {"NONE_POSSIBLE", "KNOWN_NOT_OCCURRED"}
                \/ attempt_count < policy.max_attempts

=============================================================================
