-------------------------- MODULE RecoveryPlanner --------------------------
(***************************************************************************)
(* RecoveryPlanner::plan (src/recovery.cpp), reduced to the action a plan  *)
(* names.  Preconditions, factors and rejected alternatives explain the    *)
(* choice; the identity, owner and generation of a plan are copied.        *)
(***************************************************************************)
EXTENDS FailureRecord, Naturals

\* Undo what happened physically, else logically, else hand it to somebody.
Undo(in, otherwise) ==
    IF in.rollback_possible THEN "ROLLBACK"
    ELSE IF in.compensation_possible THEN "COMPENSATE"
    ELSE otherwise

PlanLoss(fail, in) ==
    IF fail.failure_class = "LOST_DEVICE" /\ in.device_healthy
    THEN "RESTART_DEVICE_CONTEXT"
    ELSE IF in.worker_healthy THEN "RESTART_WORKER" ELSE "FAILOVER_REPLICA"

PlanAmbiguous(in, exhausted) ==
    IF in.idempotent_retry_possible /\ ~exhausted THEN "RETRY"
    ELSE Undo(in, "MANUAL_RESOLUTION")

PlanRetry(in) ==
    IF ~in.dependency_ready THEN "RETRY"
    ELSE IF ~in.worker_healthy THEN "RETRY_ELSEWHERE"
    ELSE IF in.deadline_exceeded THEN "ESCALATE"
    ELSE "RETRY"

PlanTerminal(fail, in) ==
    IF /\ fail.side_effect_state \notin {"NONE_POSSIBLE", "KNOWN_NOT_OCCURRED"}
       /\ in.rollback_possible
    THEN "ROLLBACK"
    ELSE IF in.externally_committed THEN "RECOMPUTE"
    ELSE IF fail.failure_class = "RESOURCE_EXHAUSTION"
    THEN IF in.worker_healthy THEN "RETRY_ELSEWHERE" ELSE "FAILOVER_REPLICA"
    ELSE "ABANDON"

\* Mutant: the bounded retry does not ask for an idempotency key.
RetryPlanned_any_key(fail, in, exhausted) ==
    /\ fail.retryability \in {"RETRYABLE", "CONDITIONALLY_RETRYABLE"}
    /\ ~exhausted

\* The planner reads the recorded retryability, never what the class implies.
RetryPlanned(fail, in, exhausted) ==
    /\ fail.retryability \in {"RETRYABLE", "CONDITIONALLY_RETRYABLE"}
    /\ ~exhausted
    /\ in.idempotent_retry_possible

plan(fail, in, max_attempts) ==
    LET exhausted == in.attempt_count >= max_attempts IN
    IF fail.failure_class \in {"LOST_DEVICE", "LOST_WORKER"} THEN PlanLoss(fail, in)
    ELSE IF Ambiguous(fail) THEN PlanAmbiguous(in, exhausted)
    ELSE IF /\ fail.side_effect_state = "KNOWN_OCCURRED"
            /\ ~in.idempotent_retry_possible
    THEN Undo(in, "ESCALATE")
    ELSE IF RetryPlanned(fail, in, exhausted) THEN PlanRetry(in)
    ELSE IF \/ fail.retryability \notin {"RETRYABLE", "CONDITIONALLY_RETRYABLE"}
            \/ exhausted
    THEN PlanTerminal(fail, in)
    ELSE "ESCALATE"

=============================================================================
