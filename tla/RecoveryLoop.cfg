\* Every failure class, completion and side-effect state, up to three attempts.
SPECIFICATION Spec
CONSTANTS
    Unset = Unset
    NoFailure = NoFailure
    MaxAttempts = 3
    ExplicitRetry = {Unset, "UNKNOWN"}
    ExplicitRollback = {Unset}
CHECK_DEADLOCK FALSE
INVARIANTS TypeOK NoDoubleApply AttemptsBounded PlanRetriesUnderKey BackoffDoublesToCap
