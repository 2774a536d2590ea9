--------------------------- MODULE FailureRecord ---------------------------
(***************************************************************************)
(* Failure records (include/failure_fabric/failure_record.hpp,             *)
(* src/failure_record.cpp), reduced to the dimensions that decide what may *)
(* be done about a failure.                                                *)
(***************************************************************************)

CONSTANT Unset \* the dimensions a caller of the builder did not set

FailureClass ==
    {"TRANSIENT", "PERMANENT", "RETRYABLE", "NON_RETRYABLE", "AMBIGUOUS",
     "PARTIAL_SUCCESS", "STALE_AUTHORITY", "LOST_WORKER", "LOST_DEVICE",
     "TRANSPORT_FAILURE", "TIMEOUT_OBSERVED", "PROTOCOL_FAILURE",
     "RESOURCE_EXHAUSTION", "CORRUPTION", "VALIDATION_FAILURE",
     "INCOMPATIBILITY", "CANCELLED", "PREEMPTED", "DEPENDENCY_FAILURE",
     "STORAGE_FAILURE", "EXECUTION_FAILURE", "RECOVERY_FAILURE", "UNKNOWN"}

Ambiguity == {"KNOWN", "PARTIAL", "AMBIGUOUS", "UNKNOWN_OUTCOME"}

SideEffectState ==
    {"NONE_POSSIBLE", "KNOWN_NOT_OCCURRED", "MAY_OCCURRED", "KNOWN_OCCURRED",
     "UNKNOWN"}

Retryability == {"RETRYABLE", "NON_RETRYABLE", "CONDITIONALLY_RETRYABLE", "UNKNOWN"}

RollbackRequirement == {"NONE", "OPTIONAL", "REQUIRED", "UNAVAILABLE"}

\* What a class means by itself: the table of dims_for, by column.
RetryableClasses ==
    {"TRANSIENT", "RETRYABLE", "RESOURCE_EXHAUSTION", "PREEMPTED",
     "EXECUTION_FAILURE"}

ConditionalClasses ==
    {"AMBIGUOUS", "PARTIAL_SUCCESS", "LOST_WORKER", "LOST_DEVICE",
     "TRANSPORT_FAILURE", "TIMEOUT_OBSERVED", "DEPENDENCY_FAILURE",
     "STORAGE_FAILURE"}

DerivedRetryability(c) ==
    CASE c \in RetryableClasses   -> "RETRYABLE"
      [] c \in ConditionalClasses -> "CONDITIONALLY_RETRYABLE"
      [] c = "UNKNOWN"            -> "UNKNOWN"
      [] OTHER                    -> "NON_RETRYABLE"

DerivedRollback(c) ==
    CASE c \in {"PARTIAL_SUCCESS", "CORRUPTION"} -> "REQUIRED"
      [] c \in {"PERMANENT", "NON_RETRYABLE", "AMBIGUOUS", "LOST_WORKER",
                "LOST_DEVICE", "INCOMPATIBILITY", "CANCELLED",
                "RECOVERY_FAILURE"}              -> "OPTIONAL"
      [] OTHER                                   -> "NONE"

\* Mutant: a dimension that was not set is not derived.
build_underived(class, completion, effects, retryability, rollback) ==
    [failure_class |-> class, completion |-> completion,
     side_effect_state |-> effects, retryability |-> retryability,
     rollback |-> rollback]

\* A dimension the caller set stays as it is, even where it says nothing.
build(class, completion, effects, retryability, rollback) ==
    [failure_class     |-> class,
     completion        |-> completion,
     side_effect_state |-> effects,
     retryability      |-> IF retryability = Unset THEN DerivedRetryability(class)
                           ELSE retryability,
     rollback          |-> IF rollback = Unset THEN DerivedRollback(class)
                           ELSE rollback]

FailureRecords ==
    [failure_class : FailureClass, completion : Ambiguity,
     side_effect_state : SideEffectState, retryability : Retryability,
     rollback : RollbackRequirement]

\* Both the classifier and the planner read a record this way.
Ambiguous(fail) == fail.completion \in {"AMBIGUOUS", "UNKNOWN_OUTCOME"}

=============================================================================
