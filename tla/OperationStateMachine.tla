----------------------- MODULE OperationStateMachine -----------------------
(***************************************************************************)
(* The guarded life cycle of an operation: the transition table of         *)
(* src/operation.cpp as a relation on the twenty operation states.         *)
(***************************************************************************)

OperationStates ==
    {"CREATED", "DISPATCHED", "RUNNING", "COMPLETION_REPORTED",
     "COMPLETION_CONFIRMED", "FAILED_KNOWN", "FAILED_AMBIGUOUS",
     "PARTIALLY_SUCCEEDED", "RETRY_PENDING", "RETRYING", "ROLLBACK_PENDING",
     "ROLLING_BACK", "COMPENSATION_PENDING", "COMPENSATING",
     "RECOVERY_PENDING", "RECOVERING", "RECOVERED", "TERMINAL_FAILED",
     "CANCELLED", "ABANDONED"}

is_terminal(s) ==
    s \in {"COMPLETION_CONFIRMED", "RECOVERED", "TERMINAL_FAILED",
           "CANCELLED", "ABANDONED"}

\* The ways an unfinished attempt fails.
Failures == {"FAILED_KNOWN", "FAILED_AMBIGUOUS"}

\* The repairs a failed operation may enter, which all end TERMINAL_FAILED
\* when none of them is tried.
Repairs ==
    {"RETRY_PENDING", "ROLLBACK_PENDING", "COMPENSATION_PENDING",
     "RECOVERY_PENDING", "TERMINAL_FAILED"}

GivenUp == {"CANCELLED", "ABANDONED"}

\* The row of the transition table for a source state.
Successors(from) ==
    CASE from = "CREATED"              -> Failures \cup {"DISPATCHED"}
      [] from \in {"DISPATCHED", "RETRYING"}
                                       -> Failures \cup {"RUNNING", "CANCELLED"}
      [] from = "RUNNING"              -> Failures \cup {"COMPLETION_REPORTED",
                                            "PARTIALLY_SUCCEEDED", "CANCELLED"}
      [] from = "COMPLETION_REPORTED"  -> Failures \cup {"COMPLETION_CONFIRMED",
                                            "PARTIALLY_SUCCEEDED"}
      [] from = "FAILED_KNOWN"         -> Repairs \cup GivenUp
      [] from = "FAILED_AMBIGUOUS"     -> Repairs \cup {"ABANDONED"}
      [] from = "PARTIALLY_SUCCEEDED"  -> Repairs
      [] from = "RETRY_PENDING"        -> GivenUp \cup {"RETRYING"}
      [] from = "ROLLBACK_PENDING"     -> GivenUp \cup {"ROLLING_BACK"}
      [] from = "ROLLING_BACK"         -> (Repairs \ {"ROLLBACK_PENDING"})
                                            \cup {"RECOVERED"}
      [] from = "COMPENSATION_PENDING" -> GivenUp \cup {"COMPENSATING"}
      [] from = "COMPENSATING"         -> {"RECOVERY_PENDING", "RECOVERED",
                                            "TERMINAL_FAILED"}
      [] from = "RECOVERY_PENDING"     -> {"RECOVERING", "TERMINAL_FAILED",
                                            "ABANDONED"}
      [] from = "RECOVERING"           -> {"RECOVERED", "TERMINAL_FAILED",
                                            "CANCELLED"}
      [] OTHER                         -> {}

\* Mutant: a cancelled operation may run again.
is_allowed_resurrecting(from, to) ==
    \/ to \in Successors(from)
    \/ from = "CANCELLED" /\ to = "RUNNING"

is_allowed(from, to) == to \in Successors(from)

=============================================================================
