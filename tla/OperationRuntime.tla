-------------------------- MODULE OperationRuntime --------------------------
(***************************************************************************)
(* What each method of OperationRegistry does to the runtime record of one *)
(* operation (src/operation_registry.cpp).  Every method is one critical   *)
(* section of the registry's mutex.  accepts_m is the condition under      *)
(* which method m answers OK and changes the record; every other answer    *)
(* leaves the record alone, except for dispatch.                           *)
(***************************************************************************)
EXTENDS Authority, OperationStateMachine

CONSTANTS
    Outcomes,    \* outcome texts a caller may record
    Completed,   \* the text "COMPLETED" recorded by confirm_completion
    NoOutcome    \* the empty text of an operation without an outcome

ASSUME OutcomesAssumption == Completed \in Outcomes /\ NoOutcome \notin Outcomes

Runtime ==
    [state             : OperationStates,
     authority         : AuthorityEnvelope,
     terminal          : AuthorityEnvelope,
     terminal_recorded : BOOLEAN,
     attempt_count     : Nat,
     terminal_outcome  : Outcomes \cup {NoOutcome}]

NewRuntime(initial) ==
    [state             |-> "CREATED",
     authority         |-> initial,
     terminal          |-> UnsetEnvelope,
     terminal_recorded |-> FALSE,
     attempt_count     |-> 0,
     terminal_outcome  |-> NoOutcome]

-----------------------------------------------------------------------------
(* Dispatch binds the attempt before it looks at the state: an operation   *)
(* that is terminal without a recorded outcome gets the new authority too, *)
(* although the call is refused.                                           *)

\* Mutant: dispatch restarts an operation whatever its state.
dispatch_restarting(r, attempt) ==
    [r EXCEPT !.authority = attempt,
              !.state = "DISPATCHED",
              !.attempt_count = @ + 1]

dispatch(r, attempt) ==
    IF r.terminal_recorded THEN r
    ELSE IF is_terminal(r.state) THEN [r EXCEPT !.authority = attempt]
    ELSE [r EXCEPT !.authority = attempt,
                   !.state = "DISPATCHED",
                   !.attempt_count = @ + 1]

-----------------------------------------------------------------------------
(* The reports of an attempt.                                              *)

\* The guard shared by every method fenced as a failure report.
MayMove(r, attempt, to) ==
    /\ ~r.terminal_recorded
    /\ fence_failure(attempt, r.authority)
    /\ is_allowed(r.state, to)

MoveTo(r, to) == [r EXCEPT !.state = to]

accepts_run(r, attempt) == MayMove(r, attempt, "RUNNING")

run(r, attempt) ==
    IF accepts_run(r, attempt) THEN MoveTo(r, "RUNNING") ELSE r

CompletionState(partial) ==
    IF partial THEN "PARTIALLY_SUCCEEDED" ELSE "COMPLETION_REPORTED"

accepts_report_completion(r, attempt, partial) ==
    /\ ~r.terminal_recorded
    /\ fence_completion(attempt, r.authority, r.terminal)
    /\ r.state \notin {"COMPLETION_REPORTED", "COMPLETION_CONFIRMED"}
    /\ is_allowed(r.state, CompletionState(partial))

report_completion(r, attempt, partial) ==
    IF accepts_report_completion(r, attempt, partial)
    THEN MoveTo(r, CompletionState(partial))
    ELSE r

\* Mutant: confirmation is not fenced.
accepts_confirm_completion_unfenced(r, attempt) ==
    /\ ~r.terminal_recorded
    /\ is_allowed(r.state, "COMPLETION_CONFIRMED")

accepts_confirm_completion(r, attempt) ==
    /\ ~r.terminal_recorded
    /\ fence_completion(attempt, r.authority, r.terminal)
    /\ is_allowed(r.state, "COMPLETION_CONFIRMED")

\* Mutant: the outcome and the authority are stored in each other's place.
Conclude_swapped(r, to, attempt, outcome) ==
    [r EXCEPT !.state = to,
              !.terminal_recorded = TRUE,
              !.terminal = outcome,
              !.terminal_outcome = attempt]

\* A terminal outcome, recorded together with the state that carries it.
Conclude(r, to, attempt, outcome) ==
    [r EXCEPT !.state = to,
              !.terminal_recorded = TRUE,
              !.terminal = attempt,
              !.terminal_outcome = outcome]


confirm_completion(r, attempt) ==
    IF accepts_confirm_completion(r, attempt)
    THEN Conclude(r, "COMPLETION_CONFIRMED", attempt, Completed)
    ELSE r

FailureState(ambiguous) ==
    IF ambiguous THEN "FAILED_AMBIGUOUS" ELSE "FAILED_KNOWN"

accepts_report_failure(r, attempt, ambiguous) ==
    MayMove(r, attempt, FailureState(ambiguous))

report_failure(r, attempt, ambiguous) ==
    IF accepts_report_failure(r, attempt, ambiguous)
    THEN MoveTo(r, FailureState(ambiguous))
    ELSE r

transition(r, to, attempt) ==
    IF MayMove(r, attempt, to) THEN MoveTo(r, to) ELSE r

-----------------------------------------------------------------------------
(* record_terminal tries the terminal states in a fixed order and takes    *)
(* the first one the table allows, whatever the outcome text says.         *)

TerminalPreference ==
    <<"TERMINAL_FAILED", "CANCELLED", "RECOVERED", "ABANDONED",
      "COMPLETION_CONFIRMED">>

FirstAllowed(from, to) ==
    \E i \in DOMAIN TerminalPreference :
        /\ TerminalPreference[i] = to
        /\ is_allowed(from, to)
        /\ \A j \in 1..(i - 1) : ~is_allowed(from, TerminalPreference[j])

\* Mutant: a second outcome replaces the one already recorded.
accepts_record_terminal_again(r, attempt, to) ==
    /\ fence_failure(attempt, r.authority)
    /\ \/ FirstAllowed(r.state, to)
       \/ r.terminal_recorded /\ to = r.state

accepts_record_terminal(r, attempt, to) ==
    /\ ~r.terminal_recorded
    /\ fence_failure(attempt, r.authority)
    /\ FirstAllowed(r.state, to)

record_terminal(r, attempt, outcome, to) ==
    IF accepts_record_terminal(r, attempt, to)
    THEN Conclude(r, to, attempt, outcome)
    ELSE r

-----------------------------------------------------------------------------
(* save() of the store reads a runtime without the registry's mutex, while *)
(* the methods above change it.                                            *)

\* What it may read when the runtime had the values R meanwhile: each field is
\* read by itself, the fields of an envelope too.
TornEnvelopes(E) ==
    [coordinator_epoch    : {e.coordinator_epoch : e \in E},
     worker_boot          : {e.worker_boot : e \in E},
     attempt              : {e.attempt : e \in E},
     attempt_generation   : {e.attempt_generation : e \in E},
     dispatch             : {e.dispatch : e \in E},
     operation_generation : {e.operation_generation : e \in E},
     failure_generation   : {e.failure_generation : e \in E},
     recovery_generation  : {e.recovery_generation : e \in E}]

TornRuntimes(R) ==
    [state             : {r.state : r \in R},
     authority         : TornEnvelopes({r.authority : r \in R}),
     terminal          : TornEnvelopes({r.terminal : r \in R}),
     terminal_recorded : {r.terminal_recorded : r \in R},
     attempt_count     : {r.attempt_count : r \in R},
     terminal_outcome  : {r.terminal_outcome : r \in R}]

=============================================================================
