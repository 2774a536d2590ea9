------------------------- MODULE OperationRegistry -------------------------
(***************************************************************************)
(* The operation registry: the runtime record of every known operation,    *)
(* and the calls that reach it from any thread, with any envelope, in any  *)
(* order (include/failure_fabric/operation_registry.hpp,                   *)
(* src/operation_registry.cpp).  A call is one action, since each method   *)
(* holds the registry's mutex from its first line to its last.             *)
(***************************************************************************)
EXTENDS OperationRuntime

CONSTANTS
    Operations,     \* operation identifiers
    Envelopes,      \* envelopes the callers present
    MaxDispatches,  \* bound on the number of attempts of an operation
    Undecided       \* stands for the decision of an undecided operation

ASSUME EnvelopesAssumption == Envelopes \subseteq AuthorityEnvelope
ASSUME MaxDispatchesAssumption == MaxDispatches \in Nat

VARIABLES
    ops,      \* OperationRegistry::ops_, a map from operations to runtimes
    moved_by  \* history: the envelope of the call that set the current state

vars == <<ops, moved_by>>

Init == ops = <<>> /\ moved_by = <<>>

-----------------------------------------------------------------------------
(* A call on a known operation leaves the runtime rt.  The history         *)
(* variable follows the calls that move the state or start an attempt.     *)
Apply(op, attempt, rt) ==
    /\ op \in DOMAIN ops
    /\ ops' = [ops EXCEPT ![op] = rt]
    /\ moved_by' = [moved_by EXCEPT ![op] =
                        IF \/ rt.state # ops[op].state
                           \/ rt.attempt_count # ops[op].attempt_count
                        THEN attempt ELSE @]

Create(op, initial) ==
    /\ op \notin DOMAIN ops
    /\ ops' = [o \in DOMAIN ops \cup {op} |->
                  IF o = op THEN NewRuntime(initial) ELSE ops[o]]
    /\ moved_by' = [o \in DOMAIN ops \cup {op} |->
                       IF o = op THEN initial ELSE moved_by[o]]

Dispatch(op, attempt) ==
    /\ op \in DOMAIN ops
    /\ ops[op].attempt_count < MaxDispatches
    /\ Apply(op, attempt, dispatch(ops[op], attempt))

Run(op, attempt) == Apply(op, attempt, run(ops[op], attempt))

ReportCompletion(op, attempt, partial) ==
    Apply(op, attempt, report_completion(ops[op], attempt, partial))

ConfirmCompletion(op, attempt) ==
    Apply(op, attempt, confirm_completion(ops[op], attempt))

ReportFailure(op, attempt, ambiguous) ==
    Apply(op, attempt, report_failure(ops[op], attempt, ambiguous))

Transition(op, to, attempt) ==
    Apply(op, attempt, transition(ops[op], to, attempt))

RecordTerminal(op, attempt, outcome, to) ==
    Apply(op, attempt, record_terminal(ops[op], attempt, outcome, to))

Next ==
    \E op \in Operations, a \in Envelopes :
        \/ Create(op, a)
        \/ Dispatch(op, a)
        \/ Run(op, a)
        \/ \E partial \in BOOLEAN : ReportCompletion(op, a, partial)
        \/ ConfirmCompletion(op, a)
        \/ \E ambiguous \in BOOLEAN : ReportFailure(op, a, ambiguous)
        \/ \E to \in OperationStates : Transition(op, to, a)
        \/ \E outcome \in Outcomes, to \in OperationStates :
               RecordTerminal(op, a, outcome, to)

Spec == Init /\ [][Next]_vars

-----------------------------------------------------------------------------
(* Properties.                                                             *)

\* Every runtime the registry's methods leave behind is well formed, and the
\* history covers the same operations.
TypeOK ==
    /\ DOMAIN ops \subseteq Operations
    /\ ops \in [DOMAIN ops -> Runtime]
    /\ moved_by \in [DOMAIN ops -> AuthorityEnvelope]

\* confirm_completion and record_terminal record an outcome only for the
\* attempt that dispatch bound last: the recorded envelope carries the bound
\* attempt, at no older epoch or generation, and the operation rests in a
\* terminal state.  A call fenced against an authority that was replaced
\* before the outcome was written would break it.
OutcomeHeldByAuthority ==
    \A op \in DOMAIN ops :
        LET r == ops[op] IN
        r.terminal_recorded =>
            /\ is_terminal(r.state)
            /\ ~is_unset(r.terminal)
            /\ ~Mismatch(r.terminal.attempt, r.authority.attempt)
            /\ ~Regressed(r.terminal.coordinator_epoch,
                          r.authority.coordinator_epoch)
            /\ ~Regressed(r.terminal.attempt_generation,
                          r.authority.attempt_generation)

\* No matter how creations, dispatches and reports interleave, the state of an
\* operation that can still move was set by a call of the attempt that holds
\* its authority: once dispatch has bound a new attempt, nothing a superseded
\* attempt says moves the operation.
StateMovedByHolder ==
    \A op \in DOMAIN ops :
        LET r == ops[op] IN
        ~is_terminal(r.state) =>
            ~Mismatch(moved_by[op].attempt, r.authority.attempt)

\* An operation never leaves a terminal state, whether or not an outcome was
\* recorded with it, and is never forgotten: no dispatch, late report or
\* transition revives it.
TerminalStatesFinal ==
    [][\A op \in DOMAIN ops :
          is_terminal(ops[op].state) =>
              /\ op \in DOMAIN ops'
              /\ ops'[op].state = ops[op].state]_vars

\* The decision a runtime records: the terminal state, the outcome text and
\* the authority.
DecisionOf(r) == [state     |-> r.state,
                  outcome   |-> r.terminal_outcome,
                  authority |-> r.terminal]

AllDecisions ==
    [state     : {s \in OperationStates : is_terminal(s)},
     outcome   : Outcomes,
     authority : AuthorityEnvelope]

Decided(op) == op \in DOMAIN ops /\ ops[op].terminal_recorded

Abstract ==
    INSTANCE TerminalOutcome WITH
        Decisions <- AllDecisions,
        decision  <- [op \in Operations |->
                         IF Decided(op) THEN DecisionOf(ops[op])
                         ELSE Undecided]

\* The registry implements TerminalOutcome: each operation is decided at most
\* once, with a terminal state, and neither the state nor the outcome text nor
\* the recorded authority changes afterwards ("exactly-once terminality").
OutcomeSpec == Abstract!Spec

=============================================================================
