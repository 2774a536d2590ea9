----------------------- MODULE OperationRegistryProofs -----------------------
(***************************************************************************)
(* Proofs about OperationRegistry for any sets of operations, envelopes    *)
(* and outcomes and any bound on the number of attempts.                   *)
(*                                                                         *)
(* The argument: every method has one of three effects on a runtime        *)
(* (Effect in OperationRuntimeProofs) - none, binding a new attempt, or a  *)
(* move that the holder's fence let through; the invariants follow from    *)
(* the effect alone.                                                       *)
(***************************************************************************)
EXTENDS OperationRegistry, OperationRuntimeProofs

-----------------------------------------------------------------------------
(* Steps of the registry.                                                  *)

\* A step that is a call on a known operation, with a legitimate effect.
CallStep(op, a) ==
    \E rt : Effect(ops[op], a, rt) /\ Apply(op, a, rt)

\* Every step creates an operation or calls a method on a known one.
LEMMA NextIsCreateOrCall ==
    ASSUME TypeOK, Next
    PROVE  \E op \in Operations, a \in AuthorityEnvelope :
               Create(op, a) \/ CallStep(op, a)
<1>1. PICK op \in Operations, a \in Envelopes :
        \/ Create(op, a)
        \/ Dispatch(op, a)
        \/ Run(op, a)
        \/ \E partial \in BOOLEAN : ReportCompletion(op, a, partial)
        \/ ConfirmCompletion(op, a)
        \/ \E ambiguous \in BOOLEAN : ReportFailure(op, a, ambiguous)
        \/ \E to \in OperationStates : Transition(op, to, a)
        \/ \E outcome \in Outcomes, to \in OperationStates :
               RecordTerminal(op, a, outcome, to)
  BY DEF Next
<1>2. a \in AuthorityEnvelope
  BY EnvelopesAssumption
<1>3. op \in DOMAIN ops => ops[op] \in Runtime
  BY DEF TypeOK
<1>4. CASE Create(op, a)
  BY <1>2, <1>4
<1>5. CASE Dispatch(op, a)
  BY <1>2, <1>3, <1>5, EffectOfDispatch DEF Dispatch, CallStep
<1>6. CASE Run(op, a)
  <2>1. op \in DOMAIN ops /\ Apply(op, a, run(ops[op], a))
    BY <1>6 DEF Run, Apply
  <2>2. Effect(ops[op], a, run(ops[op], a))
    BY <1>2, <1>3, <2>1, MoveOrNothing DEF run, accepts_run
  <2> QED BY <1>2, <2>1, <2>2 DEF CallStep
<1>7. CASE \E partial \in BOOLEAN : ReportCompletion(op, a, partial)
  <2>1. PICK partial \in BOOLEAN : ReportCompletion(op, a, partial)
    BY <1>7
  <2>2. op \in DOMAIN ops /\ Apply(op, a, report_completion(ops[op], a, partial))
    BY <2>1 DEF ReportCompletion, Apply
  <2>3. Effect(ops[op], a, report_completion(ops[op], a, partial))
    BY <1>2, <1>3, <2>2, EffectOfReportCompletion
  <2> QED BY <1>2, <2>2, <2>3 DEF CallStep
<1>8. CASE ConfirmCompletion(op, a)
  <2>1. op \in DOMAIN ops /\ Apply(op, a, confirm_completion(ops[op], a))
    BY <1>8 DEF ConfirmCompletion, Apply
  <2>2. Effect(ops[op], a, confirm_completion(ops[op], a))
    BY <1>2, <1>3, <2>1, EffectOfConfirmCompletion
  <2> QED BY <1>2, <2>1, <2>2 DEF CallStep
<1>9. CASE \E ambiguous \in BOOLEAN : ReportFailure(op, a, ambiguous)
  <2>1. PICK ambiguous \in BOOLEAN : ReportFailure(op, a, ambiguous)
    BY <1>9
  <2>2. op \in DOMAIN ops /\ Apply(op, a, report_failure(ops[op], a, ambiguous))
    BY <2>1 DEF ReportFailure, Apply
  <2>3. Effect(ops[op], a, report_failure(ops[op], a, ambiguous))
    BY <1>2, <1>3, <2>2, MoveOrNothing DEF report_failure, accepts_report_failure
  <2> QED BY <1>2, <2>2, <2>3 DEF CallStep
<1>10. CASE \E to \in OperationStates : Transition(op, to, a)
  <2>1. PICK to \in OperationStates : Transition(op, to, a)
    BY <1>10
  <2>2. op \in DOMAIN ops /\ Apply(op, a, transition(ops[op], to, a))
    BY <2>1 DEF Transition, Apply
  <2>3. Effect(ops[op], a, transition(ops[op], to, a))
    BY <1>2, <1>3, <2>2, MoveOrNothing DEF transition
  <2> QED BY <1>2, <2>2, <2>3 DEF CallStep
<1>11. CASE \E outcome \in Outcomes, to \in OperationStates :
               RecordTerminal(op, a, outcome, to)
  <2>1. PICK outcome \in Outcomes, to \in OperationStates :
            RecordTerminal(op, a, outcome, to)
    BY <1>11
  <2>2. /\ op \in DOMAIN ops
        /\ Apply(op, a, record_terminal(ops[op], a, outcome, to))
    BY <2>1 DEF RecordTerminal, Apply
  <2>3. Effect(ops[op], a, record_terminal(ops[op], a, outcome, to))
    BY <1>2, <1>3, <2>2, EffectOfRecordTerminal
  <2> QED BY <1>2, <2>2, <2>3 DEF CallStep
<1> QED BY <1>1, <1>4, <1>5, <1>6, <1>7, <1>8, <1>9, <1>10, <1>11

-----------------------------------------------------------------------------
(* Type correctness.                                                       *)

\* Every call leaves well-formed runtimes and a history for each of them.
LEMMA TypeStep ==
    ASSUME TypeOK, [Next]_vars
    PROVE  TypeOK'
<1>1. CASE Next
  <2>1. PICK op \in Operations, a \in AuthorityEnvelope :
            Create(op, a) \/ CallStep(op, a)
    BY <1>1, NextIsCreateOrCall
  <2>2. CASE Create(op, a)
    BY <2>2, NewRuntimeType DEF TypeOK, Create
  <2>3. CASE CallStep(op, a)
    BY <2>3 DEF TypeOK, CallStep, Apply, Effect
  <2> QED BY <2>1, <2>2, <2>3
<1>2. CASE UNCHANGED vars
  BY <1>2 DEF TypeOK, vars
<1> QED BY <1>1, <1>2

\* The registry is type correct: every method of OperationRegistry, called with
\* any envelopes in any order, leaves well-formed runtimes.
THEOREM TypeCorrect == Spec => []TypeOK
<1>1. Init => TypeOK
  BY DEF Init, TypeOK
<1>2. TypeOK /\ [Next]_vars => TypeOK'
  BY TypeStep
<1> QED BY <1>1, <1>2, PTL DEF Spec

-----------------------------------------------------------------------------
(* The safety invariants.                                                  *)

\* The strengthening that is inductive: neither invariant can be carried over
\* a call without knowing that the runtime it reads is well formed.
IInv == TypeOK /\ OutcomeHeldByAuthority /\ StateMovedByHolder

\* A call preserves both invariants.  OutcomeHeldByAuthority can only be
\* disturbed by a move that records an outcome, StateMovedByHolder by a
\* binding or a move.
LEMMA CallPreserves ==
    ASSUME IInv, NEW op \in Operations, NEW a \in AuthorityEnvelope,
           CallStep(op, a)
    PROVE  OutcomeHeldByAuthority' /\ StateMovedByHolder'
<1> DEFINE r == ops[op]
<1>1. PICK rt : Effect(r, a, rt) /\ Apply(op, a, rt)
  BY DEF CallStep
<1>2. /\ op \in DOMAIN ops /\ r \in Runtime /\ rt \in Runtime
      /\ DOMAIN ops' = DOMAIN ops
      /\ ops'[op] = rt
      /\ \A o \in DOMAIN ops : o # op =>
             ops'[o] = ops[o] /\ moved_by'[o] = moved_by[o]
      /\ moved_by'[op] = IF \/ rt.state # r.state
                            \/ rt.attempt_count # r.attempt_count
                         THEN a ELSE moved_by[op]
  BY <1>1 DEF IInv, TypeOK, Apply, Effect
<1>3. OutcomeHeldByAuthority'
  <2>1. rt.terminal_recorded =>
            /\ is_terminal(rt.state)
            /\ ~is_unset(rt.terminal)
            /\ ~Mismatch(rt.terminal.attempt, rt.authority.attempt)
            /\ ~Regressed(rt.terminal.coordinator_epoch,
                          rt.authority.coordinator_epoch)
            /\ ~Regressed(rt.terminal.attempt_generation,
                          rt.authority.attempt_generation)
    <3>1. CASE rt = r
      BY <1>2, <3>1 DEF IInv, OutcomeHeldByAuthority
    <3>2. CASE Binds(r, a, rt)
      BY <3>2 DEF Binds
    <3>3. CASE Moves(r, a, rt)
      BY <3>3 DEF Moves
    <3> QED BY <1>1, <3>1, <3>2, <3>3 DEF Effect
  <2> QED BY <1>2, <2>1 DEF IInv, OutcomeHeldByAuthority
<1>4. StateMovedByHolder'
  <2>1. ~is_terminal(rt.state) =>
            ~Mismatch(moved_by'[op].attempt, rt.authority.attempt)
    <3>1. CASE rt = r
      BY <1>2, <3>1 DEF IInv, StateMovedByHolder
    <3>2. CASE Binds(r, a, rt)
      BY <1>2, <3>2 DEF Binds, Mismatch
    <3>3. CASE Moves(r, a, rt)
      <4>1. is_terminal(r.state) => is_terminal(rt.state)
        BY <1>1 DEF Effect
      <4> QED BY <1>2, <3>3, <4>1 DEF Moves, IInv, StateMovedByHolder
    <3> QED BY <1>1, <3>1, <3>2, <3>3 DEF Effect
  <2> QED BY <1>2, <2>1 DEF IInv, StateMovedByHolder
<1> QED BY <1>3, <1>4

\* A new operation has no outcome and is held by the envelope that created it.
LEMMA CreatePreserves ==
    ASSUME IInv, NEW op \in Operations, NEW a \in AuthorityEnvelope,
           Create(op, a)
    PROVE  OutcomeHeldByAuthority' /\ StateMovedByHolder'
<1>1. /\ DOMAIN ops' = DOMAIN ops \cup {op}
      /\ ops'[op] = NewRuntime(a)
      /\ moved_by'[op] = a
      /\ \A o \in DOMAIN ops : ops'[o] = ops[o] /\ moved_by'[o] = moved_by[o]
  BY DEF Create
<1>2. OutcomeHeldByAuthority'
  BY <1>1 DEF IInv, OutcomeHeldByAuthority, NewRuntime
<1>3. StateMovedByHolder'
  BY <1>1 DEF IInv, StateMovedByHolder, NewRuntime, Mismatch
<1> QED BY <1>2, <1>3

\* IInv is inductive.
LEMMA InvariantStep ==
    ASSUME IInv, [Next]_vars
    PROVE  IInv'
<1>1. TypeOK'
  BY TypeStep DEF IInv
<1>2. CASE Next
  <2>1. PICK op \in Operations, a \in AuthorityEnvelope :
            Create(op, a) \/ CallStep(op, a)
    BY <1>2, NextIsCreateOrCall DEF IInv
  <2> QED BY <1>1, <2>1, CreatePreserves, CallPreserves DEF IInv
<1>3. CASE UNCHANGED vars
  BY <1>1, <1>3 DEF IInv, OutcomeHeldByAuthority, StateMovedByHolder, vars
<1> QED BY <1>2, <1>3

\* The inductive invariant holds in every reachable state.
LEMMA Invariance == Spec => []IInv
<1>1. Init => IInv
  BY DEF Init, IInv, TypeOK, OutcomeHeldByAuthority, StateMovedByHolder
<1>2. IInv /\ [Next]_vars => IInv'
  BY InvariantStep
<1> QED BY <1>1, <1>2, PTL DEF Spec

\* A recorded outcome belongs to the attempt that holds the authority of its
\* operation, whichever of confirm_completion and record_terminal recorded it.
THEOREM OutcomeIsHeld == Spec => []OutcomeHeldByAuthority
<1>1. IInv => OutcomeHeldByAuthority
  BY DEF IInv
<1> QED BY <1>1, Invariance, PTL

\* Once dispatch has bound a new attempt, no report of a superseded attempt
\* moves the operation.
THEOREM HolderMoves == Spec => []StateMovedByHolder
<1>1. IInv => StateMovedByHolder
  BY DEF IInv
<1> QED BY <1>1, Invariance, PTL

-----------------------------------------------------------------------------
(* What a step may never do.                                               *)

\* No method takes an operation out of a terminal state.
THEOREM TerminalIsFinal == Spec => TerminalStatesFinal
<1> DEFINE Final == \A op \in DOMAIN ops :
                        is_terminal(ops[op].state) =>
                            /\ op \in DOMAIN ops'
                            /\ ops'[op].state = ops[op].state
<1>1. TypeOK /\ Next => Final
  <2> SUFFICES ASSUME TypeOK, Next PROVE Final
    OBVIOUS
  <2>1. PICK op \in Operations, a \in AuthorityEnvelope :
            Create(op, a) \/ CallStep(op, a)
    BY NextIsCreateOrCall
  <2>2. CASE Create(op, a)
    BY <2>2 DEF Create
  <2>3. CASE CallStep(op, a)
    BY <2>3 DEF CallStep, Apply, Effect, TypeOK
  <2> QED BY <2>1, <2>2, <2>3
<1>2. TypeOK /\ [Next]_vars => [Final]_vars
  BY <1>1
<1> QED BY <1>2, TypeCorrect, PTL DEF Spec, TerminalStatesFinal

-----------------------------------------------------------------------------
(* Refinement.                                                             *)

\* The registry implements TerminalOutcome: each operation is decided at most
\* once and its decision never changes.
THEOREM RegistryImplementsOutcome == Spec => OutcomeSpec
<1> DEFINE dec == [op \in Operations |->
                      IF Decided(op) THEN DecisionOf(ops[op]) ELSE Undecided]
<1>1. Init => Abstract!Init
  BY DEF Init, Abstract!Init, Decided
<1>2. TypeOK /\ Next => [Abstract!Next]_dec
  <2> SUFFICES ASSUME TypeOK, Next PROVE Abstract!Next \/ dec' = dec
    OBVIOUS
  <2>1. PICK op \in Operations, a \in AuthorityEnvelope :
            Create(op, a) \/ CallStep(op, a)
    BY NextIsCreateOrCall
  <2>2. CASE Create(op, a)
    BY <2>2 DEF Create, Decided, NewRuntime
  <2>3. CASE CallStep(op, a)
    <3>1. PICK rt : Effect(ops[op], a, rt) /\ Apply(op, a, rt)
      BY <2>3 DEF CallStep
    <3>2. /\ op \in DOMAIN ops /\ rt \in Runtime
          /\ DOMAIN ops' = DOMAIN ops
          /\ ops'[op] = rt
          /\ \A o \in DOMAIN ops : o # op => ops'[o] = ops[o]
      BY <3>1 DEF TypeOK, Apply, Effect
    <3>3. \A o \in Operations : o # op => dec'[o] = dec[o]
      BY <3>2 DEF Decided
    <3>4. CASE ops[op].terminal_recorded \/ ~rt.terminal_recorded
      <4>1. rt = ops[op] \/ (~ops[op].terminal_recorded /\ ~rt.terminal_recorded)
        BY <3>1, <3>4 DEF Effect, Binds, Moves
      <4>2. dec'[op] = dec[op]
        BY <3>2, <4>1 DEF Decided
      <4> QED BY <3>3, <4>2
    <3>5. CASE ~ops[op].terminal_recorded /\ rt.terminal_recorded
      <4>1. Moves(ops[op], a, rt)
        BY <3>1, <3>5 DEF Effect, Binds
      <4>2. dec[op] = Undecided /\ dec'[op] = DecisionOf(rt)
        BY <3>2, <3>5 DEF Decided
      <4>3. DecisionOf(rt) \in AllDecisions
        BY <3>2, <3>5, <4>1 DEF Moves, DecisionOf, AllDecisions, Runtime
      <4>4. dec' = [dec EXCEPT ![op] = dec'[op]]
        BY <3>3
      <4> QED BY <4>2, <4>3, <4>4 DEF Abstract!Next, Abstract!Decide
    <3> QED BY <3>4, <3>5
  <2> QED BY <2>1, <2>2, <2>3
<1>3. UNCHANGED vars => dec' = dec
  BY DEF vars, Decided
<1>4. TypeOK /\ [Next]_vars => [Abstract!Next]_dec
  BY <1>2, <1>3
<1> QED BY <1>1, <1>4, TypeCorrect, PTL DEF Spec, OutcomeSpec, Abstract!Spec

=============================================================================
