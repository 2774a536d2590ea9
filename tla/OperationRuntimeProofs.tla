----------------------- MODULE OperationRuntimeProofs -----------------------
(***************************************************************************)
(* What each method of OperationRegistry does to a runtime, for every      *)
(* runtime and every envelope.  The lemmas follow from the fences and the  *)
(* transition table; OperationRegistryProofs and CoordinatorProofs cite    *)
(* them wherever they call the registry.                                   *)
(***************************************************************************)
EXTENDS OperationRuntime, TLAPS

-----------------------------------------------------------------------------
(* The transition table.                                                   *)

\* Whatever the table allows is an operation state.
LEMMA AllowedType ==
    ASSUME NEW from \in OperationStates, NEW to, is_allowed(from, to)
    PROVE  to \in OperationStates
BY DEF is_allowed, Successors, OperationStates, Failures, Repairs, GivenUp

\* The table has no row for a terminal state.
LEMMA TerminalHasNoSuccessor ==
    ASSUME NEW from, NEW to, is_terminal(from)
    PROVE  ~is_allowed(from, to)
BY DEF is_allowed, Successors, is_terminal

\* record_terminal only ever selects a terminal state that the table allows.
LEMMA FirstAllowedTerminal ==
    ASSUME NEW from, NEW to, FirstAllowed(from, to)
    PROVE  is_terminal(to) /\ is_allowed(from, to)
<1>1. PICK i \in DOMAIN TerminalPreference :
          TerminalPreference[i] = to /\ is_allowed(from, to)
  BY DEF FirstAllowed
<1>2. i \in 1..5
  BY DEF TerminalPreference
<1>3. is_terminal(to)
  BY <1>1, <1>2 DEF TerminalPreference, is_terminal
<1> QED BY <1>1, <1>3

\* The unset envelope is an envelope.
LEMMA UnsetEnvelopeType == UnsetEnvelope \in AuthorityEnvelope
BY DEF UnsetEnvelope, AuthorityEnvelope

-----------------------------------------------------------------------------
(* The effect of a call with envelope a that turns runtime r into rt.      *)

\* dispatch: the attempt is bound; a terminal operation does not start again.
Binds(r, a, rt) ==
    /\ ~r.terminal_recorded /\ ~rt.terminal_recorded
    /\ rt.authority = a
    /\ \/ is_terminal(rt.state)
       \/ rt.attempt_count # r.attempt_count

\* A report the fence accepted: it comes from the attempt that holds the
\* authority, and an outcome it records is its own.
Moves(r, a, rt) ==
    /\ ~r.terminal_recorded
    /\ ~is_unset(a)
    /\ rt.authority = r.authority
    /\ ~Mismatch(a.attempt, r.authority.attempt)
    /\ ~Regressed(a.coordinator_epoch, r.authority.coordinator_epoch)
    /\ ~Regressed(a.attempt_generation, r.authority.attempt_generation)
    /\ rt.terminal_recorded =>
           /\ is_terminal(rt.state)
           /\ rt.terminal = a
           /\ rt.terminal_outcome \in Outcomes

Effect(r, a, rt) ==
    /\ rt \in Runtime
    /\ is_terminal(r.state) => rt.state = r.state
    /\ rt = r \/ Binds(r, a, rt) \/ Moves(r, a, rt)

\* A call that changes nothing has the trivial effect.
LEMMA NoEffect ==
    ASSUME NEW r \in Runtime, NEW a
    PROVE  Effect(r, a, r)
BY DEF Effect

\* OperationRegistry::dispatch binds the attempt unless an outcome is recorded.
LEMMA EffectOfDispatch ==
    ASSUME NEW r \in Runtime, NEW a \in AuthorityEnvelope
    PROVE  Effect(r, a, dispatch(r, a))
<1>1. CASE r.terminal_recorded
  BY <1>1, NoEffect DEF dispatch
<1>2. CASE ~r.terminal_recorded /\ is_terminal(r.state)
  <2> DEFINE rt == [r EXCEPT !.authority = a]
  <2>1. rt \in Runtime
    BY DEF Runtime
  <2>2. Binds(r, a, rt) /\ rt.state = r.state
    BY <1>2 DEF Runtime, Binds
  <2>3. dispatch(r, a) = rt
    BY <1>2 DEF dispatch
  <2> QED BY <2>1, <2>2, <2>3 DEF Effect
<1>3. CASE ~r.terminal_recorded /\ ~is_terminal(r.state)
  <2> DEFINE rt == [r EXCEPT !.authority = a,
                             !.state = "DISPATCHED",
                             !.attempt_count = @ + 1]
  <2>0. "DISPATCHED" \in OperationStates /\ r.attempt_count + 1 \in Nat
    BY DEF Runtime, OperationStates
  <2>1. rt \in Runtime
    BY <2>0 DEF Runtime
  <2>2. Binds(r, a, rt)
    BY <1>3 DEF Runtime, Binds
  <2>3. dispatch(r, a) = rt
    BY <1>3 DEF dispatch
  <2> QED BY <1>3, <2>1, <2>2, <2>3 DEF Effect
<1> QED BY <1>1, <1>2, <1>3

\* A move fenced as a failure report (run, report_failure, transition).
LEMMA EffectOfMove ==
    ASSUME NEW r \in Runtime, NEW a \in AuthorityEnvelope, NEW to,
           MayMove(r, a, to)
    PROVE  Effect(r, a, MoveTo(r, to))
<1>1. to \in OperationStates
  BY AllowedType DEF MayMove, Runtime
<1>2. ~is_terminal(r.state)
  BY TerminalHasNoSuccessor DEF MayMove
<1>3. Moves(r, a, MoveTo(r, to))
  BY DEF Moves, MayMove, MoveTo, fence_failure, Runtime
<1>4. MoveTo(r, to) \in Runtime
  BY <1>1 DEF MoveTo, Runtime
<1> QED BY <1>2, <1>3, <1>4 DEF Effect

\* OperationRegistry::report_completion moves the state of the holder.
LEMMA EffectOfReportCompletion ==
    ASSUME NEW r \in Runtime, NEW a \in AuthorityEnvelope, NEW partial \in BOOLEAN
    PROVE  Effect(r, a, report_completion(r, a, partial))
<1> DEFINE to == CompletionState(partial)
<1>1. CASE accepts_report_completion(r, a, partial)
  <2>1. to \in OperationStates
    BY DEF CompletionState, OperationStates
  <2>2. ~is_terminal(r.state)
    BY <1>1, TerminalHasNoSuccessor DEF accepts_report_completion
  <2>3. Moves(r, a, MoveTo(r, to))
    BY <1>1 DEF Moves, accepts_report_completion, MoveTo, fence_completion, Runtime
  <2>4. MoveTo(r, to) \in Runtime
    BY <2>1 DEF MoveTo, Runtime
  <2> QED BY <1>1, <2>2, <2>3, <2>4 DEF Effect, report_completion
<1>2. CASE ~accepts_report_completion(r, a, partial)
  BY <1>2, NoEffect DEF report_completion
<1> QED BY <1>1, <1>2

\* Recording an outcome from a state the table lets end in state to.
LEMMA EffectOfConclude ==
    ASSUME NEW r \in Runtime, NEW a \in AuthorityEnvelope, NEW to,
           NEW outcome \in Outcomes,
           is_terminal(to), is_allowed(r.state, to),
           ~r.terminal_recorded,
           fence_failure(a, r.authority) \/ fence_completion(a, r.authority, r.terminal)
    PROVE  Effect(r, a, Conclude(r, to, a, outcome))
<1>1. to \in OperationStates
  BY AllowedType DEF Runtime
<1>2. ~is_terminal(r.state)
  BY TerminalHasNoSuccessor
<1>3. Moves(r, a, Conclude(r, to, a, outcome))
  BY DEF Moves, Conclude, fence_failure, fence_completion, Runtime
<1>4. Conclude(r, to, a, outcome) \in Runtime
  BY <1>1 DEF Conclude, Runtime
<1> QED BY <1>2, <1>3, <1>4 DEF Effect

\* OperationRegistry::confirm_completion concludes for the holder.
LEMMA EffectOfConfirmCompletion ==
    ASSUME NEW r \in Runtime, NEW a \in AuthorityEnvelope
    PROVE  Effect(r, a, confirm_completion(r, a))
<1>1. CASE accepts_confirm_completion(r, a)
  <2>1. is_terminal("COMPLETION_CONFIRMED")
    BY DEF is_terminal
  <2>2. Effect(r, a, Conclude(r, "COMPLETION_CONFIRMED", a, Completed))
    BY <1>1, <2>1, EffectOfConclude, OutcomesAssumption
       DEF accepts_confirm_completion
  <2> QED BY <1>1, <2>2 DEF confirm_completion
<1>2. CASE ~accepts_confirm_completion(r, a)
  BY <1>2, NoEffect DEF confirm_completion
<1> QED BY <1>1, <1>2

\* OperationRegistry::record_terminal concludes for the holder.
LEMMA EffectOfRecordTerminal ==
    ASSUME NEW r \in Runtime, NEW a \in AuthorityEnvelope,
           NEW outcome \in Outcomes, NEW to
    PROVE  Effect(r, a, record_terminal(r, a, outcome, to))
<1>1. CASE accepts_record_terminal(r, a, to)
  <2>1. is_terminal(to) /\ is_allowed(r.state, to)
    BY <1>1, FirstAllowedTerminal DEF accepts_record_terminal
  <2>2. Effect(r, a, Conclude(r, to, a, outcome))
    BY <1>1, <2>1, EffectOfConclude DEF accepts_record_terminal
  <2> QED BY <1>1, <2>2 DEF record_terminal
<1>2. CASE ~accepts_record_terminal(r, a, to)
  BY <1>2, NoEffect DEF record_terminal
<1> QED BY <1>1, <1>2

\* run, report_failure and transition are the same guarded move.
LEMMA MoveOrNothing ==
    ASSUME NEW r \in Runtime, NEW a \in AuthorityEnvelope, NEW to
    PROVE  Effect(r, a, IF MayMove(r, a, to) THEN MoveTo(r, to) ELSE r)
<1>1. CASE MayMove(r, a, to)
  BY <1>1, EffectOfMove
<1>2. CASE ~MayMove(r, a, to)
  BY <1>2, NoEffect
<1> QED BY <1>1, <1>2

\* A new operation is well typed.
LEMMA NewRuntimeType ==
    ASSUME NEW a \in AuthorityEnvelope
    PROVE  NewRuntime(a) \in Runtime
BY UnsetEnvelopeType DEF NewRuntime, Runtime, OperationStates

-----------------------------------------------------------------------------
(* What a caller sees of the authority and the outcome.                    *)

\* A report leaves the authority, whatever outcome there is and a terminal
\* state; an operation with an outcome does not change at all.
Keeps(r, rt) ==
    /\ rt \in Runtime
    /\ rt.authority = r.authority /\ rt.terminal = r.terminal
    /\ rt.terminal_recorded = r.terminal_recorded
    /\ is_terminal(r.state) => rt.state = r.state
    /\ r.terminal_recorded => rt = r

\* dispatch binds the attempt unless there is an outcome.
Rebinds(r, a, rt) ==
    /\ rt \in Runtime
    /\ rt.terminal_recorded = r.terminal_recorded /\ rt.terminal = r.terminal
    /\ IF r.terminal_recorded THEN rt = r ELSE rt.authority = a

\* confirm_completion records its outcome under the envelope it was called with,
\* which is one of the attempt that holds the operation.
Confirms(r, a, rt) ==
    /\ rt \in Runtime
    /\ ~r.terminal_recorded /\ rt.terminal_recorded
    /\ rt.authority = r.authority
    /\ r.authority.attempt # NullId => a.attempt = r.authority.attempt
    /\ rt.state = "COMPLETION_CONFIRMED"
    /\ rt.terminal = a /\ rt.terminal_outcome = Completed

\* run, report_failure and transition.
LEMMA MoveKeeps ==
    ASSUME NEW r \in Runtime, NEW a, NEW to
    PROVE  Keeps(r, IF MayMove(r, a, to) THEN MoveTo(r, to) ELSE r)
<1>1. CASE MayMove(r, a, to)
  <2>1. to \in OperationStates /\ ~r.terminal_recorded
    BY <1>1, AllowedType DEF MayMove, Runtime
  <2>2. ~is_terminal(r.state)
    BY <1>1, TerminalHasNoSuccessor DEF MayMove
  <2> QED BY <1>1, <2>1, <2>2 DEF MoveTo, Keeps, Runtime
<1>2. CASE ~MayMove(r, a, to)
  BY <1>2 DEF Keeps
<1> QED BY <1>1, <1>2

\* OperationRegistry::run.
LEMMA RunKeeps ==
    ASSUME NEW r \in Runtime, NEW a
    PROVE  Keeps(r, run(r, a))
BY MoveKeeps DEF run, accepts_run

\* OperationRegistry::report_failure.
LEMMA ReportFailureKeeps ==
    ASSUME NEW r \in Runtime, NEW a, NEW ambiguous
    PROVE  Keeps(r, report_failure(r, a, ambiguous))
BY MoveKeeps DEF report_failure, accepts_report_failure

\* OperationRegistry::report_completion.
LEMMA ReportCompletionKeeps ==
    ASSUME NEW r \in Runtime, NEW a, NEW partial \in BOOLEAN
    PROVE  Keeps(r, report_completion(r, a, partial))
<1>1. CASE accepts_report_completion(r, a, partial)
  <2>1. CompletionState(partial) \in OperationStates /\ ~r.terminal_recorded
    BY <1>1 DEF CompletionState, OperationStates, accepts_report_completion
  <2>2. report_completion(r, a, partial) = MoveTo(r, CompletionState(partial))
    BY <1>1 DEF report_completion
  <2>3. ~is_terminal(r.state)
    BY <1>1, TerminalHasNoSuccessor DEF accepts_report_completion
  <2> QED BY <2>1, <2>2, <2>3 DEF MoveTo, Keeps, Runtime
<1>2. CASE ~accepts_report_completion(r, a, partial)
  BY <1>2 DEF report_completion, Keeps
<1> QED BY <1>1, <1>2

\* OperationRegistry::dispatch.
LEMMA DispatchRebinds ==
    ASSUME NEW r \in Runtime, NEW a \in AuthorityEnvelope
    PROVE  Rebinds(r, a, dispatch(r, a))
<1>1. CASE r.terminal_recorded
  BY <1>1 DEF dispatch, Rebinds
<1>2. CASE ~r.terminal_recorded /\ is_terminal(r.state)
  <2>1. dispatch(r, a) = [r EXCEPT !.authority = a]
    BY <1>2 DEF dispatch
  <2> QED BY <1>2, <2>1 DEF Rebinds, Runtime
<1>3. CASE ~r.terminal_recorded /\ ~is_terminal(r.state)
  <2>1. dispatch(r, a) = [r EXCEPT !.authority = a, !.state = "DISPATCHED",
                                   !.attempt_count = @ + 1]
    BY <1>3 DEF dispatch
  <2>2. "DISPATCHED" \in OperationStates /\ r.attempt_count + 1 \in Nat
    BY DEF Runtime, OperationStates
  <2> QED BY <1>3, <2>1, <2>2 DEF Rebinds, Runtime
<1> QED BY <1>1, <1>2, <1>3

\* OperationRegistry::confirm_completion, accepted or not.
LEMMA ConfirmConfirms ==
    ASSUME NEW r \in Runtime, NEW a \in AuthorityEnvelope
    PROVE  LET rt == confirm_completion(r, a) IN rt = r \/ Confirms(r, a, rt)
<1>1. CASE accepts_confirm_completion(r, a)
  <2>1. confirm_completion(r, a) = Conclude(r, "COMPLETION_CONFIRMED", a, Completed)
    BY <1>1 DEF confirm_completion
  <2>2. ~r.terminal_recorded /\ "COMPLETION_CONFIRMED" \in OperationStates
    BY <1>1 DEF accepts_confirm_completion, OperationStates
  <2>3. r.authority.attempt # NullId => a.attempt = r.authority.attempt
    BY <1>1 DEF accepts_confirm_completion, fence_completion, Mismatch
  <2> QED BY <2>1, <2>2, <2>3, OutcomesAssumption DEF Conclude, Confirms, Runtime
<1>2. CASE ~accepts_confirm_completion(r, a)
  BY <1>2 DEF confirm_completion
<1> QED BY <1>1, <1>2

-----------------------------------------------------------------------------
(* Runtimes read field by field.                                           *)

\* Whatever mixture of runtimes save() reads, it is a runtime; its outcome is
\* recorded only if some value it saw had one; it has the attempt all of them
\* have; and when there is only one value to see, it is that one.
LEMMA TornRuntime ==
    ASSUME NEW R \in SUBSET Runtime, NEW r \in TornRuntimes(R)
    PROVE  /\ r \in Runtime
           /\ \E q \in R : q.terminal_recorded = r.terminal_recorded
           /\ \A q \in R : R = {q} => r = q
<1>1. \A E \in SUBSET AuthorityEnvelope :
          /\ TornEnvelopes(E) \subseteq AuthorityEnvelope
          /\ \A e \in E : E = {e} => TornEnvelopes(E) \subseteq {e}
  <2> TAKE E \in SUBSET AuthorityEnvelope
  <2>1. TornEnvelopes(E) \subseteq AuthorityEnvelope
    BY DEF TornEnvelopes, AuthorityEnvelope
  <2>2. ASSUME NEW e \in E, E = {e}, NEW t \in TornEnvelopes(E)
        PROVE  t = e
    BY <2>2 DEF TornEnvelopes, AuthorityEnvelope
  <2> QED BY <2>1, <2>2
<1>2. /\ {q.authority : q \in R} \in SUBSET AuthorityEnvelope
      /\ {q.terminal : q \in R} \in SUBSET AuthorityEnvelope
  BY DEF Runtime
<1>3. r \in Runtime
  BY <1>1, <1>2 DEF TornRuntimes, Runtime
<1>4. ASSUME NEW q \in R, R = {q}
      PROVE  r = q
  <2>1. {p.authority : p \in R} = {q.authority} /\ {p.terminal : p \in R} = {q.terminal}
    BY <1>4
  <2>2. /\ TornEnvelopes({p.authority : p \in R}) \subseteq {q.authority}
        /\ TornEnvelopes({p.terminal : p \in R}) \subseteq {q.terminal}
    BY <1>1, <1>2, <2>1
  <2>3. /\ r.state = q.state /\ r.authority = q.authority /\ r.terminal = q.terminal
        /\ r.terminal_recorded = q.terminal_recorded
        /\ r.attempt_count = q.attempt_count
        /\ r.terminal_outcome = q.terminal_outcome
    BY <1>4, <2>2 DEF TornRuntimes
  <2>4. q \in Runtime
    OBVIOUS
  <2> QED BY <1>3, <2>3, <2>4 DEF Runtime
<1>5. \E q \in R : q.terminal_recorded = r.terminal_recorded
  BY DEF TornRuntimes
<1> QED BY <1>3, <1>4, <1>5

\* A torn runtime names the attempt that all the runtimes it was read from name.
LEMMA TornAttempt ==
    ASSUME NEW R \in SUBSET Runtime, NEW r \in TornRuntimes(R), NEW a,
           \A q \in R : q.authority.attempt = a
    PROVE  r.authority.attempt = a
<1>1. r.authority \in TornEnvelopes({q.authority : q \in R})
  BY DEF TornRuntimes
<1>2. r.authority.attempt \in {e.attempt : e \in {q.authority : q \in R}}
  BY <1>1 DEF TornEnvelopes
<1> QED BY <1>2

=============================================================================
