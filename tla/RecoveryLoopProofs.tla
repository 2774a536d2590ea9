------------------------- MODULE RecoveryLoopProofs -------------------------
(***************************************************************************)
(* Proofs about RecoveryLoop for every policy limit and every choice of    *)
(* explicitly set dimensions.  They rest on what classify() and plan()     *)
(* return for every failure record (ClassifyEffect, PlanEffect).           *)
(*                                                                         *)
(* The argument for NoDoubleApply: under a cautious policy the key is      *)
(* never given up, so an idempotent operation is deduplicated; one without *)
(* a key starts every attempt with no effect in force, since classify()    *)
(* lets it retry only what was rolled back or what the record, which is    *)
(* truthful, says cannot have happened (CleanStart).                       *)
(***************************************************************************)
EXTENDS RecoveryLoop, TLAPS

NoEffect == {"NONE_POSSIBLE", "KNOWN_NOT_OCCURRED"}

\* A failed attempt has left a record; a decision to roll back left room for the
\* fresh attempt it may ask for, and the key as the policy wants it.
PhaseInv ==
    /\ phase = "failed" => failure \in FailureRecords
    /\ phase = "rollback" =>
           /\ attempt_count < policy.max_attempts
           /\ policy.require_same_key => decision.same_idempotency_key

\* Every attempt adds at most one effect.
AppliedPerAttempt ==
    /\ applied <= attempt_count
    /\ phase = "running" => applied < attempt_count

\* Under a cautious policy every attempt of an operation without a key starts
\* with no effect in force, and a record that denies the effect is right.
CleanStart ==
    Cautious =>
        /\ same_key
        /\ ~idempotent =>
               /\ phase = "running" => applied = 0
               /\ phase = "failed" /\ failure.side_effect_state \in NoEffect =>
                      applied = 0

IInv ==
    /\ TypeOK /\ PhaseInv /\ AttemptsBounded /\ AppliedPerAttempt
    /\ CleanStart /\ NoDoubleApply

-----------------------------------------------------------------------------
(* Records, decisions and plans.                                           *)

\* FailureRecordBuilder::build yields a full record with the effects it was
\* told of.
LEMMA BuildEffect ==
    ASSUME NEW class \in FailureClass, NEW completion \in Ambiguity,
           NEW effects \in SideEffectState, NEW retryability \in ExplicitRetry,
           NEW rollback \in ExplicitRollback
    PROVE  LET f == build(class, completion, effects, retryability, rollback) IN
           f \in FailureRecords /\ f.side_effect_state = effects
<1>1. DerivedRetryability(class) \in Retryability
  BY DEF DerivedRetryability, Retryability
<1>2. DerivedRollback(class) \in RollbackRequirement
  BY DEF DerivedRollback, RollbackRequirement
<1>3. /\ retryability = Unset \/ retryability \in Retryability
      /\ rollback = Unset \/ rollback \in RollbackRequirement
  BY ExplicitAssumption
<1> QED BY <1>1, <1>2, <1>3 DEF build, FailureRecords

\* RetryClassifier::classify: it keeps to the attempt limit, keeps the key
\* where the policy asks for it, and lets an operation without one retry over
\* no effect but those it may ignore.
LEMMA ClassifyEffect ==
    ASSUME TypeOK, NEW fail \in FailureRecords, NEW in \in Inputs
    PROVE  LET d == classify(fail, in, policy) IN
           /\ d \in RetryDecision
           /\ d.verdict # "DO_NOT_RETRY" => attempt_count < policy.max_attempts
           /\ policy.require_same_key => d.same_idempotency_key
           /\ /\ d.verdict \in {"RETRY", "RETRY_ELSEWHERE"}
              /\ ~idempotent /\ ~policy.allow_retry_unknown_side_effects
              => fail.side_effect_state \in NoEffect
<1>1. \A verdict \in RetryVerdict, fresh \in BOOLEAN :
          /\ Decision(verdict, fresh) \in RetryDecision
          /\ Decision(verdict, fresh).verdict = verdict
          /\ Decision(verdict, fresh).same_idempotency_key
  BY DEF Decision, RetryDecision
<1>2. /\ in.attempt_count = attempt_count /\ in.idempotent_retry_possible = idempotent
      /\ attempt_count \in Nat /\ policy.max_attempts \in Nat
      /\ policy.require_same_key \in BOOLEAN
      /\ fail.side_effect_state \in SideEffectState
  BY MaxAttemptsAssumption DEF Inputs, TypeOK, RetryPolicy, FailureRecords
<1>3. "RETRY" \in RetryVerdict /\ "RETRY_ELSEWHERE" \in RetryVerdict
      /\ "ROLLBACK_FIRST" \in RetryVerdict /\ "DO_NOT_RETRY" \in RetryVerdict
  BY DEF RetryVerdict
<1>4. CASE Exhausted(in, policy) \/ fail.failure_class \in FencedClasses
  <2>1. classify(fail, in, policy) = Decision("DO_NOT_RETRY", FALSE)
    BY <1>4 DEF classify
  <2> QED BY <1>1, <1>3, <2>1
<1>5. CASE /\ ~Exhausted(in, policy) /\ fail.failure_class \notin FencedClasses
           /\ Ambiguous(fail)
  <2>0. attempt_count < policy.max_attempts
    BY <1>2, <1>5 DEF Exhausted
  <2>1. classify(fail, in, policy) = ClassifyAmbiguous(fail, in, policy)
    BY <1>5 DEF classify
  <2>2. CASE idempotent
    <3> DEFINE d == [Decision("RETRY", TRUE)
                        EXCEPT !.same_idempotency_key = policy.require_same_key]
    <3>1. classify(fail, in, policy) = d
      BY <1>2, <2>1, <2>2 DEF ClassifyAmbiguous
    <3>2. d \in RetryDecision /\ d.same_idempotency_key = policy.require_same_key
      BY <1>2, <1>3 DEF Decision, RetryDecision
    <3> HIDE DEF d
    <3> QED BY <2>0, <2>2, <3>1, <3>2
  <2>3. CASE ~idempotent
    <3>1. classify(fail, in, policy) \in {Decision("ROLLBACK_FIRST", TRUE),
                                          Decision("DO_NOT_RETRY", TRUE)}
      BY <1>2, <2>1, <2>3 DEF ClassifyAmbiguous
    <3> QED BY <1>1, <1>3, <2>0, <3>1
  <2> QED BY <2>2, <2>3 DEF TypeOK
<1>6. CASE /\ ~Exhausted(in, policy) /\ fail.failure_class \notin FencedClasses
           /\ ~Ambiguous(fail)
  <2>0. attempt_count < policy.max_attempts
    BY <1>2, <1>6 DEF Exhausted
  <2>1. CASE RollbackFirst(fail, in, policy)
    <3>1. PICK fresh \in BOOLEAN :
              classify(fail, in, policy) = Decision("ROLLBACK_FIRST", fresh)
      BY <1>6, <2>1 DEF classify
    <3> QED BY <1>1, <1>3, <2>0, <3>1
  <2>2. CASE ~RollbackFirst(fail, in, policy)
    <3>1. ~idempotent /\ ~policy.allow_retry_unknown_side_effects =>
              fail.side_effect_state \in NoEffect
      BY <1>2, <2>2 DEF RollbackFirst, MayEffect, NoEffect, SideEffectState
    <3>2. classify(fail, in, policy) \in
              {Decision("DO_NOT_RETRY", TRUE), Decision("RETRY_ELSEWHERE", TRUE),
               Decision("RETRY", TRUE)}
      BY <1>6, <2>2 DEF classify, ClassifyRetryable
    <3> QED BY <1>1, <1>3, <2>0, <3>1, <3>2
  <2> QED BY <2>1, <2>2
<1> QED BY <1>4, <1>5, <1>6

\* RecoveryPlanner::plan: where its retries come from.
LEMMA PlanEffect ==
    ASSUME TypeOK, NEW fail \in FailureRecords, NEW in \in PlanInputs
    PROVE  LET action == plan(fail, in, policy.max_attempts) IN
           /\ action = "RETRY" => idempotent /\ attempt_count < policy.max_attempts
           /\ /\ action = "RETRY_ELSEWHERE"
              /\ Ambiguous(fail) \/ fail.side_effect_state = "KNOWN_OCCURRED"
              => idempotent
<1> DEFINE exhausted == in.attempt_count >= policy.max_attempts
           act == plan(fail, in, policy.max_attempts)
           Risky == Ambiguous(fail) \/ fail.side_effect_state = "KNOWN_OCCURRED"
<1> SUFFICES /\ act = "RETRY" => idempotent /\ attempt_count < policy.max_attempts
             /\ act = "RETRY_ELSEWHERE" /\ Risky => idempotent
  OBVIOUS
<1>1. /\ in.attempt_count = attempt_count /\ in.idempotent_retry_possible = idempotent
      /\ attempt_count \in Nat /\ policy.max_attempts \in Nat
  BY MaxAttemptsAssumption DEF PlanInputs, TypeOK, RetryPolicy
<1>2. \/ act = PlanLoss(fail, in)
      \/ act = PlanAmbiguous(in, exhausted)
      \/ act = Undo(in, "ESCALATE")
      \/ RetryPlanned(fail, in, exhausted)
      \/ act = PlanTerminal(fail, in) /\ (Risky => in.idempotent_retry_possible)
      \/ act = "ESCALATE"
  BY DEF plan
<1> HIDE DEF act, Risky
<1>3. ~exhausted => attempt_count < policy.max_attempts
  BY <1>1
<1>4. CASE act = PlanLoss(fail, in)
  BY <1>4 DEF PlanLoss
<1>5. CASE act = PlanAmbiguous(in, exhausted)
  BY <1>1, <1>3, <1>5 DEF PlanAmbiguous, Undo
<1>6. CASE act = Undo(in, "ESCALATE")
  BY <1>6 DEF Undo
<1>7. CASE RetryPlanned(fail, in, exhausted)
  BY <1>1, <1>3, <1>7 DEF RetryPlanned
<1>8. CASE act = PlanTerminal(fail, in) /\ (Risky => in.idempotent_retry_possible)
  BY <1>1, <1>8 DEF PlanTerminal
<1> QED BY <1>2, <1>4, <1>5, <1>6, <1>7, <1>8

-----------------------------------------------------------------------------
(* The invariant.                                                          *)

\* The first attempt has no effect behind it.
LEMMA InitInv == Init => IInv
<1> SUFFICES ASSUME Init PROVE IInv
  OBVIOUS
<1>1. Decision("DO_NOT_RETRY", TRUE) \in RetryDecision
  BY DEF Decision, RetryDecision, RetryVerdict
<1>2. policy.max_attempts \in 1..MaxAttempts
  BY DEF Init, RetryPolicy
<1>3. 1 \in 1..MaxAttempts /\ 0 \in 0..MaxAttempts
  BY MaxAttemptsAssumption
<1>5. TypeOK
  BY <1>1, <1>3 DEF Init, TypeOK
<1>4. PhaseInv /\ AttemptsBounded /\ AppliedPerAttempt /\ CleanStart /\ NoDoubleApply
  BY <1>2, MaxAttemptsAssumption
     DEF Init, PhaseInv, AttemptsBounded, AppliedPerAttempt, CleanStart, NoDoubleApply
<1> QED BY <1>4, <1>5 DEF IInv

\* What an attempt, failed or not, adds to the effects in force.
LEMMA AppliedEffect ==
    ASSUME IInv, phase = "running", NEW occurred \in BOOLEAN
    PROVE  /\ Applied(occurred) \in 0..MaxAttempts
           /\ Applied(occurred) <= attempt_count
           /\ ~occurred => Applied(occurred) = applied
           /\ Cautious => Applied(occurred) <= 1
<1>1. /\ applied \in Nat /\ attempt_count \in Nat /\ attempt_count <= MaxAttempts
      /\ applied < attempt_count /\ attempt_count >= 1
  BY MaxAttemptsAssumption DEF IInv, TypeOK, AppliedPerAttempt
<1>2. Applied(occurred) = applied \/ Applied(occurred) = 1 \/ Applied(occurred) = applied + 1
  BY DEF Applied
<1>3. Applied(occurred) \in Nat /\ Applied(occurred) <= attempt_count
  BY <1>1, <1>2
<1>4. ~occurred => Applied(occurred) = applied
  BY DEF Applied
<1>5. Cautious => Applied(occurred) <= 1
  <2> SUFFICES ASSUME Cautious PROVE Applied(occurred) <= 1
    OBVIOUS
  <2>1. same_key /\ applied <= 1 /\ (~idempotent => applied = 0)
    BY DEF IInv, CleanStart, NoDoubleApply
  <2>2. CASE idempotent
    BY <1>1, <2>1, <2>2 DEF Applied
  <2>3. CASE ~idempotent
    BY <1>1, <2>1, <2>3 DEF Applied
  <2> QED BY <2>2, <2>3
<1> QED BY <1>1, <1>3, <1>4, <1>5, MaxAttemptsAssumption

\* An attempt fails, before or after its effect.
LEMMA FailInv ==
    ASSUME IInv, NEW class \in FailureClass, NEW completion \in Ambiguity,
           NEW effects \in SideEffectState, NEW retryability \in ExplicitRetry,
           NEW rollback \in ExplicitRollback, NEW occurred \in BOOLEAN,
           Fail(class, completion, effects, retryability, rollback, occurred)
    PROVE  IInv'
<1> DEFINE f == build(class, completion, effects, retryability, rollback)
<1>1. /\ phase = "running" /\ Truthful(effects, occurred)
      /\ failure' = f /\ applied' = Applied(occurred) /\ phase' = "failed"
      /\ UNCHANGED <<policy, idempotent, attempt_count, same_key, decision>>
  BY DEF Fail
<1>2. f \in FailureRecords /\ f.side_effect_state = effects
  BY BuildEffect
<1> HIDE DEF f
<1>3. /\ applied' \in 0..MaxAttempts /\ applied' <= attempt_count
      /\ ~occurred => applied' = applied
      /\ Cautious => applied' <= 1
  BY <1>1, AppliedEffect
<1> USE DEF IInv
<1>4. TypeOK'
  BY <1>1, <1>2, <1>3 DEF TypeOK
<1>5. PhaseInv' /\ AttemptsBounded' /\ AppliedPerAttempt'
  BY <1>1, <1>2, <1>3 DEF PhaseInv, AttemptsBounded, AppliedPerAttempt
<1>6. NoDoubleApply'
  BY <1>1, <1>3 DEF NoDoubleApply, Cautious
<1>7. effects \in NoEffect => applied' = applied
  BY <1>1, <1>3 DEF Truthful, NoEffect
<1>8. CleanStart'
  BY <1>1, <1>2, <1>7 DEF CleanStart, Cautious
<1> QED BY <1>4, <1>5, <1>6, <1>8

\* An attempt succeeds.
LEMMA SucceedInv ==
    ASSUME IInv, Succeed
    PROVE  IInv'
<1>1. /\ phase = "running" /\ applied' = Applied(TRUE) /\ phase' = "completed"
      /\ UNCHANGED <<policy, idempotent, attempt_count, same_key, failure, decision>>
  BY DEF Succeed
<1>2. applied' \in 0..MaxAttempts /\ applied' <= attempt_count /\ (Cautious => applied' <= 1)
  BY <1>1, AppliedEffect
<1> USE DEF IInv
<1>3. TypeOK'
  BY <1>1, <1>2 DEF TypeOK
<1>4. PhaseInv' /\ AttemptsBounded' /\ AppliedPerAttempt' /\ NoDoubleApply' /\ CleanStart'
  BY <1>1, <1>2 DEF PhaseInv, AttemptsBounded, AppliedPerAttempt, NoDoubleApply,
                    CleanStart, Cautious
<1> QED BY <1>3, <1>4

\* A fresh attempt below the limit, with no more effects than attempts, under
\* the key if the policy asks for it, and with no effect if there is no key.
LEMMA NewAttemptInv ==
    ASSUME IInv, NEW d \in RetryDecision, NewAttempt(d), decision' = d,
           attempt_count < policy.max_attempts,
           applied' \in Nat, applied' <= applied,
           policy.require_same_key => d.same_idempotency_key,
           Cautious /\ ~idempotent => applied' = 0,
           failure' \in {failure, NoFailure},
           UNCHANGED <<policy, idempotent>>
    PROVE  IInv'
<1> USE DEF IInv
<1>1. /\ applied \in Nat /\ attempt_count \in Nat /\ attempt_count >= 1
      /\ attempt_count + 1 <= MaxAttempts /\ applied <= attempt_count
      /\ policy.max_attempts \in Nat
  BY MaxAttemptsAssumption DEF TypeOK, RetryPolicy, AppliedPerAttempt
<1>2. /\ phase' = "running" /\ attempt_count' = attempt_count + 1
      /\ same_key' = d.same_idempotency_key
  BY DEF NewAttempt
<1>3. same_key' \in BOOLEAN
  BY <1>2 DEF RetryDecision
<1>4. applied' \in 0..MaxAttempts /\ attempt_count' \in 1..MaxAttempts
  BY <1>1, <1>2, MaxAttemptsAssumption
<1>5. TypeOK'
  BY <1>2, <1>3, <1>4 DEF TypeOK
<1>6. PhaseInv' /\ AttemptsBounded' /\ AppliedPerAttempt'
  BY <1>1, <1>2 DEF PhaseInv, AttemptsBounded, AppliedPerAttempt
<1>7. CleanStart' /\ NoDoubleApply'
  BY <1>1, <1>2 DEF CleanStart, NoDoubleApply, Cautious
<1> QED BY <1>5, <1>6, <1>7

\* The operation is left to a rollback or stopped.
LEMMA EndAttemptInv ==
    ASSUME IInv, NEW p \in {"rollback", "stopped"}, EndAttempt(p),
           decision' \in RetryDecision,
           p = "rollback" =>
               /\ attempt_count < policy.max_attempts
               /\ policy.require_same_key => decision'.same_idempotency_key,
           applied' \in {0, applied}, failure' \in {failure, NoFailure},
           UNCHANGED <<policy, idempotent>>
    PROVE  IInv'
<1> USE DEF IInv
<1>1. phase' = p /\ UNCHANGED <<attempt_count, same_key>>
  BY DEF EndAttempt
<1>2. applied \in Nat /\ attempt_count \in Nat /\ applied' \in Nat /\ applied' <= applied
  BY MaxAttemptsAssumption DEF TypeOK
<1>3. TypeOK'
  BY <1>1, MaxAttemptsAssumption DEF TypeOK
<1>4. PhaseInv' /\ AttemptsBounded' /\ AppliedPerAttempt'
  BY <1>1, <1>2 DEF PhaseInv, AttemptsBounded, AppliedPerAttempt
<1>5. CleanStart' /\ NoDoubleApply'
  BY <1>1, <1>2 DEF CleanStart, NoDoubleApply, Cautious
<1> QED BY <1>3, <1>4, <1>5

\* The caller does what classify() decides.
LEMMA DecideInv ==
    ASSUME IInv, NEW in \in Inputs, Decide(in)
    PROVE  IInv'
<1> DEFINE d == classify(failure, in, policy)
<1>1. /\ phase = "failed" /\ decision' = d /\ failure' = NoFailure
      /\ \/ d.verdict \in {"RETRY", "RETRY_ELSEWHERE"} /\ NewAttempt(d)
         \/ d.verdict = "ROLLBACK_FIRST" /\ EndAttempt("rollback")
         \/ d.verdict = "DO_NOT_RETRY" /\ EndAttempt("stopped")
      /\ UNCHANGED <<policy, idempotent, applied>>
  BY DEF Decide
<1>2. TypeOK /\ failure \in FailureRecords
  BY <1>1 DEF IInv, PhaseInv
<1>3. /\ d \in RetryDecision
      /\ d.verdict # "DO_NOT_RETRY" => attempt_count < policy.max_attempts
      /\ policy.require_same_key => d.same_idempotency_key
      /\ /\ d.verdict \in {"RETRY", "RETRY_ELSEWHERE"}
         /\ ~idempotent /\ ~policy.allow_retry_unknown_side_effects
         => failure.side_effect_state \in NoEffect
  BY <1>2, ClassifyEffect
<1> HIDE DEF d
<1>4. applied \in Nat /\ applied <= applied
  BY <1>2 DEF TypeOK
<1>5. CASE d.verdict \in {"RETRY", "RETRY_ELSEWHERE"} /\ NewAttempt(d)
  <2>1. Cautious /\ ~idempotent => applied = 0
    BY <1>1, <1>3, <1>5 DEF IInv, CleanStart, Cautious
  <2> QED BY <1>1, <1>3, <1>4, <1>5, <2>1, NewAttemptInv
<1>6. CASE d.verdict = "ROLLBACK_FIRST" /\ EndAttempt("rollback")
  BY <1>1, <1>3, <1>6, EndAttemptInv
<1>7. CASE d.verdict = "DO_NOT_RETRY" /\ EndAttempt("stopped")
  BY <1>1, <1>3, <1>7, EndAttemptInv
<1> QED BY <1>1, <1>5, <1>6, <1>7

\* A rollback that works undoes the effect.
LEMMA RolledBackInv ==
    ASSUME IInv, RolledBack
    PROVE  IInv'
<1>1. /\ phase = "rollback" /\ applied' = 0
      /\ \/ NewAttempt(decision) \/ EndAttempt("stopped")
      /\ UNCHANGED <<policy, idempotent, failure, decision>>
  BY DEF RolledBack
<1>2. /\ decision \in RetryDecision /\ applied \in Nat
      /\ attempt_count < policy.max_attempts
      /\ policy.require_same_key => decision.same_idempotency_key
  BY <1>1 DEF IInv, TypeOK, PhaseInv
<1>3. applied' \in Nat /\ applied' <= applied
  BY <1>1, <1>2
<1>4. CASE NewAttempt(decision)
  BY <1>1, <1>2, <1>3, <1>4, NewAttemptInv
<1>5. CASE EndAttempt("stopped")
  BY <1>1, <1>2, <1>5, EndAttemptInv
<1> QED BY <1>1, <1>4, <1>5

\* A rollback that fails leaves the effect and stops.
LEMMA RollbackFailedInv ==
    ASSUME IInv, RollbackFailed
    PROVE  IInv'
<1>1. decision \in RetryDecision
  BY DEF IInv, TypeOK
<1> QED BY <1>1, EndAttemptInv DEF RollbackFailed

\* The invariant holds in every state.
LEMMA Invariance == Spec => []IInv
<1>1. IInv /\ [Next]_vars => IInv'
  <2> SUFFICES ASSUME IInv, [Next]_vars PROVE IInv'
    OBVIOUS
  <2>1. CASE UNCHANGED vars
    BY <2>1 DEF vars, IInv, TypeOK, PhaseInv, AttemptsBounded, AppliedPerAttempt,
                CleanStart, NoDoubleApply, Cautious
  <2> QED BY <2>1, FailInv, SucceedInv, DecideInv, RolledBackInv, RollbackFailedInv
          DEF Next
<1> QED BY InitInv, <1>1, PTL DEF Spec

-----------------------------------------------------------------------------
(* The theorems.                                                           *)

\* Records, decisions and counts stay well formed.
THEOREM TypeCorrect == Spec => []TypeOK
BY Invariance, PTL DEF IInv

\* classify() never lets an operation be attempted more often than its policy
\* allows, retried or rolled back.
THEOREM AttemptsStayBounded == Spec => []AttemptsBounded
BY Invariance, PTL DEF IInv

\* Under a cautious policy no sequence of failures, retries and rollbacks puts
\* the side effect in force twice.
THEOREM AppliedOnce == Spec => []NoDoubleApply
BY Invariance, PTL DEF IInv

\* plan() retries in place only under a key and below the limit, and elsewhere
\* only under a key if the effect happened or the completion is ambiguous.
THEOREM PlansKeepToKeys == Spec => []PlanRetriesUnderKey
<1>1. IInv => PlanRetriesUnderKey
  <2> SUFFICES ASSUME IInv, phase = "failed"
               PROVE  PlanRetriesUnderKey
    BY DEF PlanRetriesUnderKey
  <2>1. TypeOK /\ failure \in FailureRecords
    BY DEF IInv, PhaseInv
  <2> QED BY <2>1, PlanEffect DEF PlanRetriesUnderKey
<1> QED BY <1>1, Invariance, PTL

=============================================================================
