-------------------------- MODULE RollbackRecovery --------------------------
(***************************************************************************)
(* RollbackExecutor and Compensator (src/rollback.cpp,                     *)
(* src/compensation.cpp) in the hands of successive recovery owners of one *)
(* operation, which is to be rolled back or to be compensated for.  A boot *)
(* that wants to recover derives a command from the envelope in force, has *)
(* it fenced, takes ownership and goes on where the last reported progress *)
(* ends.  The library leaves it to its caller to ask is_current and to     *)
(* pass the answer on: between the two, another boot may take over.        *)
(***************************************************************************)
EXTENDS Authority, RecoveryOwnership, FiniteSets

CONSTANTS Steps,  \* number of steps of the rollback plan
          First   \* the envelope in force when recovery begins

ASSUME RollbackConstants == Steps \in Nat /\ First \in AuthorityEnvelope

VARIABLES
    plan,      \* what the planner chose: ROLLBACK or COMPENSATE
    current,   \* the envelope in force
    ownership, \* RecoveryOwnership of the operation
    phase,     \* how far each boot is: idle, prepared, fenced, owner, refused
    command,   \* the envelope of its recovery command
    exec,      \* its RollbackExecutor
    comp,      \* its Compensator
    cleared,   \* what is_current answered, until it is passed on
    progress,  \* the completed() last reported
    record,    \* the compensation record last reported
    undone,    \* history: the steps that were executed
    late       \* history: what each boot did after it was superseded

vars == <<plan, current, ownership, phase, command, exec, comp, cleared, progress,
          record, undone, late>>
claim == <<plan, current, ownership, phase, command>>
reported == <<progress, record>>

Executor == [completed : Nat, failed : BOOLEAN]

CompensationRecord ==
    [completion : {"PENDING", "COMPLETE", "FAILURE"}, attempts : Nat,
     side_effects : {"UNKNOWN", "KNOWN_NOT_OCCURRED"}]

NewExecutor == [completed |-> 0, failed |-> FALSE]

NewRecord ==
    [completion |-> "PENDING", attempts |-> 0, side_effects |-> "UNKNOWN"]

\* Mutant: complete only beyond the last step.
is_complete_late(ex) == ex.completed > Steps

is_complete(ex) == ex.completed >= Steps

\* Mutant: the authority is asked for before completion.
run_next_authority_first(ex, authority_current) ==
    IF ~authority_current THEN [ex EXCEPT !.failed = TRUE]
    ELSE IF is_complete(ex) THEN ex
    ELSE [ex EXCEPT !.completed = @ + 1]

\* Mutant: a blocked step is skipped.
run_next_skipping(ex, authority_current) ==
    IF is_complete(ex) THEN ex
    ELSE IF ~authority_current
    THEN [ex EXCEPT !.failed = TRUE, !.completed = @ + 1]
    ELSE [ex EXCEPT !.completed = @ + 1]

\* Mutant: the authority is not asked for.
run_next_unfenced(ex, authority_current) ==
    IF is_complete(ex) THEN ex ELSE [ex EXCEPT !.completed = @ + 1]

\* Mutant: a superseded executor is not told.
run_next_silent(ex, authority_current) ==
    IF is_complete(ex) \/ ~authority_current THEN ex
    ELSE [ex EXCEPT !.completed = @ + 1]

run_next(ex, authority_current) ==
    IF is_complete(ex) THEN ex
    ELSE IF ~authority_current THEN [ex EXCEPT !.failed = TRUE]
    ELSE [ex EXCEPT !.completed = @ + 1]

resume_from(ex, completed) == [ex EXCEPT !.completed = completed]

\* Compensator::run; failed says the same as completion.
run(rec, authority_current) ==
    IF rec.completion # "PENDING" THEN rec
    ELSE IF ~authority_current THEN [rec EXCEPT !.completion = "FAILURE"]
    ELSE [completion |-> "COMPLETE", attempts |-> rec.attempts + 1,
          side_effects |-> "KNOWN_NOT_OCCURRED"]

resume_failure(rec) == [rec EXCEPT !.completion = "FAILURE"]

-----------------------------------------------------------------------------
Init ==
    /\ plan \in {"ROLLBACK", "COMPENSATE"}
    /\ current = First
    /\ ownership = Unassigned(NullId)
    /\ phase = [b \in Boots |-> "idle"]
    /\ command = [b \in Boots |-> UnsetEnvelope]
    /\ exec = [b \in Boots |-> NewExecutor]
    /\ comp = [b \in Boots |-> NewRecord]
    /\ cleared = [b \in Boots |-> "unasked"]
    /\ progress = 0 /\ record = NewRecord
    /\ undone = {} /\ late = [b \in Boots |-> 0]

Move(b, p) == phase' = [phase EXCEPT ![b] = p]

Prepare(b) ==
    /\ phase[b] = "idle"
    /\ command' = [command EXCEPT ![b] = next_boot(current, b)]
    /\ Move(b, "prepared")
    /\ UNCHANGED <<plan, current, ownership, exec, comp, cleared, reported,
                   undone, late>>

Fence(b) ==
    /\ phase[b] = "prepared"
    /\ Move(b, IF fence_recovery(command[b], current, ownership.generation)
               THEN "fenced" ELSE "refused")
    /\ UNCHANGED <<plan, current, ownership, command, exec, comp, cleared,
                   reported, undone, late>>

\* transfer(), and what the new owner starts from; a refused boot gives up.
TakeOver(b) ==
    LET gen == command[b].recovery_generation IN
    /\ phase[b] = "fenced"
    /\ \/ /\ accepts_transfer(ownership, "REPLACEMENT_WORKER", gen)
          /\ ownership' = transfer(ownership, "REPLACEMENT_WORKER", gen, b)
          /\ current' = command[b]
          /\ exec' = [exec EXCEPT ![b] = resume_from(NewExecutor, progress)]
          /\ comp' = [comp EXCEPT ![b] = record]
          /\ Move(b, "owner")
       \/ /\ ~accepts_transfer(ownership, "REPLACEMENT_WORKER", gen)
          /\ Move(b, "refused")
          /\ UNCHANGED <<current, ownership, exec, comp>>
    /\ UNCHANGED <<plan, command, cleared, reported, undone, late>>

Current(b) == is_current(ownership, b, command[b].recovery_generation)

AskAuthority(b) ==
    /\ phase[b] = "owner" /\ cleared[b] = "unasked"
    /\ cleared' = [cleared EXCEPT ![b] = IF Current(b) THEN "current" ELSE "stale"]
    /\ UNCHANGED <<claim, exec, comp, reported, undone, late>>

\* What b did counts as late if somebody else owns the recovery by now.
Count(b, acted) ==
    late' = IF acted /\ ~Current(b) THEN [late EXCEPT ![b] = @ + 1] ELSE late

RunNext(b) ==
    LET ex == run_next(exec[b], cleared[b] = "current")
        acted == ex.completed > exec[b].completed /\ ~ex.failed
    IN
    /\ plan = "ROLLBACK" /\ cleared[b] # "unasked"
    /\ exec' = [exec EXCEPT ![b] = ex]
    /\ undone' = IF acted THEN undone \cup {ex.completed} ELSE undone
    /\ Count(b, acted)
    /\ cleared' = [cleared EXCEPT ![b] = "unasked"]
    /\ UNCHANGED <<claim, comp, reported>>

Compensate(b) ==
    LET rec == run(comp[b], cleared[b] = "current") IN
    /\ plan = "COMPENSATE" /\ cleared[b] # "unasked"
    /\ comp' = [comp EXCEPT ![b] = rec]
    /\ Count(b, rec.attempts > comp[b].attempts)
    /\ cleared' = [cleared EXCEPT ![b] = "unasked"]
    /\ UNCHANGED <<claim, exec, reported, undone>>

\* Somebody finds out that the compensation did not work.
ResumeFailure(b) ==
    /\ plan = "COMPENSATE" /\ phase[b] = "owner"
    /\ comp' = [comp EXCEPT ![b] = resume_failure(@)]
    /\ UNCHANGED <<claim, exec, cleared, reported, undone, late>>

\* An owner reports how far it is, if it gets to it, and be it superseded.
Report(b) ==
    /\ phase[b] = "owner"
    /\ progress' = exec[b].completed
    /\ record' = comp[b]
    /\ UNCHANGED <<claim, exec, comp, cleared, undone, late>>

Next ==
    \E b \in Boots :
        \/ Prepare(b) \/ Fence(b) \/ TakeOver(b)
        \/ AskAuthority(b) \/ RunNext(b) \/ Compensate(b)
        \/ ResumeFailure(b) \/ Report(b)

\* An owner that has begun goes on, as the loop of the command line tool does.
Fairness ==
    \A b \in Boots : WF_vars(AskAuthority(b)) /\ WF_vars(RunNext(b) \/ Compensate(b))

Spec == Init /\ [][Next]_vars /\ Fairness

-----------------------------------------------------------------------------
(* Properties.                                                             *)

\* Executors, records and the ownership are well formed.
TypeOK ==
    /\ plan \in {"ROLLBACK", "COMPENSATE"}
    /\ current \in AuthorityEnvelope
    /\ ownership \in Ownership(Boots \cup {NullId})
    /\ phase \in [Boots -> {"idle", "prepared", "fenced", "owner", "refused"}]
    /\ command \in [Boots -> AuthorityEnvelope]
    /\ exec \in [Boots -> Executor] /\ progress \in 0..Steps
    /\ comp \in [Boots -> CompensationRecord] /\ record \in CompensationRecord
    /\ \A b \in Boots : exec[b].completed <= Steps
    /\ cleared \in [Boots -> {"unasked", "current", "stale"}]
    /\ undone \subseteq 1..Steps /\ late \in [Boots -> Nat]

\* Two boots whose commands both passed the fence never own the recovery under
\* the same generation: transfer() lets only one of them through.
OneOwnerPerGeneration ==
    \A a, b \in Boots :
        /\ phase[a] = "owner" /\ phase[b] = "owner"
        /\ command[a].recovery_generation = command[b].recovery_generation
        => a = b

\* Whatever executor counts a step as completed, its own or one it resumed
\* from, the step was executed: nothing is skipped by being superseded,
\* blocked or resumed.
CompletedMeansUndone ==
    \A b \in Boots : 1..exec[b].completed \subseteq undone

\* The answer of is_current may be stale when it is used, but only once: a
\* superseded owner executes at most the one step, or the one compensation,
\* it had been cleared for.
AtMostOneLateAct == \A b \in Boots : late[b] <= 1

\* An executor that completed its plan is not failed afterwards, and one that
\* was blocked never completes it.
CompleteOrFailed == \A b \in Boots : ~(exec[b].failed /\ is_complete(exec[b]))

\* Every owner comes to an end: it completes the plan or the compensation, or
\* learns that it was superseded.
OwnerEnds ==
    \A b \in Boots :
        phase[b] = "owner" ~>
            IF plan = "ROLLBACK" THEN is_complete(exec[b]) \/ exec[b].failed
            ELSE comp[b].completion # "PENDING"

=============================================================================
