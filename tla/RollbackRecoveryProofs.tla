----------------------- MODULE RollbackRecoveryProofs -----------------------
(***************************************************************************)
(* Proofs about RollbackRecovery for any set of boots, any length of the   *)
(* rollback plan and any envelope in force when recovery begins.           *)
(*                                                                         *)
(* The argument: transfer() raises the generation, so a boot that was      *)
(* superseded is never the holder again, and no two of them ever held the  *)
(* same generation (Held, OneOwnerPerGeneration).  An answer of is_current *)
(* is used once, so what a boot does after it was superseded is at most    *)
(* the one act it had been cleared for (Stale); what blocks an executor is *)
(* being superseded, so a blocked one never goes on (Blocked).             *)
(***************************************************************************)
EXTENDS RollbackRecovery, TLAPS

\* A boot that has taken over keeps its claim: the generation it owns was
\* reached, and while it is the holder no newer one was.
Held ==
    \A b \in Boots :
        /\ phase[b] = "owner" =>
               /\ ownership.owner # "NONE"
               /\ command[b].recovery_generation <= ownership.generation
               /\ ownership.boot = b =>
                      command[b].recovery_generation = ownership.generation
        /\ phase[b] # "owner" =>
               /\ ownership.boot # b
               /\ cleared[b] = "unasked" /\ late[b] = 0 /\ ~exec[b].failed

\* A boot that was told it is stale, or that acted late, has lost the
\* ownership, and one that acted late is not cleared again.
Stale ==
    \A b \in Boots :
        /\ cleared[b] = "stale" => ownership.boot # b
        /\ late[b] # 0 => late[b] = 1 /\ ownership.boot # b /\ cleared[b] # "current"

\* A blocked executor was superseded before its plan was complete.
Blocked ==
    \A b \in Boots :
        exec[b].failed =>
            ownership.boot # b /\ cleared[b] # "current" /\ ~is_complete(exec[b])

\* The progress last reported counts executed steps only.
ReportedMeansUndone == 1..progress \subseteq undone

IInv ==
    /\ TypeOK /\ Held /\ OneOwnerPerGeneration /\ Stale /\ Blocked
    /\ ReportedMeansUndone /\ CompletedMeansUndone

-----------------------------------------------------------------------------
(* The operators the model is built from.                                  *)

\* RollbackExecutor::run_next: an executor goes on by the step it was cleared
\* for, is blocked for good if it was not, and stops at the end of the plan.
LEMMA RunNextEffect ==
    ASSUME NEW ex \in Executor, ex.completed <= Steps, NEW cur \in BOOLEAN
    PROVE  LET rn == run_next(ex, cur) IN
           /\ rn \in Executor /\ rn.completed <= Steps
           /\ \/ rn = ex
              \/ /\ cur /\ rn.failed = ex.failed
                 /\ rn.completed = ex.completed + 1
              \/ /\ ~cur /\ rn.failed /\ ~is_complete(ex)
                 /\ rn.completed = ex.completed
<1>1. CASE is_complete(ex)
  BY <1>1 DEF run_next
<1>2. CASE ~is_complete(ex) /\ ~cur
  <2>1. run_next(ex, cur) = [ex EXCEPT !.failed = TRUE]
    BY <1>2 DEF run_next
  <2> QED BY <1>2, <2>1 DEF Executor
<1>3. CASE ~is_complete(ex) /\ cur
  <2>1. run_next(ex, cur) = [ex EXCEPT !.completed = @ + 1]
    BY <1>3 DEF run_next
  <2>2. ex.completed + 1 \in Nat /\ ex.completed + 1 <= Steps
    BY <1>3, RollbackConstants DEF Executor, is_complete
  <2> QED BY <1>3, <2>1, <2>2 DEF Executor
<1> QED BY <1>1, <1>2, <1>3

\* Compensator::run: only a cleared compensator carries anything out.
LEMMA CompensateEffect ==
    ASSUME NEW rec \in CompensationRecord, NEW cur \in BOOLEAN
    PROVE  /\ run(rec, cur) \in CompensationRecord
           /\ run(rec, cur).attempts > rec.attempts => cur
<1>1. CASE rec.completion # "PENDING"
  BY <1>1 DEF run, CompensationRecord
<1>2. CASE rec.completion = "PENDING" /\ ~cur
  <2>1. run(rec, cur) = [rec EXCEPT !.completion = "FAILURE"]
    BY <1>2 DEF run
  <2> QED BY <2>1 DEF CompensationRecord
<1>3. CASE rec.completion = "PENDING" /\ cur
  BY <1>3 DEF run, CompensationRecord
<1> QED BY <1>1, <1>2, <1>3

\* AuthorityEnvelope::next_boot yields an envelope.
LEMMA NextBootType ==
    ASSUME NEW e \in AuthorityEnvelope, NEW b \in Boots
    PROVE  next_boot(e, b) \in AuthorityEnvelope
<1>1. /\ e.attempt_generation + 1 \in Nat /\ e.operation_generation + 1 \in Nat
      /\ e.failure_generation + 1 \in Nat /\ e.recovery_generation + 1 \in Nat
  BY DEF AuthorityEnvelope
<1> QED BY <1>1 DEF next_boot, AuthorityEnvelope

\* RecoveryOwnership::transfer, when it is accepted.
LEMMA TransferEffect ==
    ASSUME NEW o \in Ownership(Boots \cup {NullId}), NEW gen \in Nat, NEW b \in Boots,
           accepts_transfer(o, "REPLACEMENT_WORKER", gen)
    PROVE  LET n == transfer(o, "REPLACEMENT_WORKER", gen, b) IN
           /\ n \in Ownership(Boots \cup {NullId})
           /\ n.owner # "NONE" /\ n.generation = gen /\ n.boot = b
           /\ o.owner = "NONE" \/ o.generation < gen
BY DEF transfer, accepts_transfer, accepts_adopt, Ownership, RecoveryOwners

-----------------------------------------------------------------------------
(* The invariant.                                                          *)

\* Recovery begins with nobody owning it and nothing undone.
LEMMA InitInv == Init => IInv
<1> SUFFICES ASSUME Init PROVE IInv
  OBVIOUS
<1>1. NewExecutor \in Executor /\ NewRecord \in CompensationRecord
  BY DEF NewExecutor, Executor, NewRecord, CompensationRecord
<1>2. /\ First \in AuthorityEnvelope /\ UnsetEnvelope \in AuthorityEnvelope
      /\ Unassigned(NullId) \in Ownership(Boots \cup {NullId})
  BY RollbackConstants
     DEF UnsetEnvelope, AuthorityEnvelope, Unassigned, Ownership, RecoveryOwners
<1>3. TypeOK
  BY <1>1, <1>2, RollbackConstants DEF Init, TypeOK, NewExecutor
<1>4. Held /\ OneOwnerPerGeneration /\ Stale /\ Blocked
  BY NullIdAssumption DEF Init, Held, OneOwnerPerGeneration, Stale, Blocked,
                          Unassigned, NewExecutor
<1>5. ReportedMeansUndone /\ CompletedMeansUndone
  BY DEF Init, ReportedMeansUndone, CompletedMeansUndone, NewExecutor
<1> QED BY <1>3, <1>4, <1>5 DEF IInv

\* next_boot(): deriving a command gives a boot no claim yet.
LEMMA PrepareInv ==
    ASSUME IInv, NEW b \in Boots, Prepare(b)
    PROVE  IInv'
<1> USE DEF IInv, Prepare, Move, reported
<1>1. TypeOK'
  BY NextBootType DEF TypeOK
<1>2. Held' /\ OneOwnerPerGeneration'
  BY DEF Held, OneOwnerPerGeneration, TypeOK
<1>3. Stale' /\ Blocked' /\ ReportedMeansUndone' /\ CompletedMeansUndone'
  BY DEF Stale, Blocked, ReportedMeansUndone, CompletedMeansUndone, is_complete
<1> QED BY <1>1, <1>2, <1>3

\* fence_recovery(): neither answer of the fence makes an owner.
LEMMA FenceInv ==
    ASSUME IInv, NEW b \in Boots, Fence(b)
    PROVE  IInv'
<1> USE DEF IInv, Fence, Move, reported
<1>1. TypeOK'
  BY DEF TypeOK
<1>2. Held' /\ OneOwnerPerGeneration'
  BY DEF Held, OneOwnerPerGeneration, TypeOK
<1>3. Stale' /\ Blocked' /\ ReportedMeansUndone' /\ CompletedMeansUndone'
  BY DEF Stale, Blocked, ReportedMeansUndone, CompletedMeansUndone, is_complete
<1> QED BY <1>1, <1>2, <1>3

\* transfer(): a refused one changes nothing but the boot that asked, an
\* accepted one supersedes whoever held the recovery before.
LEMMA TakeOverInv ==
    ASSUME IInv, NEW b \in Boots, TakeOver(b)
    PROVE  IInv'
<1> DEFINE gen == command[b].recovery_generation
<1> USE DEF IInv
<1>0. gen \in Nat /\ phase[b] = "fenced"
  BY DEF TypeOK, AuthorityEnvelope, TakeOver
<1>1. CASE ~accepts_transfer(ownership, "REPLACEMENT_WORKER", gen)
  <2>1. /\ phase' = [phase EXCEPT ![b] = "refused"]
        /\ UNCHANGED <<plan, current, ownership, command, exec, comp, cleared,
                       progress, record, undone, late>>
    BY <1>1 DEF TakeOver, Move, reported
  <2>2. TypeOK'
    BY <2>1 DEF TypeOK
  <2>3. Held' /\ OneOwnerPerGeneration'
    BY <1>0, <2>1 DEF Held, OneOwnerPerGeneration, TypeOK
  <2>4. Stale' /\ Blocked' /\ ReportedMeansUndone' /\ CompletedMeansUndone'
    BY <2>1 DEF Stale, Blocked, ReportedMeansUndone, CompletedMeansUndone, is_complete
  <2> QED BY <2>2, <2>3, <2>4
<1>2. CASE accepts_transfer(ownership, "REPLACEMENT_WORKER", gen)
  <2> DEFINE ex == resume_from(NewExecutor, progress)
  <2>1. /\ phase' = [phase EXCEPT ![b] = "owner"]
        /\ ownership' = transfer(ownership, "REPLACEMENT_WORKER", gen, b)
        /\ current' = command[b]
        /\ exec' = [exec EXCEPT ![b] = ex]
        /\ comp' = [comp EXCEPT ![b] = record]
        /\ UNCHANGED <<plan, command, cleared, progress, record, undone, late>>
    BY <1>2 DEF TakeOver, Move, reported
  <2>2. progress \in Nat /\ progress <= Steps
    BY RollbackConstants DEF TypeOK
  <2>3. ex \in Executor /\ ex.completed = progress /\ ~ex.failed
    BY <2>2 DEF resume_from, NewExecutor, Executor
  <2>4. /\ ownership' \in Ownership(Boots \cup {NullId})
        /\ ownership'.owner # "NONE" /\ ownership'.generation = gen
        /\ ownership'.boot = b
        /\ ownership.owner = "NONE" \/ ownership.generation < gen
    <3>1. ownership \in Ownership(Boots \cup {NullId})
      BY DEF TypeOK
    <3>2. LET n == transfer(ownership, "REPLACEMENT_WORKER", gen, b) IN
          /\ n \in Ownership(Boots \cup {NullId})
          /\ n.owner # "NONE" /\ n.generation = gen /\ n.boot = b
          /\ ownership.owner = "NONE" \/ ownership.generation < gen
      <4> HIDE DEF gen
      <4> QED BY <1>0, <1>2, <3>1, TransferEffect, SMT
    <3> QED BY <2>1, <3>2
  <2>5. TypeOK'
    BY <2>1, <2>2, <2>3, <2>4 DEF TypeOK
  <2>6. \A a \in Boots : /\ a # b => phase'[a] = phase[a] /\ exec'[a] = exec[a]
                         /\ phase'[b] = "owner" /\ exec'[b] = ex
    BY <2>1 DEF TypeOK
  <2>7. Held'
    <3> SUFFICES ASSUME NEW a \in Boots
                 PROVE  /\ phase'[a] = "owner" =>
                             /\ ownership'.owner # "NONE"
                             /\ command'[a].recovery_generation <= ownership'.generation
                             /\ ownership'.boot = a =>
                                  command'[a].recovery_generation = ownership'.generation
                        /\ phase'[a] # "owner" =>
                             /\ ownership'.boot # a
                             /\ cleared'[a] = "unasked" /\ late'[a] = 0 /\ ~exec'[a].failed
      BY DEF Held
    <3>1. CASE a = b
      BY <1>0, <2>1, <2>4, <2>6, <3>1
    <3>2. CASE a # b
      <4>1. command[a].recovery_generation \in Nat /\ ownership.generation \in Nat
        BY DEF TypeOK, AuthorityEnvelope, Ownership
      <4> QED BY <1>0, <2>1, <2>4, <2>6, <3>2, <4>1 DEF Held
    <3> QED BY <3>1, <3>2
  <2>8. Stale'
    BY <1>0, <2>1, <2>4 DEF Stale, Held
  <2>11. OneOwnerPerGeneration'
    <3>1. ASSUME NEW a \in Boots, a # b, phase[a] = "owner"
          PROVE  command[a].recovery_generation < gen
      BY <1>0, <2>4, <3>1 DEF Held, TypeOK, AuthorityEnvelope, Ownership
    <3>2. \A a \in Boots : command[a].recovery_generation \in Nat
      BY DEF TypeOK, AuthorityEnvelope
    <3> QED BY <1>0, <2>1, <2>6, <3>1, <3>2 DEF OneOwnerPerGeneration
  <2>9. Blocked'
    BY <1>0, <2>1, <2>3, <2>4, <2>6 DEF Blocked, is_complete
  <2>10. ReportedMeansUndone' /\ CompletedMeansUndone'
    BY <2>1, <2>3, <2>6 DEF ReportedMeansUndone, CompletedMeansUndone
  <2> QED BY <2>5, <2>7, <2>8, <2>9, <2>10, <2>11
<1> QED BY <1>1, <1>2

\* is_current(): the answer given is the true one at this moment.
LEMMA AskAuthorityInv ==
    ASSUME IInv, NEW b \in Boots, AskAuthority(b)
    PROVE  IInv'
<1> USE DEF IInv, AskAuthority, claim, reported
<1>1. TypeOK'
  BY DEF TypeOK
<1>2. Held' /\ OneOwnerPerGeneration'
  BY DEF Held, OneOwnerPerGeneration, TypeOK
<1>3. Current(b) <=> ownership.boot = b
  BY DEF Held, Current, is_current
<1>4. Stale'
  BY <1>3 DEF Stale, TypeOK
<1>5. Blocked'
  BY <1>3 DEF Blocked, TypeOK, is_complete
<1>6. ReportedMeansUndone' /\ CompletedMeansUndone'
  BY DEF ReportedMeansUndone, CompletedMeansUndone
<1> QED BY <1>1, <1>2, <1>4, <1>5, <1>6

\* What an act of b, done or not, does to the count of late acts.
LEMMA CountEffect ==
    ASSUME IInv, NEW b \in Boots, NEW acted \in BOOLEAN, Count(b, acted),
           acted => cleared[b] = "current", phase[b] = "owner"
    PROVE  /\ late' \in [Boots -> Nat]
           /\ \A a \in Boots : a # b => late'[a] = late[a]
           /\ late'[b] # 0 => late'[b] = 1 /\ ownership.boot # b
<1>1. Current(b) <=> ownership.boot = b
  BY DEF IInv, Held, Current, is_current
<1>2. CASE acted /\ ~Current(b)
  <2>1. late[b] = 0
    BY <1>2 DEF IInv, Stale
  <2> QED BY <1>1, <1>2, <2>1 DEF Count, IInv, TypeOK
<1>3. CASE ~(acted /\ ~Current(b))
  BY <1>3 DEF Count, IInv, Stale, TypeOK
<1> QED BY <1>2, <1>3

\* RollbackExecutor::run_next, on an answer that may be stale by now.
LEMMA RunNextInv ==
    ASSUME IInv, NEW b \in Boots, RunNext(b)
    PROVE  IInv'
<1> DEFINE cur == cleared[b] = "current"
           ex == run_next(exec[b], cur)
           acted == ex.completed > exec[b].completed /\ ~ex.failed
<1> USE DEF IInv
<1>1. /\ exec' = [exec EXCEPT ![b] = ex]
      /\ undone' = IF acted THEN undone \cup {ex.completed} ELSE undone
      /\ Count(b, acted)
      /\ cleared' = [cleared EXCEPT ![b] = "unasked"]
      /\ cleared[b] # "unasked"
      /\ UNCHANGED <<plan, current, ownership, phase, command, comp, progress, record>>
  BY DEF RunNext, claim, reported
<1>2. /\ exec[b] \in Executor /\ exec[b].completed <= Steps
      /\ exec[b].completed \in Nat
  BY DEF TypeOK, Executor
<1>3. /\ ex \in Executor /\ ex.completed <= Steps /\ ex.completed \in Nat
      /\ \/ ex = exec[b]
         \/ /\ cur /\ ex.failed = exec[b].failed
            /\ ex.completed = exec[b].completed + 1
         \/ /\ ~cur /\ ex.failed /\ ~is_complete(exec[b])
            /\ ex.completed = exec[b].completed
  BY <1>2, RunNextEffect DEF Executor
<1>4. phase[b] = "owner"
  BY <1>1 DEF Held
<1>5. acted => cur
  BY <1>2, <1>3
<1>6. /\ late' \in [Boots -> Nat]
      /\ \A a \in Boots : a # b => late'[a] = late[a]
      /\ late'[b] # 0 => late'[b] = 1 /\ ownership.boot # b
  BY <1>1, <1>4, <1>5, CountEffect
<1>7. ex.completed = exec[b].completed \/ (acted /\ ex.completed = exec[b].completed + 1)
  BY <1>2, <1>3 DEF Blocked, TypeOK, Executor
<1>8. TypeOK'
  <2>1. undone' \subseteq 1..Steps
    <3>1. ex.completed \in 1..Steps \/ ~acted
      BY <1>2, <1>3, <1>7, RollbackConstants
    <3> QED BY <1>1, <3>1 DEF TypeOK
  <2> QED BY <1>1, <1>3, <1>6, <2>1 DEF TypeOK
<1>9. \A a \in Boots : /\ a # b => exec'[a] = exec[a] /\ cleared'[a] = cleared[a]
                       /\ exec'[b] = ex /\ cleared'[b] = "unasked"
  BY <1>1 DEF TypeOK
<1>10. Held' /\ OneOwnerPerGeneration'
  BY <1>1, <1>4, <1>6, <1>9 DEF Held, OneOwnerPerGeneration
<1>11. Stale'
  BY <1>1, <1>6, <1>9 DEF Stale
<1>12. Blocked'
  <2>1. ex.failed => ownership.boot # b /\ ~is_complete(ex)
    <3>1. CASE exec[b].failed
      BY <1>2, <1>3, <3>1 DEF Blocked, is_complete
    <3>2. CASE ~exec[b].failed
      BY <1>1, <1>2, <1>3, <3>2 DEF Stale, TypeOK, is_complete
    <3> QED BY <3>1, <3>2
  <2> QED BY <1>1, <1>9, <2>1 DEF Blocked, is_complete
<1>13. ReportedMeansUndone'
  BY <1>1 DEF ReportedMeansUndone
<1>14. CompletedMeansUndone'
  <2> SUFFICES ASSUME NEW a \in Boots PROVE 1..(exec'[a].completed) \subseteq undone'
    BY DEF CompletedMeansUndone
  <2>1. 1..exec[a].completed \subseteq undone /\ undone \subseteq undone'
    BY <1>1 DEF CompletedMeansUndone
  <2>2. CASE a # b
    BY <1>9, <2>1, <2>2
  <2>3. CASE a = b
    BY <1>1, <1>2, <1>7, <1>9, <2>1, <2>3
  <2> QED BY <2>2, <2>3
<1> QED BY <1>8, <1>10, <1>11, <1>12, <1>13, <1>14

\* Compensator::run, on an answer that may be stale by now.
LEMMA CompensateInv ==
    ASSUME IInv, NEW b \in Boots, Compensate(b)
    PROVE  IInv'
<1> DEFINE cur == cleared[b] = "current"
           rec == run(comp[b], cur)
           acted == rec.attempts > comp[b].attempts
<1> USE DEF IInv
<1>1. /\ comp' = [comp EXCEPT ![b] = rec]
      /\ Count(b, acted)
      /\ cleared' = [cleared EXCEPT ![b] = "unasked"]
      /\ cleared[b] # "unasked"
      /\ UNCHANGED <<plan, current, ownership, phase, command, exec, progress,
                     record, undone>>
  BY DEF Compensate, claim, reported
<1>2. comp[b] \in CompensationRecord
  BY DEF TypeOK
<1>3. rec \in CompensationRecord /\ (acted => cur)
  BY <1>2, CompensateEffect
<1>4. phase[b] = "owner"
  BY <1>1 DEF Held
<1>5. /\ late' \in [Boots -> Nat]
      /\ \A a \in Boots : a # b => late'[a] = late[a]
      /\ late'[b] # 0 => late'[b] = 1 /\ ownership.boot # b
  BY <1>1, <1>3, <1>4, CountEffect DEF Count
<1>6. TypeOK'
  BY <1>1, <1>3, <1>5 DEF TypeOK
<1>7. \A a \in Boots : /\ a # b => cleared'[a] = cleared[a]
                       /\ cleared'[b] = "unasked"
  BY <1>1 DEF TypeOK
<1>8. Held' /\ OneOwnerPerGeneration'
  BY <1>1, <1>4, <1>5, <1>7 DEF Held, OneOwnerPerGeneration
<1>9. Stale'
  BY <1>1, <1>5, <1>7 DEF Stale
<1>10. Blocked' /\ ReportedMeansUndone' /\ CompletedMeansUndone'
  BY <1>1, <1>7 DEF Blocked, is_complete, ReportedMeansUndone, CompletedMeansUndone
<1> QED BY <1>6, <1>8, <1>9, <1>10

\* Compensator::resume_failure touches the record only.
LEMMA ResumeFailureInv ==
    ASSUME IInv, NEW b \in Boots, ResumeFailure(b)
    PROVE  IInv'
<1> USE DEF IInv, ResumeFailure, claim, reported
<1>1. resume_failure(comp[b]) \in CompensationRecord
  BY DEF resume_failure, TypeOK, CompensationRecord
<1>2. TypeOK'
  BY <1>1 DEF TypeOK
<1>3. Held' /\ OneOwnerPerGeneration'
  BY DEF Held, OneOwnerPerGeneration
<1>4. Stale' /\ Blocked' /\ ReportedMeansUndone' /\ CompletedMeansUndone'
  BY DEF Stale, Blocked, is_complete, ReportedMeansUndone, CompletedMeansUndone
<1> QED BY <1>2, <1>3, <1>4

\* Reporting progress passes on what an executor counted.
LEMMA ReportInv ==
    ASSUME IInv, NEW b \in Boots, Report(b)
    PROVE  IInv'
<1> USE DEF IInv, Report, claim
<1>1. TypeOK'
  BY RollbackConstants DEF TypeOK, Executor
<1>2. Held' /\ OneOwnerPerGeneration' /\ Stale' /\ Blocked'
  BY DEF Held, OneOwnerPerGeneration, Stale, Blocked, is_complete
<1>3. ReportedMeansUndone' /\ CompletedMeansUndone'
  BY DEF ReportedMeansUndone, CompletedMeansUndone
<1> QED BY <1>1, <1>2, <1>3

\* The invariant holds in every state.
LEMMA Invariance == Spec => []IInv
<1>1. IInv /\ [Next]_vars => IInv'
  <2> SUFFICES ASSUME IInv, [Next]_vars PROVE IInv'
    OBVIOUS
  <2>1. ASSUME NEW b \in Boots,
               \/ Prepare(b) \/ Fence(b) \/ TakeOver(b)
               \/ AskAuthority(b) \/ RunNext(b) \/ Compensate(b)
               \/ ResumeFailure(b) \/ Report(b)
        PROVE  IInv'
    BY <2>1, PrepareInv, FenceInv, TakeOverInv, AskAuthorityInv, RunNextInv,
       CompensateInv, ResumeFailureInv, ReportInv
  <2>2. CASE UNCHANGED vars
    BY <2>2 DEF vars, IInv, TypeOK, Held, OneOwnerPerGeneration, Stale, Blocked,
                is_complete, ReportedMeansUndone, CompletedMeansUndone
  <2> QED BY <2>1, <2>2 DEF Next
<1> QED BY InitInv, <1>1, PTL DEF Spec

-----------------------------------------------------------------------------
(* The theorems.                                                           *)

\* Executors, records and the ownership stay well formed.
THEOREM TypeCorrect == Spec => []TypeOK
BY Invariance, PTL DEF IInv

\* Of the boots whose commands passed fence_recovery, transfer() lets at most
\* one own the recovery under any one generation.
THEOREM GenerationHasOneOwner == Spec => []OneOwnerPerGeneration
BY Invariance, PTL DEF IInv

\* No executor, run_next()'s own or a resumed one, counts a step that was not
\* executed.
THEOREM CompletedIsUndone == Spec => []CompletedMeansUndone
BY Invariance, PTL DEF IInv

\* A superseded owner acts at most once more, on the answer of is_current it
\* had already been given.
THEOREM LateActsBounded == Spec => []AtMostOneLateAct
<1>1. IInv => AtMostOneLateAct
  <2> SUFFICES ASSUME IInv, NEW b \in Boots PROVE late[b] <= 1
    BY DEF AtMostOneLateAct
  <2>1. late[b] = 0 \/ late[b] = 1
    BY DEF IInv, Stale
  <2> QED BY <2>1
<1> QED BY <1>1, Invariance, PTL

\* A completed executor is never marked failed, and a blocked one never
\* completes its plan.
THEOREM CompletionExcludesFailure == Spec => []CompleteOrFailed
<1>1. IInv => CompleteOrFailed
  BY DEF IInv, Blocked, CompleteOrFailed
<1> QED BY <1>1, Invariance, PTL

=============================================================================
