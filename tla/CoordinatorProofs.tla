-------------------------- MODULE CoordinatorProofs --------------------------
(***************************************************************************)
(* Proofs about Coordinator for any workers, clients and operations, any   *)
(* number of kills and restarts.                                           *)
(*                                                                         *)
(* The types come first, and with them what each step does to the          *)
(* operations (StepKinds): nothing that matters, a confirmation, the       *)
(* binding of an attempt, or a restart.  StepFrame says what else a step   *)
(* can change.  The invariant IInv then follows a completion from the      *)
(* dispatch that was sent, through the worker's queue, the work it does,   *)
(* its report and the stack of the thread that confirms it, to the outcome *)
(* in memory and in the file; a recovery generation from the transfer that *)
(* reaches it to the attempt that carries it; and an outcome from the save *)
(* that had it before it, through the runtimes a save has seen and torn,   *)
(* to the next start.  The last part adds Turns, the order in which a      *)
(* coordinator that serves a single request makes progress.                *)
(***************************************************************************)
EXTENDS Coordinator, OperationRuntimeProofs, SequenceTheorems

-----------------------------------------------------------------------------
(* The operators the steps are built from.                                 *)

\* A thread's locals begin empty.
LEMMA NoLocalType == NoLocal \in Locals
BY UnsetEnvelopeType DEF NoLocal, Locals

\* What a thread keeps on its stack.
LEMMA LocalType ==
    ASSUME TypeOK, NEW t \in Threads
    PROVE  /\ local[t] \in Locals /\ local[t].op \in Operations \cup {NoOp}
           /\ local[t].authority \in AuthorityEnvelope
           /\ local[t].conn \in Workers \cup {NoConn}
BY DEF TypeOK, Locals

\* A thread may replace its envelope or its connection.
LEMMA LocalsExcept ==
    ASSUME NEW l \in Locals, NEW a \in AuthorityEnvelope, NEW x \in Workers \cup {NoConn}
    PROVE  /\ [l EXCEPT !.authority = a] \in Locals
           /\ [l EXCEPT !.conn = x] \in Locals
           /\ [l EXCEPT !.authority = a, !.conn = x] \in Locals
BY DEF Locals

\* Nobody owns the recovery of a store that was just created or loaded.
LEMMA UnassignedType == Unassigned(NullId) \in Ownership(Attempts \cup {NullId})
BY DEF Unassigned, Ownership, RecoveryOwners

\* A state file that was just opened for writing holds nothing.
LEMMA NoFileType ==
    /\ NoFile.whole = FALSE /\ NoFile.ops = <<>> /\ DOMAIN NoFile.ops = {}
    /\ WellStored(NoFile.ops, NoFile.failures, NoFile.ownership)
    /\ \A o : /\ [NoFile EXCEPT !.ops = o].whole = FALSE
              /\ [NoFile EXCEPT !.ops = o].ops = o
              /\ [NoFile EXCEPT !.ops = o].failures = {}
              /\ [NoFile EXCEPT !.ops = o].ownership = Unassigned(NullId)
<1>1. NoFile.ops = <<>> /\ NoFile.failures = {}
      /\ NoFile.ownership = Unassigned(NullId)
  BY DEF NoFile
<1>2. DOMAIN <<>> = {} /\ <<>> \in [{} -> Runtime]
  OBVIOUS
<1>3. WellStored(NoFile.ops, NoFile.failures, NoFile.ownership)
  BY <1>1, <1>2, UnassignedType DEF WellStored
<1> QED BY <1>1, <1>2, <1>3 DEF NoFile

\* The envelope a DISPATCH request builds, of no recovery generation.
LEMMA FirstAttemptType ==
    ASSUME TypeOK
    PROVE  FirstAttempt \in AuthorityEnvelope /\ FirstAttempt.recovery_generation = 0
<1>1. next_id \in Attempts /\ 1 \in Nat
  BY IdsAssumption DEF TypeOK
<1>2. (IF g_workers = {} THEN NullId ELSE g_begin) \in Boots \cup {NullId}
  BY WorkersAssumption DEF TypeOK
<1> QED BY <1>1, <1>2 DEF FirstAttempt, UnsetEnvelope, AuthorityEnvelope

\* The envelope of a recovery attempt: of the next recovery generation.
LEMMA NewAttemptType ==
    ASSUME TypeOK, NEW cur \in AuthorityEnvelope
    PROVE  /\ new_attempt(cur) \in AuthorityEnvelope
           /\ new_attempt(cur).recovery_generation = cur.recovery_generation + 1
<1>1. next_id \in Attempts
  BY IdsAssumption DEF TypeOK
<1>2. /\ cur.attempt_generation + 1 \in Nat /\ cur.operation_generation + 1 \in Nat
      /\ cur.failure_generation + 1 \in Nat /\ cur.recovery_generation + 1 \in Nat
  BY DEF AuthorityEnvelope
<1> QED BY <1>1, <1>2 DEF new_attempt, AuthorityEnvelope

\* A registry asked about an operation it does not know answers with an unset
\* envelope.
LEMMA CurrentAuthorityType ==
    ASSUME TypeOK, NEW op
    PROVE  current_authority(op) \in AuthorityEnvelope
BY UnsetEnvelopeType DEF current_authority, TypeOK, WellStored, Runtime

\* RecoveryOwnership::transfer never falls behind the generation it is asked
\* for, granted or not.
LEMMA TransferEffect ==
    ASSUME NEW own \in Ownership(Attempts \cup {NullId}), NEW gen \in Nat \ {0},
           NEW boot \in Attempts,
           own.owner = "NONE" => own.generation = 0
    PROVE  LET new == transfer(own, "REPLACEMENT_WORKER", gen, boot) IN
           /\ new \in Ownership(Attempts \cup {NullId})
           /\ new.owner # "NONE"
           /\ gen <= new.generation /\ own.generation <= new.generation
BY DEF transfer, accepts_transfer, accepts_adopt, Ownership, RecoveryOwners

-----------------------------------------------------------------------------
(* The operations.                                                         *)

\* Every operation keeps its authority and its outcome.
OpsKept ==
    /\ DOMAIN ops' = DOMAIN ops /\ ops' \in [DOMAIN ops -> Runtime]
    /\ \A op \in DOMAIN ops : Keeps(ops[op], ops'[op])

\* A step that does not touch the registry.
LEMMA UnchangedKeeps ==
    ASSUME TypeOK, ops' = ops
    PROVE  OpsKept
BY DEF OpsKept, Keeps, TypeOK, WellStored

\* A report to the registry.
LEMMA UpdateKeeps ==
    ASSUME TypeOK, NEW op, NEW rt, op \in DOMAIN ops => Keeps(ops[op], rt),
           ops' = UpdateOp(op, rt)
    PROVE  OpsKept
<1>1. \A o \in DOMAIN ops : ops[o] \in Runtime /\ Keeps(ops[o], ops[o])
  BY DEF TypeOK, WellStored, Keeps
<1>2. DOMAIN ops' = DOMAIN ops
  BY DEF UpdateOp
<1>3. \A o \in DOMAIN ops : Keeps(ops[o], ops'[o])
  BY <1>1 DEF UpdateOp
<1>4. ops' \in [DOMAIN ops -> Runtime]
  BY <1>1 DEF UpdateOp, Keeps
<1> QED BY <1>2, <1>3, <1>4 DEF OpsKept

-----------------------------------------------------------------------------
(* Type correctness, and what each step does to the operations.            *)

\* The coordinator starts with nothing registered, stored or in flight.
LEMMA InitType == Init => TypeOK
<1> SUFFICES ASSUME Init PROVE TypeOK
  OBVIOUS
<1>1. WellStored(ops, failures, ownership)
  BY NoFileType DEF Init, NoFile
<1>2. /\ WellStored(disk.ops, disk.failures, disk.ownership) /\ disk.whole \in BOOLEAN
      /\ seen \in [DOMAIN seen -> SUBSET Runtime] /\ DOMAIN seen \subseteq DOMAIN ops
      /\ settled \subseteq Operations
  <2>1. /\ disk = NoFile /\ seen = <<>> /\ settled = {}
    BY DEF Init
  <2>2. DOMAIN seen = {} /\ <<>> \in [{} -> SUBSET Runtime]
    BY <2>1
  <2> QED BY <2>1, <2>2, NoFileType
<1>3. <<>> \in Seq(Workers) /\ <<>> \in Seq(Messages)
  BY EmptySeq
<1>4. /\ g_mu \in Threads \cup {NoConn} /\ g_workers \subseteq Workers
      /\ g_begin \in IF g_workers = {} THEN {NoConn} ELSE g_workers
      /\ g_reg_order \in Seq(Workers) /\ g_running_conn \in Workers \cup {NoConn}
      /\ g_current_op \in Operations \cup {NoOp} /\ g_finished \in BOOLEAN
  BY <1>3 DEF Init
<1>5. /\ local \in [Threads -> Locals]
      /\ task \in [Workers -> Messages \cup {NoLocal}]
      /\ inbox \in [Workers -> Seq(Messages)] /\ outbox \in [Workers -> Seq(Messages)]
  BY <1>3, NoLocalType DEF Init
<1>6. next_id \in Nat /\ kills \in 0..MaxKills /\ restarts \in 0..MaxRestarts
  BY BoundsAssumption DEF Init
<1> QED BY <1>1, <1>2, <1>4, <1>5, <1>6 DEF Init, TypeOK, Locals

\* Messages carry what they are given.
LEMMA MessageType ==
    ASSUME NEW type \in {"REGISTER", "RUNNING", "COMPLETE", "FAILURE", "DISPATCH"},
           NEW op \in Operations \cup {NoOp}, NEW a \in AuthorityEnvelope
    PROVE  Message(type, op, a) \in Messages
BY DEF Message, Messages

\* A worker takes what was sent to it.
LEMMA InboxHead ==
    ASSUME TypeOK, NEW w \in Workers, inbox[w] # <<>>
    PROVE  /\ Head(inbox[w]) \in Messages /\ Tail(inbox[w]) \in Seq(Messages)
           /\ Head(inbox[w]).op \in Operations \cup {NoOp}
           /\ Head(inbox[w]).authority \in AuthorityEnvelope
<1>1. inbox[w] \in Seq(Messages)
  BY DEF TypeOK
<1>2. Head(inbox[w]) \in Messages /\ Tail(inbox[w]) \in Seq(Messages)
  BY <1>1, HeadTailProperties
<1> QED BY <1>2 DEF Messages

\* A connection reads what its worker sent.
LEMMA OutboxHead ==
    ASSUME TypeOK, NEW w \in Workers, outbox[w] # <<>>
    PROVE  /\ Head(outbox[w]) \in Messages /\ Tail(outbox[w]) \in Seq(Messages)
           /\ Head(outbox[w]).op \in Operations \cup {NoOp}
           /\ Head(outbox[w]).authority \in AuthorityEnvelope
<1>1. outbox[w] \in Seq(Messages)
  BY DEF TypeOK
<1>2. Head(outbox[w]) \in Messages /\ Tail(outbox[w]) \in Seq(Messages)
  BY <1>1, HeadTailProperties
<1> QED BY <1>2 DEF Messages

\* A worker appends to what it sent before.
LEMMA OutboxAppend ==
    ASSUME TypeOK, NEW w \in Workers, NEW m \in Messages
    PROVE  Append(outbox[w], m) \in Seq(Messages)
BY AppendProperties DEF TypeOK

\* The tasks a worker works on are messages.
LEMMA TaskType ==
    ASSUME TypeOK, NEW w \in Workers
    PROVE  task[w].op \in Operations \cup {NoOp} /\ task[w].authority \in AuthorityEnvelope
BY UnsetEnvelopeType DEF TypeOK, Messages, NoLocal

\* The steps of the worker processes, and their end.
LEMMA WorkerType ==
    ASSUME TypeOK, NEW w \in Workers,
           WorkerStart(w) \/ KillWorker(w) \/ WorkerStep(w)
    PROVE  TypeOK' /\ ops' = ops
<1> USE DEF TypeOK, file, globals, store, bounds, history
<1>1. CASE WorkerStart(w)
  <2>1. \A m \in Messages : <<m>> \in Seq(Messages)
    OBVIOUS
  <2>2. <<Message("REGISTER", NoOp, UnsetEnvelope)>> \in Seq(Messages)
    BY <2>1, MessageType, UnsetEnvelopeType
  <2> QED BY <1>1, <2>2 DEF WorkerStart, Goto
<1>2. CASE KillWorker(w)
  <2>1. PICK n \in 0..Len(outbox[w]) : outbox' = [outbox EXCEPT ![w] = SubSeq(@, 1, n)]
    BY <1>2 DEF KillWorker
  <2>2. n \in Int /\ \A i \in 1..n : outbox[w][i] \in Messages
    BY <2>1, ElementOfSeq
  <2>3. SubSeq(outbox[w], 1, n) \in Seq(Messages)
    BY <2>2, SubSeqProperties
  <2>4. kills + 1 \in 0..MaxKills
    <3>1. kills < MaxKills
      BY <1>2 DEF KillWorker
    <3>2. kills \in Nat /\ MaxKills \in Nat
      BY BoundsAssumption
    <3> HIDE DEF TypeOK
    <3> QED BY <3>1, <3>2
  <2> QED BY <1>2, <2>1, <2>3, <2>4 DEF KillWorker
<1>3. CASE WorkerReceive(w)
  <2> DEFINE m == Head(inbox[w])
             running == Message("RUNNING", m.op, m.authority)
  <2>1. m \in Messages /\ Tail(inbox[w]) \in Seq(Messages) /\ running \in Messages
    BY <1>3, InboxHead, MessageType DEF WorkerReceive
  <2>2. Append(outbox[w], running) \in Seq(Messages)
    BY <2>1, OutboxAppend
  <2> QED BY <1>3, <2>1, <2>2 DEF WorkerReceive
<1>4. CASE WorkerEffect(w)
  BY <1>4 DEF WorkerEffect
<1>5. CASE WorkerReport(w)
  <2> DEFINE type == IF w \in FailWorkers THEN "FAILURE" ELSE "COMPLETE"
             m == Message(type, task[w].op, task[w].authority)
  <2>1. m \in Messages
    BY TaskType, MessageType
  <2>2. Append(outbox[w], m) \in Seq(Messages)
    BY <2>1, OutboxAppend
  <2>3. reported' \subseteq Messages
    BY <1>5, <2>1 DEF WorkerReport
  <2> QED BY <1>5, <2>2, <2>3 DEF WorkerReport
<1>6. CASE WorkerCoordinatorLost(w)
  BY <1>6 DEF WorkerCoordinatorLost
<1> QED BY <1>1, <1>2, <1>3, <1>4, <1>5, <1>6 DEF WorkerStep

\* The registry's part of a handler: a report keeps the store well formed.
LEMMA KeptType ==
    ASSUME TypeOK, OpsKept
    PROVE  \A f, own : WellStored(ops, f, own) => WellStored(ops', f, own)
BY DEF OpsKept, TypeOK, WellStored

\* The state file and the save under way are well formed.
FileOK ==
    /\ WellStored(disk.ops, disk.failures, disk.ownership) /\ disk.whole \in BOOLEAN
    /\ seen \in [DOMAIN seen -> SUBSET Runtime] /\ DOMAIN seen \subseteq DOMAIN ops
    /\ settled \subseteq Operations

\* What a save may see of a runtime that is changed meanwhile are runtimes.
LEMMA ObserveType ==
    ASSUME TypeOK, UNCHANGED <<disk, settled>>, Observe,
           DOMAIN ops' = DOMAIN ops, ops' \in [DOMAIN ops -> Runtime]
    PROVE  FileOK'
<1>1. DOMAIN seen' = DOMAIN seen /\ DOMAIN seen' \subseteq DOMAIN ops'
  BY DEF Observe, TypeOK
<1>2. \A op \in DOMAIN seen : seen'[op] \in SUBSET Runtime
  BY DEF Observe, TypeOK
<1>3. seen' \in [DOMAIN seen' -> SUBSET Runtime]
  BY <1>1, <1>2 DEF Observe
<1> QED BY <1>1, <1>3 DEF FileOK, TypeOK

\* A step that does not touch the file, of a registry that forgets nothing.
LEMMA FileKept ==
    ASSUME TypeOK, UNCHANGED file, DOMAIN ops \subseteq DOMAIN ops'
    PROVE  FileOK'
BY DEF TypeOK, FileOK, file

\* A completion is reported to the registry.
LEMMA ReportStepType ==
    ASSUME TypeOK, NEW t \in Threads, NEW m \in Messages, ReportStep(t, m)
    PROVE  /\ OpsKept
           /\ WellStored(ops', failures', ownership')
           /\ FileOK'
           /\ pc' \in [Threads -> {"start", "recv", "confirm", "ack", "finish", "save",
                           "bind", "send", "mark", "run", "check", "own",
                           "build", "record", "rebind", "decide", "ended"}]
           /\ local' \in [Threads -> Locals]
           /\ \A u \in Threads : pc'[u] = "bind" => local'[u].op \in Operations
           /\ UNCHANGED <<g_mu, globals, failures, ownership, disk, settled, bounds,
                           history>>
<1>1. OpsKept
  <2>1. m.op \in DOMAIN ops =>
            Keeps(ops[m.op], report_completion(ops[m.op], m.authority, FALSE))
    BY ReportCompletionKeeps DEF TypeOK, WellStored
  <2> QED BY <2>1, UpdateKeeps DEF ReportStep
<1>2. WellStored(ops', failures, ownership)
  BY <1>1, KeptType DEF TypeOK
<1>3. [NoLocal EXCEPT !.op = m.op, !.authority = m.authority] \in Locals
  BY NoLocalType DEF Locals, Messages
<1>4. local' \in [Threads -> Locals]
  BY <1>3, NoLocalType DEF ReportStep, TypeOK
<1>5. \A u \in Threads : pc'[u] = "bind" => local'[u].op \in Operations
  BY DEF ReportStep, TypeOK, Goto, Back
<1>6. FileOK'
  BY <1>1, ObserveType DEF ReportStep, OpsKept
<1> QED BY <1>1, <1>2, <1>4, <1>5, <1>6 DEF ReportStep, TypeOK, Goto, Back

\* The handlers of what workers send.
LEMMA HandlerType ==
    ASSUME TypeOK, NEW w \in Workers,
           HandleRegister(w) \/ HandleRunning(w) \/ HandleFailure(w) \/ HandleComplete(w)
    PROVE  TypeOK' /\ OpsKept
<1> DEFINE m == Head(outbox[w])
<1>1. /\ outbox[w] # <<>> /\ outbox' = [outbox EXCEPT ![w] = Tail(@)]
      /\ UNCHANGED <<wstate, task, inbox>>
  BY DEF HandleRegister, HandleRunning, HandleFailure, HandleComplete, Receives
<1>2. /\ m \in Messages /\ Tail(outbox[w]) \in Seq(Messages)
      /\ m.op \in Operations \cup {NoOp} /\ m.authority \in AuthorityEnvelope
  BY <1>1, OutboxHead
<1>3. outbox' \in [Workers -> Seq(Messages)]
  BY <1>1, <1>2 DEF TypeOK
<1> HIDE DEF m
<1>4. CASE HandleRegister(w)
  <2>1. Append(g_reg_order, w) \in Seq(Workers)
    BY AppendProperties DEF TypeOK
  <2>2. OpsKept
    BY <1>4, UnchangedKeeps DEF HandleRegister, store
  <2> QED BY <1>1, <1>3, <1>4, <2>1, <2>2 DEF HandleRegister, TypeOK, file, store, bounds, history
<1>5. CASE HandleRunning(w)
  <2>1. m.op \in DOMAIN ops => Keeps(ops[m.op], run(ops[m.op], m.authority))
    BY RunKeeps DEF TypeOK, WellStored
  <2>2. OpsKept
    BY <1>5, <2>1, UpdateKeeps DEF HandleRunning, m
  <2>3. WellStored(ops', failures, ownership)
    BY <2>2, KeptType DEF TypeOK
  <2>4. FileOK'
    BY <1>5, <2>2, FileKept DEF HandleRunning, OpsKept
  <2> QED BY <1>1, <1>3, <1>5, <2>2, <2>3, <2>4
          DEF HandleRunning, TypeOK, FileOK, globals, bounds, history
<1>6. CASE HandleFailure(w)
  <2>1. m.op \in DOMAIN ops =>
            Keeps(ops[m.op], report_failure(ops[m.op], m.authority, FALSE))
    BY ReportFailureKeeps DEF TypeOK, WellStored
  <2>2. OpsKept
    BY <1>6, <2>1, UpdateKeeps DEF HandleFailure, m
  <2>3. WellStored(ops', failures, ownership)
    BY <2>2, KeptType DEF TypeOK
  <2>4. FileOK'
    BY <1>6, <2>2, FileKept DEF HandleFailure, OpsKept
  <2> QED BY <1>1, <1>3, <1>6, <2>2, <2>3, <2>4
          DEF HandleFailure, TypeOK, FileOK, globals, bounds, history
<1>7. CASE HandleComplete(w)
  <2>1. ReportStep(w, m) /\ w \in Threads
    BY <1>7 DEF HandleComplete, m, Threads
  <2> QED BY <1>1, <1>2, <1>3, <2>1, ReportStepType DEF TypeOK, FileOK, globals, bounds,
          history, Locals
<1> QED BY <1>4, <1>5, <1>6, <1>7

\* The operations after a confirmation by thread t.
OpsConfirmed(t) ==
    /\ DOMAIN ops' = DOMAIN ops /\ ops' \in [DOMAIN ops -> Runtime]
    /\ \A o \in DOMAIN ops :
           \/ ops'[o] = ops[o]
           \/ o = local[t].op /\ Confirms(ops[o], local[t].authority, ops'[o])

\* The operations after attempt a was bound to op, known or not.
OpsBound(op, a) ==
    /\ DOMAIN ops \subseteq DOMAIN ops' /\ DOMAIN ops' \subseteq DOMAIN ops \cup {op}
    /\ ops' \in [DOMAIN ops' -> Runtime]
    /\ \A o \in DOMAIN ops : o # op => ops'[o] = ops[o]
    /\ op \in DOMAIN ops => Rebinds(ops[op], a, ops'[op])
    /\ op \in DOMAIN ops' \ DOMAIN ops =>
           /\ ~ops'[op].terminal_recorded /\ ops'[op].terminal = UnsetEnvelope
           /\ ops'[op].authority = a

\* A completion delivered again, and the steps that follow an accepted one.
LEMMA CompletionType ==
    ASSUME TypeOK, NEW t \in Threads,
           \/ AckStep(t) \/ FinishStep(t) \/ WriteStep(t) \/ SaveStep(t)
           \/ t \in Clients /\ ClientReplay(t)
    PROVE  TypeOK' /\ OpsKept
<1>1. CASE AckStep(t)
  BY <1>1, UnchangedKeeps
     DEF AckStep, TypeOK, file, globals, store, processes, bounds, Goto
<1>2. CASE FinishStep(t)
  <2>1. FileOK'
    <3>1. CASE UNCHANGED file
      BY <1>2, <3>1 DEF FinishStep, TypeOK, FileOK, file, store
    <3>2. CASE /\ disk' = NoFile /\ seen' = [op \in DOMAIN ops |-> {ops[op]}]
               /\ settled' = {op \in DOMAIN ops : ops[op].terminal_recorded}
      <4>1. seen' \in [DOMAIN seen' -> SUBSET Runtime] /\ DOMAIN seen' = DOMAIN ops
        BY <3>2 DEF TypeOK, WellStored
      <4> QED BY <1>2, <3>2, <4>1, NoFileType DEF FinishStep, TypeOK, WellStored, FileOK, store
    <3> QED BY <1>2, <3>1, <3>2 DEF FinishStep
  <2>2. /\ g_mu' \in Threads \cup {NoConn}
        /\ pc' = [pc EXCEPT ![t] = "save"] \/ pc' = [pc EXCEPT ![t] = Back(t)]
        /\ local' = local \/ local' = [local EXCEPT ![t] = NoLocal]
    BY <1>2 DEF FinishStep, TypeOK, Goto
  <2>3. local' \in [Threads -> Locals]
    BY <2>2, NoLocalType DEF TypeOK
  <2>4. \A u \in Threads : pc'[u] = "bind" => pc[u] = "bind" /\ local'[u] = local[u]
    BY <1>2, <2>2 DEF FinishStep, TypeOK, Back, Goto
  <2>5. pc' \in [Threads -> {"start", "recv", "confirm", "ack", "finish", "save",
                           "bind", "send", "mark", "run", "check", "own",
                           "build", "record", "rebind", "decide", "ended"}]
    BY <2>2 DEF TypeOK, Back
  <2> QED BY <1>2, <2>1, <2>2, <2>3, <2>4, <2>5, UnchangedKeeps
          DEF FinishStep, TypeOK, FileOK, store, processes, bounds, history
<1>3. CASE SaveStep(t)
  <2>1. FileOK'
    <3>1. /\ disk'.whole = TRUE /\ disk'.ops = disk.ops
          /\ disk'.failures = failures /\ disk'.ownership = ownership
          /\ UNCHANGED <<ops, seen, settled>>
      BY <1>3 DEF SaveStep, store
    <3>2. WellStored(disk'.ops, disk'.failures, disk'.ownership)
      BY <3>1 DEF TypeOK, WellStored
    <3> QED BY <3>1, <3>2 DEF TypeOK, FileOK
  <2> QED BY <1>3, <2>1, UnchangedKeeps, NoLocalType
          DEF SaveStep, TypeOK, FileOK, globals, store, processes, bounds, history, Goto, Back
<1>5. CASE WriteStep(t)
  <2>0. PICK op \in DOMAIN seen : \E r \in TornRuntimes(seen[op]) :
            /\ disk' = [NoFile EXCEPT !.ops = [o \in DOMAIN disk.ops \cup {op} |->
                                                 IF o = op THEN r ELSE disk.ops[o]]]
            /\ seen' = [o \in DOMAIN seen \ {op} |-> {ops[o]}]
    BY <1>5 DEF WriteStep
  <2>1. PICK r \in TornRuntimes(seen[op]) :
            /\ disk' = [NoFile EXCEPT !.ops = [o \in DOMAIN disk.ops \cup {op} |->
                                                 IF o = op THEN r ELSE disk.ops[o]]]
            /\ seen' = [o \in DOMAIN seen \ {op} |-> {ops[o]}]
    BY <2>0
  <2>2. op \in Operations /\ r \in Runtime
    BY TornRuntime DEF TypeOK, WellStored
  <2>3. DOMAIN seen' \subseteq DOMAIN ops /\ seen' \in [DOMAIN seen' -> SUBSET Runtime]
    BY <2>1 DEF TypeOK, WellStored
  <2>4. WellStored(disk'.ops, disk'.failures, disk'.ownership) /\ disk'.whole \in BOOLEAN
    <3> DEFINE o == [q \in DOMAIN disk.ops \cup {op} |-> IF q = op THEN r ELSE disk.ops[q]]
    <3>1. DOMAIN o \subseteq Operations /\ o \in [DOMAIN o -> Runtime]
      BY <2>2 DEF TypeOK, WellStored
    <3>2. /\ disk'.whole = FALSE /\ disk'.ops = o /\ disk'.failures = {}
          /\ disk'.ownership = Unassigned(NullId)
      BY <2>1, NoFileType
    <3> HIDE DEF o
    <3> QED BY <3>1, <3>2, UnassignedType DEF WellStored
  <2> QED BY <1>5, <2>3, <2>4, UnchangedKeeps
          DEF WriteStep, TypeOK, file, globals, store, processes, bounds, history
<1>4. CASE t \in Clients /\ ClientReplay(t)
  <2>1. PICK m \in Messages : ReportStep(t, m)
    BY <1>4 DEF ClientReplay, TypeOK
  <2> QED BY <1>4, <2>1, ReportStepType
          DEF ClientReplay, TypeOK, FileOK, globals, processes, bounds, history
<1> QED BY <1>1, <1>2, <1>3, <1>4, <1>5

\* The confirmation of a completion.
LEMMA ConfirmType ==
    ASSUME TypeOK, NEW t \in Threads, ConfirmStep(t)
    PROVE  TypeOK' /\ OpsConfirmed(t)
<1> DEFINE l == local[t]
           rt == confirm_completion(ops[l.op], l.authority)
<1>1. l.authority \in AuthorityEnvelope /\ \A o \in DOMAIN ops : ops[o] \in Runtime
  BY LocalType DEF TypeOK, WellStored
<1>2. l.op \in DOMAIN ops => rt = ops[l.op] \/ Confirms(ops[l.op], l.authority, rt)
  BY <1>1, ConfirmConfirms
<1>3. ops' = UpdateOp(l.op, rt)
  BY DEF ConfirmStep
<1> HIDE DEF rt
<1>4. OpsConfirmed(t)
  BY <1>1, <1>2, <1>3 DEF UpdateOp, OpsConfirmed, Confirms
<1>5. WellStored(ops', failures, ownership)
  BY <1>4 DEF OpsConfirmed, TypeOK, WellStored
<1>6. FileOK'
  BY <1>4, ObserveType DEF ConfirmStep, OpsConfirmed
<1> QED BY <1>4, <1>5, <1>6
        DEF ConfirmStep, TypeOK, FileOK, globals, processes, bounds, history, Goto

\* A client's request: the envelope of a first attempt, and its binding.
LEMMA ClientType ==
    ASSUME TypeOK, NEW c \in Clients, ClientDispatch(c) \/ BindFirst(c) \/ RunStep(c)
    PROVE  /\ TypeOK'
           /\ OpsKept \/ (BindFirst(c) /\ OpsBound(local[c].op, local[c].authority))
<1>0. c \in Threads
  BY DEF Threads
<1>1. CASE ClientDispatch(c)
  <2>1. PICK op \in Operations :
            local' = [local EXCEPT ![c] = [op |-> op, authority |-> FirstAttempt,
                                           conn |-> NoConn]]
    BY <1>1 DEF ClientDispatch
  <2>2. [op |-> op, authority |-> FirstAttempt, conn |-> NoConn] \in Locals
    BY FirstAttemptType DEF Locals
  <2>3. local' \in [Threads -> Locals]
    BY <2>1, <2>2 DEF TypeOK, Locals
  <2>4. \A u \in Threads : pc'[u] = "bind" => local'[u].op \in Operations
    BY <1>0, <1>1, <2>1 DEF ClientDispatch, TypeOK, Goto
  <2> QED BY <1>1, <2>3, <2>4, UnchangedKeeps
          DEF ClientDispatch, TypeOK, file, globals, store, processes, history, Goto
<1>2. CASE BindFirst(c) /\ g_workers = {}
  BY <1>2, UnchangedKeeps
     DEF BindFirst, TypeOK, file, globals, processes, bounds, history, Goto
<1>3. CASE BindFirst(c) /\ g_workers # {}
  <2> DEFINE op == local[c].op
             a == local[c].authority
             r == IF op \in DOMAIN ops THEN ops[op] ELSE NewRuntime(a)
             rt == dispatch(r, a)
  <2>1. op \in Operations /\ a \in AuthorityEnvelope
    BY <1>0, <1>3, LocalType DEF BindFirst, TypeOK
  <2>2. /\ r \in Runtime
        /\ op \notin DOMAIN ops => ~r.terminal_recorded /\ r.terminal = UnsetEnvelope
    <3>1. CASE op \in DOMAIN ops
      BY <3>1 DEF TypeOK, WellStored
    <3>2. CASE op \notin DOMAIN ops
      BY <2>1, <3>2, NewRuntimeType DEF NewRuntime
    <3> QED BY <3>1, <3>2
  <2>3. Rebinds(r, a, rt)
    BY <2>1, <2>2, DispatchRebinds
  <2>4. /\ ops' = [o \in DOMAIN ops \cup {op} |-> IF o = op THEN rt ELSE ops[o]]
        /\ local' = [local EXCEPT ![c].conn = g_begin]
        /\ pc' = [pc EXCEPT ![c] = "send"]
    BY <1>3 DEF BindFirst, create_and_dispatch, Goto
  <2>5. OpsBound(op, a)
    <3> HIDE DEF rt, op, a
    <3>1. \A o \in DOMAIN ops : ops[o] \in Runtime
      BY DEF TypeOK, WellStored
    <3>2. rt \in Runtime
      BY <2>3 DEF Rebinds
    <3> QED BY <2>2, <2>3, <2>4, <3>1, <3>2 DEF OpsBound, Rebinds
  <2>6. WellStored(ops', failures, ownership)
    BY <2>1, <2>5 DEF OpsBound, TypeOK, WellStored
  <2>7. g_begin \in Workers
    BY <1>3 DEF TypeOK
  <2>8. local' \in [Threads -> Locals]
    <3>1. [local[c] EXCEPT !.conn = g_begin] \in Locals
      BY <1>0, <2>1, <2>7, LocalsExcept DEF TypeOK
    <3>2. local' = [local EXCEPT ![c] = [local[c] EXCEPT !.conn = g_begin]]
      BY <2>4
    <3> QED BY <3>1, <3>2 DEF TypeOK, Locals
  <2>9. \A u \in Threads : pc'[u] = "bind" => local'[u].op \in Operations
    BY <1>0, <2>4 DEF TypeOK
  <2> QED BY <1>3, <2>4, <2>5, <2>6, <2>8, <2>9
          DEF BindFirst, TypeOK, file, globals, processes, bounds, history
<1>4. CASE RunStep(c)
  <2> DEFINE l == local[c]
  <2>1. l.op \in DOMAIN ops => Keeps(ops[l.op], run(ops[l.op], l.authority))
    BY RunKeeps DEF TypeOK, WellStored
  <2>2. OpsKept
    BY <1>4, <2>1, UpdateKeeps DEF RunStep
  <2>3. WellStored(ops', failures, ownership)
    BY <2>2, KeptType DEF TypeOK
  <2>4. FileOK'
    BY <1>4, <2>2, ObserveType DEF RunStep, OpsKept
  <2> QED BY <1>4, <2>2, <2>3, <2>4
          DEF RunStep, TypeOK, FileOK, globals, processes, bounds, history, Goto
<1> QED BY <1>1, <1>2, <1>3, <1>4

\* A DISPATCH is sent, and the connection noted.
LEMMA DispatchType ==
    ASSUME TypeOK, NEW t \in Threads, DispatchStep(t)
    PROVE  TypeOK' /\ OpsKept
<1>1. DispatchedOp(t) \in Operations \cup {NoOp}
  BY LocalType DEF DispatchedOp, TypeOK
<1>2. CASE SendStep(t)
  <2> DEFINE w == local[t].conn
             m == Message("DISPATCH", DispatchedOp(t), local[t].authority)
  <2>1. m \in Messages
    BY <1>1, LocalType, MessageType
  <2> HIDE DEF m
  <2>2. inbox' \in [Workers -> Seq(Messages)]
    <3>1. inbox' = inbox \/ inbox' = [inbox EXCEPT ![w] = Append(inbox[w], m)]
      BY <1>2 DEF SendStep, m
    <3>2. w \in Workers => Append(inbox[w], m) \in Seq(Messages)
      BY <2>1, AppendProperties DEF TypeOK
    <3> QED BY <3>1, <3>2 DEF TypeOK
  <2> QED BY <1>2, <2>2, UnchangedKeeps
          DEF SendStep, TypeOK, file, globals, store, bounds, Goto
<1>3. CASE MarkStep(t)
  BY <1>1, <1>3, LocalType, UnchangedKeeps
     DEF MarkStep, TypeOK, file, store, processes, bounds, history, Goto
<1> QED BY <1>2, <1>3 DEF DispatchStep

\* transfer() yields an ownership, granted or not.
LEMMA TransferType ==
    ASSUME NEW own \in Ownership(Attempts \cup {NullId}), NEW gen \in Nat,
           NEW boot \in Attempts
    PROVE  transfer(own, "REPLACEMENT_WORKER", gen, boot)
               \in Ownership(Attempts \cup {NullId})
BY DEF transfer, Ownership, RecoveryOwners

\* The replacement, if there is one, is a worker.
LEMMA ReplacementType ==
    ASSUME TypeOK
    PROVE  Replacement \in Workers \cup {NoConn}
BY DEF Replacement, TypeOK

\* The recovery of a lost worker, up to the binding of the fresh attempt.
LEMMA RecoveryType ==
    ASSUME TypeOK, NEW w \in Workers,
           \/ ConnectionLost(w) \/ CheckFinished(w) \/ TransferOwnership(w)
           \/ BuildRecord(w) \/ RecordLoss(w) \/ DecideStep(w)
    PROVE  TypeOK' /\ OpsKept
<1>0. w \in Threads
  BY DEF Threads
<1>1. CASE ConnectionLost(w)
  <2>1. /\ g_workers' \subseteq Workers
        /\ g_begin' \in IF g_workers' = {} THEN {NoConn} ELSE g_workers'
        /\ g_running_conn' \in Workers \cup {NoConn}
    <3>1. CASE g_running_conn = w
      BY <1>1, <3>1 DEF ConnectionLost, TypeOK
    <3>2. CASE g_running_conn # w
      BY <1>1, <3>2 DEF ConnectionLost, TypeOK
    <3> QED BY <3>1, <3>2
  <2>2. pc' = [pc EXCEPT ![w] = "check"] \/ pc' = [pc EXCEPT ![w] = "ended"]
    BY <1>1 DEF ConnectionLost, Goto
  <2> QED BY <1>1, <2>1, <2>2, UnchangedKeeps
          DEF ConnectionLost, TypeOK, file, store, processes, bounds, history
<1>2. CASE CheckFinished(w)
  BY <1>2, UnchangedKeeps
     DEF CheckFinished, TypeOK, file, globals, store, processes, bounds, history, Goto
<1>3. CASE TransferOwnership(w)
  <2> DEFINE cur == current_authority(g_current_op)
             gen == cur.recovery_generation + 1
  <2>1. cur \in AuthorityEnvelope
    BY CurrentAuthorityType
  <2>2. /\ gen \in Nat /\ next_id \in Attempts
        /\ ownership \in Ownership(Attempts \cup {NullId})
    <3> HIDE DEF cur
    <3>1. cur.recovery_generation \in Nat
      BY <2>1 DEF AuthorityEnvelope
    <3> QED BY <3>1, IdsAssumption DEF TypeOK, WellStored
  <2>3. /\ ownership' = transfer(ownership, "REPLACEMENT_WORKER", gen, next_id)
        /\ local' = [local EXCEPT ![w] = [local[w] EXCEPT !.authority = cur]]
    BY <1>3 DEF TransferOwnership
  <2> HIDE DEF cur, gen
  <2>4. WellStored(ops, failures, ownership')
    BY <2>2, <2>3, TransferType DEF TypeOK, WellStored
  <2>5. [local[w] EXCEPT !.authority = cur] \in Locals
    BY <1>0, <2>1, LocalsExcept DEF TypeOK
  <2>6. local' \in [Threads -> Locals]
    BY <2>3, <2>5 DEF TypeOK, Locals
  <2>7. \A u \in Threads : pc'[u] = "bind" => local'[u].op \in Operations
    BY <1>0, <1>3, <2>3 DEF TransferOwnership, TypeOK, Goto
  <2>8. OpsKept
    BY <1>3, UnchangedKeeps DEF TransferOwnership
  <2>9. next_id' \in Nat
    <3>1. next_id' = next_id + 1 /\ next_id \in Nat
      BY <1>3 DEF TransferOwnership, TypeOK
    <3> QED BY <3>1
  <2> QED BY <1>3, <2>4, <2>6, <2>7, <2>8, <2>9
          DEF TransferOwnership, TypeOK, file, globals, processes, history, Goto
<1>4. CASE RecordLoss(w)
  <2> DEFINE cur == local[w].authority
             r == ops[g_current_op]
  <2>1. g_current_op \in DOMAIN ops => Keeps(r, report_failure(r, cur, TRUE))
    BY ReportFailureKeeps DEF TypeOK, WellStored
  <2>2. OpsKept
    BY <1>4, <2>1, UpdateKeeps DEF RecordLoss
  <2>3. failures' \subseteq [lost : Workers, op : Operations, authority : AuthorityEnvelope]
    <3>1. \/ failures' = failures
          \/ /\ local[w].op # NoOp
             /\ failures' = failures \cup {[lost |-> w, op |-> local[w].op, authority |-> cur]}
      BY <1>4 DEF RecordLoss
    <3>2. /\ cur \in AuthorityEnvelope /\ local[w].op \in Operations \cup {NoOp}
          /\ failures \subseteq [lost : Workers, op : Operations, authority : AuthorityEnvelope]
      BY <1>0, LocalType DEF TypeOK, WellStored
    <3> HIDE DEF cur
    <3> QED BY <3>1, <3>2
  <2>4. WellStored(ops', failures', ownership)
    BY <2>2, <2>3 DEF OpsKept, TypeOK, WellStored
  <2>5. FileOK'
    BY <1>4, <2>2, FileKept DEF RecordLoss, OpsKept
  <2> QED BY <1>4, <2>2, <2>4, <2>5
          DEF RecordLoss, TypeOK, FileOK, globals, processes, bounds, history, Goto
<1>5. CASE DecideStep(w)
  BY <1>5, UnchangedKeeps
     DEF DecideStep, TypeOK, file, globals, store, processes, bounds, history, Goto
<1>6. CASE BuildRecord(w)
  <2>1. /\ local' = [local EXCEPT ![w] = [local[w] EXCEPT !.op = g_current_op]]
        /\ pc' = [pc EXCEPT ![w] = "record"]
    BY <1>6 DEF BuildRecord, Goto
  <2>2. [local[w] EXCEPT !.op = g_current_op] \in Locals
    <3>1. local[w] \in Locals /\ g_current_op \in Operations \cup {NoOp}
      BY <1>0 DEF TypeOK
    <3> QED BY <3>1 DEF Locals
  <2>3. local' \in [Threads -> Locals]
    BY <2>1, <2>2 DEF TypeOK
  <2>4. \A u \in Threads : pc'[u] = "bind" => local'[u].op \in Operations
    BY <1>0, <2>1 DEF TypeOK
  <2> QED BY <1>6, <2>1, <2>3, <2>4, UnchangedKeeps
          DEF BuildRecord, TypeOK, file, globals, store, processes, bounds, history
<1> QED BY <1>1, <1>2, <1>3, <1>4, <1>5, <1>6

\* The binding of the fresh attempt, if there is somebody to run it.
LEMMA RebindType ==
    ASSUME TypeOK, NEW w \in Workers, RebindStep(w)
    PROVE  /\ TypeOK'
           /\ OpsKept \/ OpsBound(g_current_op, new_attempt(local[w].authority))
<1> DEFINE fresh == new_attempt(local[w].authority)
           rt == dispatch(ops[g_current_op], fresh)
           l == [local[w] EXCEPT !.authority = fresh, !.conn = Replacement]
<1>0. w \in Threads
  BY DEF Threads
<1>1. fresh \in AuthorityEnvelope
  BY <1>0, LocalType, NewAttemptType
<1>2. \A o \in DOMAIN ops : ops[o] \in Runtime
  BY DEF TypeOK, WellStored
<1>3. g_current_op \in DOMAIN ops => Rebinds(ops[g_current_op], fresh, rt)
  BY <1>1, <1>2, DispatchRebinds
<1>4. /\ local' = [local EXCEPT ![w] = l]
      /\ pc' = [pc EXCEPT ![w] = "decide"]
      /\ ops' = ops \/ ops' = UpdateOp(g_current_op, rt)
      /\ next_id' = next_id + 1
      /\ UNCHANGED <<g_mu, globals, failures, ownership, file, processes, kills,
                     restarts, history>>
  BY DEF RebindStep, Goto
<1>5. l \in Locals
  <2> HIDE DEF fresh
  <2> QED BY <1>0, <1>1, ReplacementType, LocalsExcept DEF TypeOK
<1> HIDE DEF fresh, rt, l
<1>6. OpsKept \/ OpsBound(g_current_op, fresh)
  <2>1. CASE ops' = ops
    BY <2>1, UnchangedKeeps
  <2>2. CASE ops' = UpdateOp(g_current_op, rt)
    BY <1>2, <1>3, <2>2 DEF UpdateOp, OpsBound, Rebinds
  <2> QED BY <1>4, <2>1, <2>2
<1>7. WellStored(ops', failures, ownership)
  <2>1. DOMAIN ops' = DOMAIN ops
    BY <1>4 DEF UpdateOp
  <2> QED BY <1>6, <2>1 DEF OpsKept, OpsBound, TypeOK, WellStored
<1>8. local' \in [Threads -> Locals]
  BY <1>4, <1>5 DEF TypeOK
<1>9. \A u \in Threads : pc'[u] = "bind" => local'[u].op \in Operations
  BY <1>0, <1>4 DEF TypeOK
<1>10. TypeOK'
  <2>1. FileOK'
    BY <1>4, <1>6, FileKept DEF OpsKept, OpsBound
  <2>2. next_id' \in Nat
    <3>1. next_id' = next_id + 1 /\ next_id \in Nat
      BY <1>4 DEF TypeOK
    <3> QED BY <3>1
  <2> QED BY <1>4, <1>7, <1>8, <1>9, <2>1, <2>2
          DEF TypeOK, FileOK, globals, processes, history
<1> QED BY <1>6, <1>10 DEF fresh

\* A restart restores what the state file holds.
LEMMA RestartType ==
    ASSUME TypeOK, Restart
    PROVE  TypeOK'
<1>1. WellStored(ops', failures', ownership')
  <2>1. CASE Loads(disk)
    BY <2>1, UnassignedType DEF Restart, TypeOK, WellStored
  <2>2. CASE ~Loads(disk)
    <3>1. ops' = NoFile.ops /\ failures' = NoFile.failures /\ ownership' = NoFile.ownership
      BY <2>2 DEF Restart, NoFile
    <3> QED BY <3>1, NoFileType
  <2> QED BY <2>1, <2>2
<1>2. restarts' \in 0..MaxRestarts
  BY BoundsAssumption DEF Restart, TypeOK
<1>3. g_reg_order' \in Seq(Workers)
  BY EmptySeq DEF Restart
<1>4. local' \in [Threads -> Locals] /\ \A u \in Threads : pc'[u] # "bind"
  BY NoLocalType DEF Restart, TypeOK
<1>5. seen' \in [DOMAIN seen' -> SUBSET Runtime] /\ DOMAIN seen' \subseteq DOMAIN ops'
  <2>1. seen' = <<>> /\ DOMAIN <<>> = {} /\ <<>> \in [{} -> SUBSET Runtime]
    BY DEF Restart
  <2> QED BY <2>1
<1> QED BY <1>1, <1>2, <1>3, <1>4, <1>5 DEF Restart, TypeOK, processes, history, Locals

\* Every step keeps the types, and is one of a few kinds for the operations.
LEMMA StepKinds ==
    ASSUME TypeOK, [Next]_vars
    PROVE  /\ TypeOK'
           /\ \/ OpsKept
              \/ \E t \in Threads : ConfirmStep(t) /\ OpsConfirmed(t)
              \/ \E c \in Clients :
                     BindFirst(c) /\ OpsBound(local[c].op, local[c].authority)
              \/ \E w \in Workers :
                     /\ RebindStep(w)
                     /\ OpsBound(g_current_op, new_attempt(local[w].authority))
              \/ Restart
<1>1. CASE \E w \in Workers : WorkerStart(w) \/ KillWorker(w) \/ WorkerStep(w)
  BY <1>1, WorkerType, UnchangedKeeps
<1>2. CASE \E w \in Workers : ConnectionStep(w)
  BY <1>2, HandlerType, RecoveryType, RebindType DEF ConnectionStep
<1>3. CASE \E c \in Clients : ClientDispatch(c) \/ ClientReplay(c) \/ ClientStep(c)
  BY <1>3, ClientType, CompletionType DEF ClientStep, Threads
<1>4. CASE \E t \in Threads : CompletionStep(t) \/ DispatchStep(t)
  BY <1>4, CompletionType, ConfirmType, DispatchType DEF CompletionStep
<1>5. CASE Restart
  BY <1>5, RestartType
<1>6. CASE UNCHANGED vars
  <2>1. TypeOK'
    BY <1>6 DEF vars, TypeOK, file, globals, store, processes, bounds, history
  <2>2. ops' = ops
    BY <1>6 DEF vars, store
  <2> QED BY <2>1, <2>2, UnchangedKeeps
<1> QED BY <1>1, <1>2, <1>3, <1>4, <1>5, <1>6 DEF Next

\* The coordinator, its workers and their messages are type correct.
THEOREM TypeCorrect == Spec => []TypeOK
<1>1. TypeOK /\ [Next]_vars => TypeOK'
  BY StepKinds
<1> QED BY InitType, <1>1, PTL DEF Spec

-----------------------------------------------------------------------------
(* What a step can change.                                                 *)

\* What was sent, carried out and reported stays so.
Grows == sent \subseteq sent' /\ executed \subseteq executed' /\ reported \subseteq reported'

\* Only a report brings a thread to "confirm", only a transfer into the recovery
\* that follows it, only a request to "bind", only an opened file to "save", which
\* only the end of the save leaves; what such a thread keeps on its stack stays.
StackKept(t) ==
    /\ pc'[t] = "confirm" =>
           \/ pc[t] = "confirm" /\ local'[t] = local[t]
           \/ \E m \in Messages :
                  /\ ReportStep(t, m)
                  /\ \/ t \in Workers /\ HandleComplete(t) /\ m = Head(outbox[t])
                     \/ t \in Clients /\ m \in reported
    /\ pc'[t] \in {"build", "record", "rebind"} =>
           \/ /\ pc[t] \in {"build", "record", "rebind"}
              /\ local'[t].authority = local[t].authority
           \/ t \in Workers /\ TransferOwnership(t)
    /\ pc'[t] = "bind" =>
           \/ pc[t] = "bind" /\ local'[t] = local[t]
           \/ local'[t].authority = FirstAttempt
    /\ pc'[t] = "save" => pc[t] = "save" \/ FinishStep(t)
    /\ pc[t] = "save" =>
           \/ pc'[t] = "save" \/ SaveStep(t) \/ Restart
           \/ t \in Workers /\ wstate[t] = "new"

\* Ownership is only transferred or lost in a restart.
StoreKept ==
    /\ \/ ownership' = ownership
       \/ \E w \in Workers : TransferOwnership(w)
       \/ Restart
    /\ restarts' = restarts \/ Restart

\* Outside the save, whoever changes an operation holds g_mu or is observed by
\* the save under way.
FileStep ==
    \/ UNCHANGED <<file, g_mu>> /\ (ops' = ops \/ g_mu = NoConn)
    \/ UNCHANGED <<disk, settled, g_mu>> /\ Observe
    \/ \E t \in Threads : FinishStep(t) \/ WriteStep(t) \/ SaveStep(t)
    \/ Restart

Frame == Grows /\ StoreKept /\ FileStep /\ \A t \in Threads : StackKept(t)

\* No step does anything else.
LEMMA StepFrame ==
    ASSUME TypeOK, [Next]_vars
    PROVE  Frame
<1>0. DOMAIN pc = Threads /\ DOMAIN local = Threads /\ Workers \subseteq Threads
      /\ Clients \subseteq Threads
  BY DEF TypeOK, Threads
<1> USE DEF Frame, Grows, StoreKept, FileStep, StackKept, Goto, Back, store, bounds, history,
            globals
<1>1. ASSUME NEW w \in Workers, WorkerStart(w) PROVE Frame
  BY <1>0, <1>1 DEF WorkerStart
<1>2. ASSUME NEW w \in Workers, KillWorker(w) \/ WorkerStep(w) PROVE Frame
  BY <1>0, <1>2 DEF KillWorker, WorkerStep, WorkerReceive, WorkerEffect, WorkerReport,
                    WorkerCoordinatorLost
<1>3. ASSUME NEW w \in Workers, HandleRegister(w) \/ HandleRunning(w) \/ HandleFailure(w)
      PROVE  Frame
  BY <1>0, <1>3 DEF HandleRegister, HandleRunning, HandleFailure
<1>4. ASSUME NEW t \in Threads, NEW m \in Messages, ReportStep(t, m),
             \/ t \in Workers /\ HandleComplete(t) /\ m = Head(outbox[t])
             \/ t \in Clients /\ m \in reported /\ pc[t] = "start"
      PROVE  Frame
  <2>1. Grows /\ StoreKept /\ FileStep
    BY <1>4 DEF ReportStep
  <2>2. \A u \in Threads : StackKept(u)
    <3>1. \A u \in Threads : u # t => pc'[u] = pc[u] /\ local'[u] = local[u]
      BY <1>0, <1>4 DEF ReportStep
    <3>2. pc'[t] \in {"confirm", "recv", "ended"} /\ pc[t] # "save"
      BY <1>0, <1>4 DEF ReportStep, HandleComplete, Receives
    <3> QED BY <1>4, <3>1, <3>2
  <2> QED BY <2>1, <2>2
<1>5. ASSUME NEW w \in Workers, HandleComplete(w) PROVE Frame
  <2>1. Head(outbox[w]) \in Messages
    BY <1>5, OutboxHead DEF HandleComplete, Receives
  <2> QED BY <1>0, <1>4, <1>5, <2>1 DEF HandleComplete
<1>6. ASSUME NEW c \in Clients, ClientReplay(c) PROVE Frame
  BY <1>0, <1>4, <1>6 DEF ClientReplay, TypeOK
<1>7. ASSUME NEW w \in Workers, ConnectionLost(w) \/ CheckFinished(w) \/ DecideStep(w)
      PROVE  Frame
  BY <1>0, <1>7 DEF ConnectionLost, CheckFinished, DecideStep
<1>8. ASSUME NEW w \in Workers, TransferOwnership(w) PROVE Frame
  BY <1>0, <1>8 DEF TransferOwnership
<1>9. ASSUME NEW w \in Workers, BuildRecord(w) \/ RecordLoss(w) PROVE Frame
  <2>1. CASE BuildRecord(w)
    <3>1. /\ pc[w] = "build" /\ pc' = [pc EXCEPT ![w] = "record"]
          /\ local' = [local EXCEPT ![w] = [local[w] EXCEPT !.op = g_current_op]]
          /\ UNCHANGED <<g_mu, globals, store, file, bounds, history>>
      BY <2>1 DEF BuildRecord
    <3>2. local[w] \in Locals
      BY <1>0, LocalType
    <3>3. local'[w].authority = local[w].authority
      BY <1>0, <3>1, <3>2 DEF Locals
    <3> QED BY <1>0, <3>1, <3>3
  <2>2. CASE RecordLoss(w)
    BY <1>0, <2>2 DEF RecordLoss
  <2> QED BY <1>9, <2>1, <2>2
<1>10. ASSUME NEW w \in Workers, RebindStep(w) PROVE Frame
  BY <1>0, <1>10 DEF RebindStep
<1>11. ASSUME NEW c \in Clients, ClientDispatch(c) PROVE Frame
  BY <1>0, <1>11 DEF ClientDispatch
<1>12. ASSUME NEW c \in Clients, ClientStep(c) PROVE Frame
  BY <1>0, <1>12 DEF ClientStep, BindFirst, RunStep
<1>13. ASSUME NEW t \in Threads, ConfirmStep(t) \/ AckStep(t) PROVE Frame
  BY <1>0, <1>13 DEF ConfirmStep, AckStep
<1>14. ASSUME NEW t \in Threads, FinishStep(t) \/ WriteStep(t) \/ SaveStep(t) PROVE Frame
  <2>1. FileStep
    BY <1>14
  <2>2. Grows /\ StoreKept
    BY <1>14 DEF FinishStep, WriteStep, SaveStep
  <2>3. ASSUME NEW u \in Threads PROVE StackKept(u)
    <3>1. /\ \/ pc'[u] = pc[u] /\ local'[u] = local[u]
             \/ u = t /\ pc'[u] \in {"save", "recv", "ended"}
          /\ pc'[u] = "save" => pc[u] = "save" \/ (u = t /\ FinishStep(t))
          /\ pc[u] = "save" => pc'[u] = "save" \/ (u = t /\ SaveStep(t))
      BY <1>0, <1>14 DEF FinishStep, WriteStep, SaveStep
    <3> QED BY <3>1
  <2> QED BY <2>1, <2>2, <2>3
<1>15. ASSUME NEW t \in Threads, DispatchStep(t) PROVE Frame
  BY <1>0, <1>15 DEF DispatchStep, SendStep, MarkStep
<1>16. ASSUME Restart PROVE Frame
  <2>1. Grows
    BY <1>16 DEF Restart
  <2>2. ASSUME NEW t \in Threads
        PROVE  pc'[t] \in {"start", "ended"}
    BY <1>0, <1>16 DEF Restart
  <2> QED BY <1>16, <2>1, <2>2
<1>17. ASSUME UNCHANGED vars PROVE Frame
  BY <1>17 DEF vars, file
<1> HIDE DEF Frame
<1> QED BY <1>1, <1>2, <1>3, <1>5, <1>6, <1>7, <1>8, <1>9, <1>10, <1>11, <1>12, <1>13,
           <1>14, <1>15, <1>16, <1>17
        DEF Next, ConnectionStep, CompletionStep

\* The connection of a worker that was not started does nothing.
LEMMA NewStays ==
    ASSUME TypeOK, [Next]_vars, NEW v \in Workers, wstate'[v] = "new",
           wstate[v] = "new" => pc[v] = "start"
    PROVE  wstate[v] = "new" /\ pc'[v] = "start"
<1>0. /\ DOMAIN pc = Threads /\ DOMAIN wstate = Workers
      /\ Workers \subseteq Threads /\ Clients \cap Workers = {}
  BY WorkersAssumption DEF TypeOK, Threads
<1> USE DEF Goto, processes
<1>1. ASSUME NEW w \in Workers, WorkerStart(w) \/ KillWorker(w) \/ WorkerStep(w)
      PROVE  wstate[v] = "new" /\ pc'[v] = "start"
  BY <1>0, <1>1 DEF WorkerStart, KillWorker, WorkerStep, WorkerReceive, WorkerEffect,
                    WorkerReport, WorkerCoordinatorLost
<1>2. ASSUME NEW w \in Workers,
             \/ HandleRegister(w) \/ HandleRunning(w) \/ HandleFailure(w)
             \/ HandleComplete(w)
      PROVE  wstate[v] = "new" /\ pc'[v] = "start"
  BY <1>0, <1>2 DEF HandleRegister, HandleRunning, HandleFailure, HandleComplete,
                    ReportStep, Receives
<1>3. ASSUME NEW w \in Workers,
             \/ ConnectionLost(w) \/ CheckFinished(w) \/ TransferOwnership(w)
             \/ BuildRecord(w) \/ RecordLoss(w) \/ RebindStep(w) \/ DecideStep(w)
      PROVE  wstate[v] = "new" /\ pc'[v] = "start"
  BY <1>0, <1>3 DEF ConnectionLost, CheckFinished, TransferOwnership, BuildRecord,
                    RecordLoss, RebindStep, DecideStep
<1>4. ASSUME NEW c \in Clients, ClientDispatch(c) \/ ClientReplay(c) \/ ClientStep(c)
      PROVE  wstate[v] = "new" /\ pc'[v] = "start"
  BY <1>0, <1>4 DEF ClientDispatch, ClientReplay, ReportStep, ClientStep, BindFirst, RunStep
<1>5. ASSUME NEW t \in Threads, CompletionStep(t) \/ DispatchStep(t)
      PROVE  wstate[v] = "new" /\ pc'[v] = "start"
  BY <1>0, <1>5 DEF CompletionStep, ConfirmStep, AckStep, FinishStep, WriteStep, SaveStep,
                    DispatchStep, SendStep, MarkStep
<1>6. CASE Restart \/ UNCHANGED vars
  BY <1>0, <1>6 DEF Restart, vars
<1> QED BY <1>1, <1>2, <1>3, <1>4, <1>5, <1>6 DEF Next, ConnectionStep

-----------------------------------------------------------------------------
(* The inductive invariant.                                                *)

\* Attempt n of op was carried out by a worker it was sent to.
Done(op, n) ==
    \E e \in executed :
        /\ e.op = op /\ e.attempt = n
        /\ \E d \in sent : d.to = e.worker /\ d.op = op /\ d.authority.attempt = n

\* The messages that carry a dispatch that was sent to w.
SentTo(w) ==
    {m \in Messages : [to |-> w, op |-> m.op, authority |-> m.authority] \in sent}

\* The messages a worker may have sent: but for its registration they carry a
\* dispatch that was sent to it, and a completion is one it reported.
Honest(w) ==
    {m \in Messages :
        /\ m.type # "REGISTER" => m \in SentTo(w)
        /\ m.type = "COMPLETE" => m \in reported}

\* Worker w went through its task.
Carried(w) ==
    \E e \in executed :
        e.worker = w /\ e.op = task[w].op /\ e.attempt = task[w].authority.attempt

\* A worker takes only what was sent to it, reports only what it carried out, and
\* each completion on its way is one it reported.
Work(w) ==
    /\ inbox[w] \in Seq(SentTo(w))
    /\ outbox[w] \in Seq(Honest(w))
    /\ wstate[w] \in {"effect", "report"} => task[w] \in SentTo(w)
    /\ wstate[w] = "report" => Carried(w)

ReportedDone == \A m \in reported : Done(m.op, m.authority.attempt)

ConfirmDone ==
    \A t \in Threads :
        pc[t] = "confirm" => Done(local[t].op, local[t].authority.attempt)

\* In memory or in the state file, an operation is bound to an attempt, and one
\* with an outcome to an attempt that was carried out.
OutcomesDone(o) ==
    \A op \in DOMAIN o :
        /\ o[op].authority.attempt # NullId
        /\ o[op].terminal_recorded => Done(op, o[op].authority.attempt)

\* The connections of workers that were not started have no thread.
NotStarted == \A w \in Workers : wstate[w] = "new" => pc[w] = "start"

\* Requests name the attempt they are about to bind.
Requested == \A t \in Threads : pc[t] = "bind" => local[t].authority.attempt # NullId

\* A save under way holds g_mu.
Locked == DOMAIN seen # {} => \E t \in Threads : pc[t] = "save" /\ g_mu = t

\* What a save may read of an operation: its attempt, no outcome that is not
\* recorded by now, and of an operation that was decided when the save began
\* nothing but the decision.
SeenStands ==
    \A op \in DOMAIN seen : \A r \in seen[op] :
        /\ r.authority.attempt = ops[op].authority.attempt
        /\ r.terminal_recorded => ops[op].terminal_recorded
        /\ op \in settled => r = ops[op]

\* The state file counts: it is loadable, or about to be.
Live == Loads(disk) \/ \E t \in Threads : pc[t] = "save"

\* The operations that were decided when the save began are on disk, as they
\* are in memory, or still to be written; nothing else on disk is decided unless
\* it is in memory.
FileStands ==
    /\ disk.whole => DOMAIN seen = {}
    /\ Live =>
           /\ \A op \in DOMAIN disk.ops : disk.ops[op].terminal_recorded => Recorded(op)
           /\ \A op \in settled :
                  /\ Recorded(op)
                  /\ op \in DOMAIN disk.ops \cup DOMAIN seen
                  /\ op \in DOMAIN disk.ops => disk.ops[op] = ops[op]

\* Until the coordinator crashes: the envelopes on the stacks of the threads
\* that will bind them are of a generation that is owned by then.
Generations ==
    /\ RecoveryGenerationOwned
    /\ \A t \in Threads :
           /\ pc[t] \in {"build", "record", "rebind"} =>
                  local[t].authority.recovery_generation < ownership.generation
           /\ pc[t] = "bind" => local[t].authority.recovery_generation = 0

Unowned == ownership.owner = "NONE" => ownership.generation = 0

IInv ==
    /\ TypeOK
    /\ \A w \in Workers : Work(w)
    /\ ReportedDone
    /\ ConfirmDone
    /\ OutcomesDone(ops) /\ OutcomesDone(disk.ops)
    /\ NotStarted /\ Requested
    /\ Locked /\ SeenStands /\ FileStands
    /\ Unowned
    /\ restarts = 0 => Generations

-----------------------------------------------------------------------------
(* The workers.                                                            *)

\* Work that was done stays done.
LEMMA DoneStays ==
    ASSUME Grows, NEW op, NEW n, Done(op, n)
    PROVE  Done(op, n)'
BY DEF Grows, Done

\* What was honest or sent stays so.
LEMMA HonestStays ==
    ASSUME Grows
    PROVE  \A w : Honest(w) \subseteq Honest(w)' /\ SentTo(w) \subseteq SentTo(w)'
BY DEF Grows, Honest, SentTo

\* A queue that a step leaves alone.
LEMMA QueuesStay ==
    ASSUME Grows, NEW w \in Workers, Work(w)
    PROVE  inbox[w] \in Seq(SentTo(w)') /\ outbox[w] \in Seq(Honest(w)')
<1>1. Honest(w) \subseteq Honest(w)' /\ SentTo(w) \subseteq SentTo(w)'
  BY HonestStays
<1>2. inbox[w] \in Seq(SentTo(w)) /\ outbox[w] \in Seq(Honest(w))
  BY DEF Work
<1> QED BY <1>1, <1>2, SeqMonotonic

\* A step that does not concern a worker.
LEMMA WorkStays ==
    ASSUME Grows, NEW w \in Workers, Work(w),
           UNCHANGED <<wstate[w], task[w], inbox[w], outbox[w]>>
    PROVE  Work(w)'
<1>1. inbox'[w] \in Seq(SentTo(w)') /\ outbox'[w] \in Seq(Honest(w)')
  BY QueuesStay
<1>2. wstate'[w] \in {"effect", "report"} => task'[w] \in SentTo(w)'
  BY HonestStays DEF Work
<1>3. wstate'[w] = "report" => Carried(w)'
  BY DEF Work, Grows, Carried
<1> QED BY <1>1, <1>2, <1>3 DEF Work

\* What a worker sends about a dispatch that was sent to it is honest, if it
\* does not claim to have completed it.
LEMMA HonestMessage ==
    ASSUME NEW w \in Workers, NEW type \in {"RUNNING", "FAILURE", "COMPLETE"},
           NEW m \in SentTo(w)',
           type = "COMPLETE" => Message(type, m.op, m.authority) \in reported'
    PROVE  Message(type, m.op, m.authority) \in Honest(w)'
<1> DEFINE n == Message(type, m.op, m.authority)
<1>1. /\ m \in Messages
      /\ [to |-> w, op |-> m.op, authority |-> m.authority] \in sent'
  BY DEF SentTo
<1>2. n \in Messages
  BY <1>1, MessageType DEF Messages
<1>3. n.type = type /\ n.op = m.op /\ n.authority = m.authority
  BY DEF Message
<1> HIDE DEF n
<1>4. n \in SentTo(w)'
  BY <1>1, <1>2, <1>3 DEF SentTo
<1> QED BY <1>2, <1>3, <1>4 DEF Honest, n

\* The steps of a worker keep its own work in order.
LEMMA OwnWork ==
    ASSUME TypeOK, Grows, NEW w \in Workers, Work(w),
           WorkerStart(w) \/ KillWorker(w) \/ WorkerStep(w)
    PROVE  Work(w)'
<1>0. /\ DOMAIN wstate = Workers /\ DOMAIN task = Workers
      /\ DOMAIN inbox = Workers /\ DOMAIN outbox = Workers
  BY DEF TypeOK
<1>1. inbox[w] \in Seq(SentTo(w)') /\ outbox[w] \in Seq(Honest(w)')
  BY QueuesStay
<1>2. SentTo(w) \subseteq SentTo(w)'
  BY HonestStays
<1>3. CASE WorkerStart(w)
  <2>1. Message("REGISTER", NoOp, UnsetEnvelope) \in Honest(w)'
    BY MessageType, UnsetEnvelopeType DEF Honest, Message
  <2>2. <<Message("REGISTER", NoOp, UnsetEnvelope)>> \in Seq(Honest(w)')
    BY <2>1
  <2> QED BY <1>0, <1>1, <1>3, <2>2 DEF WorkerStart, Work
<1>4. CASE KillWorker(w)
  <2>1. PICK n \in 0..Len(outbox[w]) : outbox' = [outbox EXCEPT ![w] = SubSeq(@, 1, n)]
    BY <1>4 DEF KillWorker
  <2>2. n \in Int /\ \A i \in 1..n : outbox[w][i] \in Honest(w)'
    BY <1>1, <2>1, ElementOfSeq
  <2>3. SubSeq(outbox[w], 1, n) \in Seq(Honest(w)')
    BY <2>2, SubSeqProperties
  <2> QED BY <1>0, <1>1, <1>4, <2>1, <2>3 DEF KillWorker, Work
<1>5. CASE WorkerReceive(w)
  <2> DEFINE m == Head(inbox[w])
             running == Message("RUNNING", m.op, m.authority)
  <2>1. m \in SentTo(w)' /\ Tail(inbox[w]) \in Seq(SentTo(w)')
    BY <1>1, <1>5, HeadTailProperties DEF WorkerReceive
  <2>2. running \in Honest(w)'
    BY <2>1, HonestMessage
  <2>3. Append(outbox[w], running) \in Seq(Honest(w)')
    BY <1>1, <2>2, AppendProperties
  <2> QED BY <1>0, <1>5, <2>1, <2>3 DEF WorkerReceive, Work
<1>6. CASE WorkerEffect(w)
  <2>1. PICK marker \in Opens :
            executed' = executed \cup
                {[worker |-> w, op |-> task[w].op,
                  attempt |-> task[w].authority.attempt, marker |-> marker]}
    BY <1>6 DEF WorkerEffect
  <2> DEFINE e == [worker |-> w, op |-> task[w].op,
                   attempt |-> task[w].authority.attempt, marker |-> marker]
  <2>2. Carried(w)'
    <3>1. /\ e \in executed' /\ e.worker = w /\ e.op = task'[w].op
          /\ e.attempt = task'[w].authority.attempt
      BY <1>6, <2>1 DEF WorkerEffect
    <3> HIDE DEF e
    <3> QED BY <3>1 DEF Carried
  <2> QED BY <1>0, <1>1, <1>2, <1>6, <2>2 DEF WorkerEffect, Work
<1>7. CASE WorkerReport(w)
  <2> DEFINE type == IF w \in FailWorkers THEN "FAILURE" ELSE "COMPLETE"
             m == Message(type, task[w].op, task[w].authority)
  <2>1. m \in Honest(w)'
    <3>1. task[w] \in SentTo(w)'
      BY <1>2, <1>7 DEF WorkerReport, Work
    <3>2. type \in {"FAILURE", "COMPLETE"}
      OBVIOUS
    <3>3. type = "COMPLETE" => m \in reported'
      BY <1>7 DEF WorkerReport
    <3> HIDE DEF type
    <3> QED BY <3>1, <3>2, <3>3, HonestMessage
  <2>2. Append(outbox[w], m) \in Seq(Honest(w)')
    BY <1>1, <2>1, AppendProperties
  <2> QED BY <1>0, <1>1, <1>7, <2>2 DEF WorkerReport, Work
<1>8. CASE WorkerCoordinatorLost(w)
  BY <1>0, <1>1, <1>8 DEF WorkerCoordinatorLost, Work
<1> QED BY <1>3, <1>4, <1>5, <1>6, <1>7, <1>8 DEF WorkerStep

\* A handler takes the first message off its connection.
LEMMA HandlerWork ==
    ASSUME TypeOK, Grows, NEW w \in Workers, Work(w),
           outbox[w] # <<>>, outbox' = [outbox EXCEPT ![w] = Tail(@)],
           UNCHANGED <<wstate, task, inbox>>
    PROVE  Work(w)'
<1>1. inbox[w] \in Seq(SentTo(w)') /\ outbox[w] \in Seq(Honest(w)')
  BY QueuesStay
<1>2. Tail(outbox[w]) \in Seq(Honest(w)')
  BY <1>1, HeadTailProperties
<1>3. outbox'[w] \in Seq(Honest(w)')
  BY <1>2 DEF TypeOK
<1>4. wstate[w] \in {"effect", "report"} => task[w] \in SentTo(w)'
  BY HonestStays DEF Work
<1>5. wstate[w] = "report" => Carried(w)'
  BY DEF Work, Grows, Carried
<1> QED BY <1>1, <1>3, <1>4, <1>5 DEF Work

\* A dispatch reaches the worker it was sent to.
LEMMA SendWork ==
    ASSUME TypeOK, Grows, NEW w \in Workers, Work(w), NEW t \in Threads, SendStep(t)
    PROVE  Work(w)'
<1> DEFINE m == Message("DISPATCH", DispatchedOp(t), local[t].authority)
<1>1. m \in Messages
  BY LocalType, MessageType DEF DispatchedOp, TypeOK
<1>2. /\ sent' = sent \cup {[to |-> local[t].conn, op |-> m.op, authority |-> m.authority]}
      /\ inbox' = inbox \/ inbox' = [inbox EXCEPT ![local[t].conn] = Append(@, m)]
      /\ UNCHANGED <<wstate, task, outbox, executed, reported>>
  BY DEF SendStep
<1>3. m.op = DispatchedOp(t) /\ m.authority = local[t].authority
  BY DEF Message
<1> HIDE DEF m
<1>4. inbox[w] \in Seq(SentTo(w)') /\ outbox[w] \in Seq(Honest(w)')
  BY QueuesStay
<1>5. inbox'[w] \in Seq(SentTo(w)')
  <2>1. CASE inbox'[w] = inbox[w]
    BY <1>4, <2>1
  <2>2. CASE inbox'[w] # inbox[w]
    <3>1. local[t].conn = w /\ inbox'[w] = Append(inbox[w], m)
      BY <1>2, <2>2 DEF TypeOK
    <3>2. m \in SentTo(w)'
      BY <1>1, <1>2, <3>1 DEF SentTo
    <3> QED BY <1>4, <3>1, <3>2, AppendProperties
  <2> QED BY <2>1, <2>2
<1>6. wstate'[w] \in {"effect", "report"} => task'[w] \in SentTo(w)'
  BY <1>2, HonestStays DEF Work
<1> QED BY <1>2, <1>4, <1>5, <1>6 DEF Work, Carried

\* No other step touches a worker or its connection.
LEMMA OtherWork ==
    ASSUME TypeOK, NEW w \in Workers,
           \/ ConnectionLost(w) \/ CheckFinished(w) \/ TransferOwnership(w)
           \/ BuildRecord(w) \/ RecordLoss(w) \/ RebindStep(w) \/ DecideStep(w)
    PROVE  UNCHANGED <<wstate, task, inbox, outbox>>
BY DEF ConnectionLost, CheckFinished, TransferOwnership, BuildRecord, RecordLoss,
       RebindStep, DecideStep, processes

\* Every step keeps the work of every worker in order.
LEMMA WorkStep ==
    ASSUME TypeOK, Grows, \A w \in Workers : Work(w), [Next]_vars
    PROVE  \A w \in Workers : Work(w)'
<1> SUFFICES ASSUME NEW v \in Workers PROVE Work(v)'
  OBVIOUS
<1>0. Work(v)
  OBVIOUS
<1>1. ASSUME NEW w \in Workers, WorkerStart(w) \/ KillWorker(w) \/ WorkerStep(w)
      PROVE  Work(v)'
  <2>1. v # w => UNCHANGED <<wstate[v], task[v], inbox[v], outbox[v]>>
    BY <1>1 DEF WorkerStart, KillWorker, WorkerStep, WorkerReceive, WorkerEffect,
                WorkerReport, WorkerCoordinatorLost, TypeOK
  <2> QED BY <1>0, <1>1, <2>1, OwnWork, WorkStays
<1>2. ASSUME NEW w \in Workers, \E type : Receives(w, type)
      PROVE  Work(v)'
  <2>1. /\ outbox[w] # <<>> /\ outbox' = [outbox EXCEPT ![w] = Tail(@)]
        /\ UNCHANGED <<wstate, task, inbox>>
    BY <1>2 DEF Receives
  <2>2. v # w => UNCHANGED <<wstate[v], task[v], inbox[v], outbox[v]>>
    BY <2>1 DEF TypeOK
  <2> QED BY <1>0, <2>1, <2>2, HandlerWork, WorkStays
<1>3. ASSUME NEW w \in Workers, ConnectionStep(w)
      PROVE  Work(v)'
  <2>1. CASE HandleRegister(w) \/ HandleRunning(w) \/ HandleFailure(w) \/ HandleComplete(w)
    BY <1>2, <2>1 DEF HandleRegister, HandleRunning, HandleFailure, HandleComplete
  <2>2. CASE \/ ConnectionLost(w) \/ CheckFinished(w) \/ TransferOwnership(w)
             \/ BuildRecord(w) \/ RecordLoss(w) \/ RebindStep(w) \/ DecideStep(w)
    BY <1>0, <2>2, OtherWork, WorkStays
  <2> QED BY <1>3, <2>1, <2>2 DEF ConnectionStep
<1>4. ASSUME NEW c \in Clients, ClientDispatch(c) \/ ClientReplay(c) \/ ClientStep(c)
      PROVE  Work(v)'
  <2>1. UNCHANGED processes
    BY <1>4 DEF ClientDispatch, ClientReplay, ClientStep, BindFirst, RunStep
  <2> QED BY <1>0, <2>1, WorkStays DEF processes
<1>5. ASSUME NEW t \in Threads, CompletionStep(t) \/ DispatchStep(t)
      PROVE  Work(v)'
  <2>1. CASE SendStep(t)
    BY <1>0, <2>1, SendWork
  <2>2. CASE CompletionStep(t) \/ MarkStep(t)
    <3>1. UNCHANGED processes
      BY <2>2 DEF CompletionStep, ConfirmStep, AckStep, FinishStep, WriteStep,
                  SaveStep, MarkStep
    <3> QED BY <1>0, <3>1, WorkStays DEF processes
  <2> QED BY <1>5, <2>1, <2>2 DEF DispatchStep
<1>6. CASE Restart \/ UNCHANGED vars
  BY <1>0, <1>6, WorkStays DEF Restart, vars, processes
<1> QED BY <1>1, <1>3, <1>4, <1>5, <1>6 DEF Next

\* A completion is only reported once the work is done.
LEMMA ReportedStep ==
    ASSUME TypeOK, Grows, \A w \in Workers : Work(w), ReportedDone, [Next]_vars
    PROVE  ReportedDone'
<1> SUFFICES ASSUME NEW m \in reported' PROVE Done(m.op, m.authority.attempt)'
  BY DEF ReportedDone
<1>1. CASE m \in reported
  BY <1>1, DoneStays DEF ReportedDone
<1>2. CASE m \notin reported
  <2>1. PICK w \in Workers : WorkerReport(w)
    <3>1. ASSUME NEW w \in Workers,
                 \/ WorkerStart(w) \/ KillWorker(w) \/ WorkerReceive(w)
                 \/ WorkerEffect(w) \/ WorkerCoordinatorLost(w)
          PROVE  reported' = reported
      BY <3>1 DEF WorkerStart, KillWorker, WorkerReceive, WorkerEffect,
                  WorkerCoordinatorLost, history
    <3>2. ASSUME NEW w \in Workers, ConnectionStep(w) PROVE reported' = reported
      BY <3>2 DEF ConnectionStep, HandleRegister, HandleRunning, HandleFailure,
                  HandleComplete, ReportStep, ConnectionLost, CheckFinished,
                  TransferOwnership, BuildRecord, RecordLoss, RebindStep, DecideStep,
                  history
    <3>3. ASSUME NEW c \in Clients, ClientDispatch(c) \/ ClientReplay(c) \/ ClientStep(c)
          PROVE  reported' = reported
      BY <3>3 DEF ClientDispatch, ClientReplay, ReportStep, ClientStep, BindFirst,
                  RunStep, history
    <3>4. ASSUME NEW t \in Threads, CompletionStep(t) \/ DispatchStep(t)
          PROVE  reported' = reported
      BY <3>4 DEF CompletionStep, ConfirmStep, AckStep, FinishStep, WriteStep, SaveStep,
                  DispatchStep, SendStep, MarkStep, history
    <3>5. CASE Restart \/ UNCHANGED vars
      BY <1>2, <3>5 DEF Restart, vars, history
    <3> QED BY <1>2, <3>1, <3>2, <3>3, <3>4, <3>5 DEF Next, WorkerStep
  <2>2. m.op = task[w].op /\ m.authority = task[w].authority
    BY <1>2, <2>1 DEF WorkerReport, Message
  <2>3. /\ Carried(w)
        /\ [to |-> w, op |-> task[w].op, authority |-> task[w].authority] \in sent
    BY <2>1 DEF WorkerReport, Work, SentTo
  <2>4. Done(m.op, m.authority.attempt)
    <3>1. PICK e \in executed :
              e.worker = w /\ e.op = task[w].op /\ e.attempt = task[w].authority.attempt
      BY <2>3 DEF Carried
    <3> DEFINE d == [to |-> w, op |-> task[w].op, authority |-> task[w].authority]
    <3>2. d \in sent /\ d.to = e.worker /\ d.op = task[w].op /\ d.authority = task[w].authority
      BY <2>3, <3>1
    <3> HIDE DEF d
    <3> QED BY <2>2, <3>1, <3>2 DEF Done
  <2> QED BY <2>4, DoneStays
<1> QED BY <1>1, <1>2

-----------------------------------------------------------------------------
(* The outcomes.                                                           *)

\* A thread confirms only what some worker reported: the registry is called
\* with the operation and the envelope of that report.
LEMMA ConfirmDoneStep ==
    ASSUME IInv, Frame
    PROVE  ConfirmDone'
<1> SUFFICES ASSUME NEW t \in Threads, pc'[t] = "confirm"
             PROVE  Done(local[t].op, local[t].authority.attempt)'
  BY DEF ConfirmDone
<1>0. Grows /\ StackKept(t)
  BY DEF Frame
<1>1. CASE pc[t] = "confirm" /\ local'[t] = local[t]
  <2>1. Done(local[t].op, local[t].authority.attempt)
    BY <1>1 DEF IInv, ConfirmDone
  <2> QED BY <1>0, <1>1, <2>1, DoneStays
<1>2. ASSUME NEW m \in Messages, ReportStep(t, m),
             \/ t \in Workers /\ HandleComplete(t) /\ m = Head(outbox[t])
             \/ m \in reported
      PROVE  Done(local[t].op, local[t].authority.attempt)'
  <2>1. m \in reported
    <3>1. ASSUME t \in Workers, HandleComplete(t), m = Head(outbox[t]) PROVE m \in reported
      <4>1. outbox[t] # <<>> /\ m.type = "COMPLETE"
        BY <3>1 DEF HandleComplete, Receives
      <4>2. outbox[t] \in Seq(Honest(t))
        BY <3>1 DEF IInv, Work
      <4> QED BY <3>1, <4>1, <4>2, HeadTailProperties DEF Honest
    <3> QED BY <1>2, <3>1
  <2>2. local'[t].op = m.op /\ local'[t].authority = m.authority
    <3>1. pc' = [pc EXCEPT ![t] = pc'[t]] /\ Back(t) # "confirm"
      BY <1>2 DEF ReportStep, Goto, Back, IInv, TypeOK
    <3>2. local' = [local EXCEPT ![t] = [NoLocal EXCEPT !.op = m.op,
                                                        !.authority = m.authority]]
      BY <1>2, <3>1 DEF ReportStep, Goto, IInv, TypeOK
    <3> QED BY <3>2 DEF NoLocal, IInv, TypeOK
  <2>3. Done(m.op, m.authority.attempt)
    BY <2>1 DEF IInv, ReportedDone
  <2> QED BY <1>0, <2>2, <2>3, DoneStays
<1> QED BY <1>0, <1>1, <1>2 DEF StackKept

\* A request is bound under the attempt it drew.
LEMMA RequestedStep ==
    ASSUME IInv, Frame
    PROVE  Requested'
<1> SUFFICES ASSUME NEW t \in Threads, pc'[t] = "bind"
             PROVE  local'[t].authority.attempt # NullId
  BY DEF Requested
<1>1. FirstAttempt.attempt = next_id /\ next_id \in Attempts
  BY IdsAssumption DEF FirstAttempt, UnsetEnvelope, IInv, TypeOK
<1> QED BY <1>1, NullIdAssumption DEF Frame, StackKept, IInv, Requested

\* An outcome in memory: it was there before, or it is the confirmation of a
\* thread, or the state file held it.
LEMMA OutcomesStep ==
    ASSUME IInv, Frame, TypeOK',
           \/ OpsKept
           \/ \E t \in Threads : ConfirmStep(t) /\ OpsConfirmed(t)
           \/ \E op, a : OpsBound(op, a) /\ a.attempt # NullId
           \/ Restart
    PROVE  OutcomesDone(ops)'
<1> SUFFICES ASSUME NEW op \in DOMAIN ops'
             PROVE  /\ ops'[op].authority.attempt # NullId
                    /\ ops'[op].terminal_recorded => Done(op, ops[op].authority.attempt)'
  BY DEF OutcomesDone
<1>0. Grows
  BY DEF Frame
<1>1. ASSUME op \in DOMAIN ops, ops'[op].authority = ops[op].authority,
             ops'[op].terminal_recorded => ops[op].terminal_recorded
      PROVE  /\ ops'[op].authority.attempt # NullId
             /\ ops'[op].terminal_recorded => Done(op, ops[op].authority.attempt)'
  <2>1. /\ ops[op].authority.attempt # NullId
        /\ ops[op].terminal_recorded => Done(op, ops[op].authority.attempt)
    BY <1>1 DEF IInv, OutcomesDone
  <2> QED BY <1>0, <1>1, <2>1, DoneStays
<1>2. CASE OpsKept
  <2>1. /\ op \in DOMAIN ops /\ ops'[op].authority = ops[op].authority
        /\ ops'[op].terminal_recorded = ops[op].terminal_recorded
    BY <1>2 DEF OpsKept, Keeps
  <2> QED BY <1>1, <2>1
<1>3. ASSUME NEW t \in Threads, ConfirmStep(t), OpsConfirmed(t)
      PROVE  /\ ops'[op].authority.attempt # NullId
             /\ ops'[op].terminal_recorded => Done(op, ops[op].authority.attempt)'
  <2>1. op \in DOMAIN ops
    BY <1>3 DEF OpsConfirmed
  <2>2. CASE op = local[t].op /\ Confirms(ops[op], local[t].authority, ops'[op])
    <3>1. Done(op, local[t].authority.attempt)
      BY <1>3, <2>2 DEF ConfirmStep, IInv, ConfirmDone
    <3>2. ops[op].authority.attempt # NullId
      BY <2>1 DEF IInv, OutcomesDone
    <3>3. /\ ops'[op].authority = ops[op].authority
          /\ local[t].authority.attempt = ops[op].authority.attempt
      BY <2>2, <3>2 DEF Confirms
    <3> QED BY <1>0, <3>1, <3>2, <3>3, DoneStays
  <2> QED BY <1>1, <1>3, <2>1, <2>2 DEF OpsConfirmed
<1>4. ASSUME NEW o, NEW a, OpsBound(o, a), a.attempt # NullId
      PROVE  /\ ops'[op].authority.attempt # NullId
             /\ ops'[op].terminal_recorded => Done(op, ops[op].authority.attempt)'
  <2>1. \/ op \in DOMAIN ops /\ ops'[op] = ops[op]
        \/ ops'[op].authority = a /\ ~ops'[op].terminal_recorded
    BY <1>4 DEF OpsBound, Rebinds
  <2>2. CASE op \in DOMAIN ops /\ ops'[op] = ops[op]
    BY <1>1, <2>2
  <2> QED BY <1>4, <2>1, <2>2
<1>5. CASE Restart
  <2>1. ops' = disk.ops
    <3>1. DOMAIN <<>> = {}
      OBVIOUS
    <3> QED BY <1>5, <3>1 DEF Restart
  <2>2. /\ disk.ops[op].authority.attempt # NullId
        /\ disk.ops[op].terminal_recorded => Done(op, disk.ops[op].authority.attempt)
    BY <2>1 DEF IInv, OutcomesDone
  <2> QED BY <1>0, <2>1, <2>2, DoneStays
<1> QED BY <1>2, <1>3, <1>4, <1>5

\* A recorded outcome is not touched by any step but a restart.
LEMMA OutcomeKept ==
    ASSUME TypeOK, NEW op \in DOMAIN ops, ops[op].terminal_recorded,
           \/ OpsKept
           \/ \E t \in Threads : OpsConfirmed(t)
           \/ \E o, a : OpsBound(o, a)
    PROVE  op \in DOMAIN ops' /\ ops'[op] = ops[op]
<1>1. CASE OpsKept
  BY <1>1 DEF OpsKept, Keeps
<1>2. ASSUME NEW t \in Threads, OpsConfirmed(t) PROVE op \in DOMAIN ops' /\ ops'[op] = ops[op]
  BY <1>2 DEF OpsConfirmed, Confirms
<1>3. ASSUME NEW o, NEW a, OpsBound(o, a) PROVE op \in DOMAIN ops' /\ ops'[op] = ops[op]
  BY <1>3 DEF OpsBound, Rebinds
<1> QED BY <1>1, <1>2, <1>3

-----------------------------------------------------------------------------
(* The state file.                                                         *)

FileInv == OutcomesDone(disk.ops) /\ Locked /\ SeenStands /\ FileStands

\* Nobody but the thread that saves holds g_mu while operations are unwritten.
LEMMA LockedFree ==
    ASSUME Locked, g_mu = NoConn
    PROVE  DOMAIN seen = {}
BY WorkersAssumption DEF Locked, Threads

\* A saving thread goes on saving.
LEMMA SaverStays ==
    ASSUME IInv, Frame, ~Restart, NEW t \in Threads, pc[t] = "save", ~SaveStep(t)
    PROVE  pc'[t] = "save"
<1>1. ~(t \in Workers /\ wstate[t] = "new")
  BY DEF IInv, NotStarted
<1> QED BY <1>1 DEF Frame, StackKept

\* The outcomes on disk stand when the file is left alone, by whoever does not
\* start or end a save.
LEMMA FileLeftAlone ==
    ASSUME IInv, Frame, TypeOK', ~Restart,
           UNCHANGED <<disk, settled, g_mu>>, DOMAIN seen' = DOMAIN seen,
           \A t \in Threads : (pc'[t] = "save") = (pc[t] = "save"),
           \/ OpsKept
           \/ \E t \in Threads : OpsConfirmed(t)
           \/ \E op, a : OpsBound(op, a)
    PROVE  OutcomesDone(disk.ops)' /\ Locked' /\ FileStands'
<1>0. TypeOK /\ Grows /\ Locked /\ FileStands /\ OutcomesDone(disk.ops)
  BY DEF IInv, Frame
<1>1. OutcomesDone(disk.ops)'
  BY <1>0, DoneStays DEF OutcomesDone
<1>2. Locked'
  BY <1>0 DEF Locked
<1>3. Live' => Live
  BY DEF Live, Loads
<1>4. ASSUME NEW op, Recorded(op) PROVE Recorded(op)' /\ ops'[op] = ops[op]
  BY <1>0, <1>4, OutcomeKept DEF Recorded
<1>5. FileStands'
  <2>1. disk'.whole => DOMAIN seen' = {}
    BY <1>0 DEF FileStands
  <2>2. ASSUME Live, NEW op \in DOMAIN disk'.ops, disk'.ops[op].terminal_recorded
        PROVE  Recorded(op)'
    BY <1>0, <1>4, <2>2 DEF FileStands
  <2>3. ASSUME Live, NEW op \in settled'
        PROVE  /\ Recorded(op)' /\ op \in DOMAIN disk'.ops \cup DOMAIN seen'
               /\ op \in DOMAIN disk'.ops => disk'.ops[op] = ops'[op]
    BY <1>0, <1>4, <2>3 DEF FileStands
  <2> QED BY <1>3, <2>1, <2>2, <2>3 DEF FileStands
<1> QED BY <1>1, <1>2, <1>5

\* A registry call outside g_mu, seen by the save under way.
LEMMA ObserveStands ==
    ASSUME IInv, TypeOK', Observe, UNCHANGED settled,
           OpsKept \/ \E t \in Threads : OpsConfirmed(t)
    PROVE  SeenStands'
<1> SUFFICES ASSUME NEW op \in DOMAIN seen', NEW r \in seen'[op]
             PROVE  /\ r.authority.attempt = ops'[op].authority.attempt
                    /\ r.terminal_recorded => ops'[op].terminal_recorded
                    /\ op \in settled' => r = ops'[op]
  BY DEF SeenStands
<1>1. /\ op \in DOMAIN seen /\ seen'[op] = seen[op] \cup {ops'[op]}
      /\ op \in DOMAIN ops /\ TypeOK /\ SeenStands /\ Locked /\ FileStands
  BY DEF Observe, IInv, TypeOK
<1>2. CASE r = ops'[op]
  BY <1>2
<1>3. CASE r \in seen[op]
  <2>1. /\ r.authority.attempt = ops[op].authority.attempt
        /\ r.terminal_recorded => ops[op].terminal_recorded
        /\ op \in settled => r = ops[op]
    BY <1>1, <1>3 DEF SeenStands
  <2>2. ops[op].terminal_recorded => ops'[op] = ops[op]
    BY <1>1, OutcomeKept
  <2>3. ops'[op].authority = ops[op].authority
    BY <1>1 DEF OpsKept, Keeps, OpsConfirmed, Confirms
  <2>4. op \in settled => ops[op].terminal_recorded
    <3>1. Live
      BY <1>1 DEF Locked, Live
    <3> QED BY <1>1, <3>1 DEF FileStands, Recorded
  <2> QED BY <2>1, <2>2, <2>3, <2>4
<1> QED BY <1>1, <1>2, <1>3

\* The file is opened: everything is still to be written, as it is now.
LEMMA OpenStands ==
    ASSUME ops' = ops, NEW t \in Threads, pc'[t] = "save", g_mu' = t, disk' = NoFile,
           seen' = [op \in DOMAIN ops |-> {ops[op]}],
           settled' = {op \in DOMAIN ops : ops[op].terminal_recorded}
    PROVE  FileInv'
<1>1. DOMAIN disk'.ops = {} /\ disk'.whole = FALSE
  BY NoFileType
<1>2. Locked'
  BY DEF Locked
<1>3. SeenStands'
  BY DEF SeenStands
<1>4. FileStands'
  BY <1>1 DEF FileStands, Recorded
<1> QED BY <1>1, <1>2, <1>3, <1>4 DEF FileInv, OutcomesDone

\* The next operation is written: whatever mixture of its fields was read, it is
\* of its attempt, and is decided only if the operation is by now.
LEMMA WriteStands ==
    ASSUME IInv, Frame, NEW t \in Threads, WriteStep(t)
    PROVE  FileInv'
<1>0. /\ TypeOK /\ Grows /\ SeenStands /\ FileStands /\ OutcomesDone(ops)
      /\ OutcomesDone(disk.ops) /\ Locked
      /\ UNCHANGED <<g_mu, ops, settled, pc>> /\ pc[t] = "save"
  BY DEF IInv, Frame, WriteStep, store
<1>1. PICK op \in DOMAIN seen : \E r \in TornRuntimes(seen[op]) :
          /\ disk' = [NoFile EXCEPT !.ops = [o \in DOMAIN disk.ops \cup {op} |->
                                               IF o = op THEN r ELSE disk.ops[o]]]
          /\ seen' = [o \in DOMAIN seen \ {op} |-> {ops[o]}]
  BY DEF WriteStep
<1>2. PICK r \in TornRuntimes(seen[op]) :
          /\ disk' = [NoFile EXCEPT !.ops = [o \in DOMAIN disk.ops \cup {op} |->
                                               IF o = op THEN r ELSE disk.ops[o]]]
          /\ seen' = [o \in DOMAIN seen \ {op} |-> {ops[o]}]
  BY <1>1
<1>3. /\ disk'.whole = FALSE /\ DOMAIN disk'.ops = DOMAIN disk.ops \cup {op}
      /\ disk'.ops[op] = r
      /\ \A o \in DOMAIN disk.ops : o # op => disk'.ops[o] = disk.ops[o]
  <2> DEFINE d == [o \in DOMAIN disk.ops \cup {op} |-> IF o = op THEN r ELSE disk.ops[o]]
  <2>1. disk'.whole = FALSE /\ disk'.ops = d
    BY <1>2, NoFileType
  <2> QED BY <2>1
<1>4. op \in DOMAIN ops /\ seen[op] \in SUBSET Runtime
  BY <1>0 DEF TypeOK
<1>5. PICK q \in seen[op] : q.terminal_recorded = r.terminal_recorded
  BY <1>2, <1>4, TornRuntime
<1>6. r.authority.attempt = ops[op].authority.attempt
  <2>1. \A p \in seen[op] : p.authority.attempt = ops[op].authority.attempt
    BY <1>0 DEF SeenStands
  <2>2. seen[op] \in SUBSET Runtime /\ r \in TornRuntimes(seen[op])
    BY <1>2, <1>4
  <2> QED BY ONLY <2>1, <2>2, TornAttempt
<1>7. r.terminal_recorded => ops[op].terminal_recorded
  BY <1>0, <1>5 DEF SeenStands
<1>8. op \in settled => r = ops[op]
  <2> SUFFICES ASSUME op \in settled PROVE r = ops[op]
    OBVIOUS
  <2>1. seen[op] = {ops[op]} /\ ops[op] \in seen[op]
    BY <1>0, <1>5 DEF SeenStands
  <2> QED BY <1>2, <1>4, <2>1, TornRuntime
<1>9. OutcomesDone(disk.ops)'
  <2> SUFFICES ASSUME NEW o \in DOMAIN disk'.ops
               PROVE  /\ disk'.ops[o].authority.attempt # NullId
                      /\ disk'.ops[o].terminal_recorded =>
                             Done(o, disk.ops[o].authority.attempt)'
    BY DEF OutcomesDone
  <2>1. CASE o = op
    <3>1. /\ ops[op].authority.attempt # NullId
          /\ ops[op].terminal_recorded => Done(op, ops[op].authority.attempt)
      BY <1>0, <1>4 DEF OutcomesDone
    <3> QED BY <1>0, <1>3, <1>6, <1>7, <2>1, <3>1, DoneStays
  <2>2. CASE o # op
    BY <1>0, <1>3, <2>2, DoneStays DEF OutcomesDone
  <2> QED BY <2>1, <2>2
<1>10. Locked'
  BY <1>0, <1>1 DEF Locked
<1>11. SeenStands'
  BY <1>0, <1>2 DEF SeenStands
<1>12. FileStands'
  <2>1. Live
    BY <1>0 DEF Live
  <2>2. ASSUME NEW o \in DOMAIN disk'.ops, disk'.ops[o].terminal_recorded
        PROVE  Recorded(o)'
    BY <1>0, <1>3, <1>4, <1>7, <2>1, <2>2 DEF FileStands, Recorded
  <2>3. DOMAIN seen' = DOMAIN seen \ {op}
    BY <1>2
  <2>4. ASSUME NEW o \in settled'
        PROVE  /\ Recorded(o)' /\ o \in DOMAIN disk'.ops \cup DOMAIN seen'
               /\ o \in DOMAIN disk'.ops => disk'.ops[o] = ops'[o]
    BY <1>0, <1>3, <1>8, <2>1, <2>3 DEF FileStands, Recorded
  <2> QED BY <1>3, <2>2, <2>4 DEF FileStands
<1> QED BY <1>9, <1>10, <1>11, <1>12 DEF FileInv

\* Every operation is on disk, and the save ends.
LEMMA SaveStands ==
    ASSUME IInv, Frame, NEW t \in Threads, SaveStep(t)
    PROVE  FileInv'
<1>0. /\ Grows /\ FileStands /\ OutcomesDone(disk.ops) /\ pc[t] = "save"
      /\ DOMAIN seen = {} /\ UNCHANGED <<ops, seen, settled>>
      /\ disk'.ops = disk.ops /\ disk'.whole = TRUE
  BY DEF IInv, Frame, SaveStep, store
<1>1. OutcomesDone(disk.ops)'
  BY <1>0, DoneStays DEF OutcomesDone
<1>2. Locked' /\ SeenStands'
  BY <1>0 DEF Locked, SeenStands
<1>3. FileStands'
  <2>1. Live
    BY <1>0 DEF Live
  <2> QED BY <1>0, <2>1 DEF FileStands, Recorded
<1> QED BY <1>1, <1>2, <1>3 DEF FileInv

\* After a restart memory is what the state file holds, if it loads.
LEMMA RestartStands ==
    ASSUME IInv, Frame, Restart
    PROVE  FileInv'
<1>0. /\ Grows /\ FileStands /\ OutcomesDone(disk.ops)
      /\ UNCHANGED <<disk, settled>> /\ seen' = <<>> /\ DOMAIN <<>> = {}
      /\ Loads(disk) => ops' = disk.ops
  BY DEF IInv, Frame, Restart
<1>1. OutcomesDone(disk.ops)'
  BY <1>0, DoneStays DEF OutcomesDone
<1>2. Locked' /\ SeenStands'
  BY <1>0 DEF Locked, SeenStands
<1>3. FileStands'
  <2>1. Live' => Loads(disk)
    BY <1>0 DEF Live, Loads, Restart
  <2>2. ASSUME Loads(disk)
        PROVE  /\ DOMAIN seen = {} /\ ops' = disk.ops /\ Live
    BY <1>0, <2>2 DEF Loads, FileStands, Live
  <2> QED BY <1>0, <2>1, <2>2 DEF FileStands, Recorded
<1> QED BY <1>1, <1>2, <1>3 DEF FileInv

\* What the state file says, or will say once it is written, stands.
LEMMA DiskStep ==
    ASSUME IInv, Frame, TypeOK',
           \/ OpsKept
           \/ \E t \in Threads : OpsConfirmed(t)
           \/ g_mu = NoConn /\ \E op, a : OpsBound(op, a)
           \/ Restart
    PROVE  FileInv'
<1>0. FileStep /\ SeenStands /\ Locked
  BY DEF Frame, IInv
<1>1. CASE Restart
  BY <1>1, RestartStands
<1>2. CASE \E t \in Threads : WriteStep(t) \/ SaveStep(t)
  BY <1>2, WriteStands, SaveStands
<1>3. ASSUME NEW t \in Threads, FinishStep(t), ~Restart PROVE FileInv'
  <2>1. ops' = ops /\ DOMAIN pc = Threads /\ pc[t] = "finish"
    BY <1>3 DEF FinishStep, store, IInv, TypeOK
  <2>2. CASE /\ g_mu' = t /\ disk' = NoFile
             /\ seen' = [op \in DOMAIN ops |-> {ops[op]}]
             /\ settled' = {op \in DOMAIN ops : ops[op].terminal_recorded}
             /\ Goto(t, "save")
    BY <2>1, <2>2, OpenStands DEF Goto
  <2>3. CASE UNCHANGED <<g_mu, file>> /\ Goto(t, Back(t))
    <3>1. \A u \in Threads : (pc'[u] = "save") = (pc[u] = "save")
      BY <2>1, <2>3 DEF Goto, Back
    <3>2. OpsKept
      BY <2>1, UnchangedKeeps DEF IInv
    <3>3. OutcomesDone(disk.ops)' /\ Locked' /\ FileStands'
      BY <1>3, <2>3, <3>1, <3>2, FileLeftAlone DEF file
    <3>4. SeenStands'
      BY <1>0, <2>1, <2>3 DEF SeenStands, file
    <3> QED BY <3>3, <3>4 DEF FileInv
  <2> QED BY <1>3, <2>2, <2>3 DEF FinishStep
<1>4. ASSUME ~Restart, ~\E t \in Threads : FinishStep(t) \/ SaveStep(t)
      PROVE  \A t \in Threads : (pc'[t] = "save") = (pc[t] = "save")
  BY <1>4, SaverStays DEF Frame, StackKept
<1>5. CASE /\ ~Restart /\ ~\E t \in Threads : FinishStep(t) \/ SaveStep(t)
           /\ UNCHANGED <<file, g_mu>> /\ (ops' = ops \/ g_mu = NoConn)
  <2>1. OutcomesDone(disk.ops)' /\ Locked' /\ FileStands'
    BY <1>4, <1>5, FileLeftAlone DEF file
  <2>2. SeenStands'
    BY <1>0, <1>5, LockedFree DEF SeenStands, file
  <2> QED BY <2>1, <2>2 DEF FileInv
<1>6. CASE /\ ~Restart /\ ~\E t \in Threads : FinishStep(t) \/ SaveStep(t)
           /\ UNCHANGED <<disk, settled, g_mu>> /\ Observe
  <2>1. DOMAIN seen' = DOMAIN seen
    BY <1>6 DEF Observe
  <2>2. OutcomesDone(disk.ops)' /\ Locked' /\ FileStands'
    BY <1>4, <1>6, <2>1, FileLeftAlone
  <2>3. SeenStands'
    <3>1. CASE OpsKept \/ \E t \in Threads : OpsConfirmed(t)
      BY <1>6, <3>1, ObserveStands
    <3>2. CASE g_mu = NoConn
      BY <1>0, <2>1, <3>2, LockedFree DEF SeenStands
    <3> QED BY <1>6, <3>1, <3>2
  <2> QED BY <2>2, <2>3 DEF FileInv
<1> QED BY <1>0, <1>1, <1>2, <1>3, <1>5, <1>6 DEF FileStep

-----------------------------------------------------------------------------
(* The recovery generations.                                               *)

\* A transfer reaches the generation after that of the envelope it puts on
\* the stack of its thread, and never goes back.
LEMMA TransferStep ==
    ASSUME IInv, NEW w \in Workers, TransferOwnership(w)
    PROVE  /\ Unowned'
           /\ ownership.generation \in Nat /\ ownership'.generation \in Nat
           /\ ownership.generation <= ownership'.generation
           /\ local'[w].authority.recovery_generation < ownership'.generation
<1> DEFINE cur == current_authority(g_current_op)
           gen == cur.recovery_generation + 1
<1>1. cur \in AuthorityEnvelope
  BY CurrentAuthorityType DEF IInv
<1>2. /\ ownership' = transfer(ownership, "REPLACEMENT_WORKER", gen, next_id)
      /\ local' = [local EXCEPT ![w].authority = cur]
  BY DEF TransferOwnership
<1>3. local'[w].authority = cur
  BY <1>2 DEF IInv, TypeOK, Threads, Locals
<1> HIDE DEF cur
<1>4. cur.recovery_generation \in Nat
  BY <1>1 DEF AuthorityEnvelope
<1>5. /\ gen \in Nat \ {0} /\ next_id \in Attempts
      /\ ownership \in Ownership(Attempts \cup {NullId})
  <2>1. TypeOK
    BY DEF IInv
  <2>2. next_id \in Attempts
    BY <2>1, IdsAssumption DEF TypeOK
  <2>3. ownership \in Ownership(Attempts \cup {NullId})
    BY <2>1 DEF TypeOK, WellStored
  <2>4. gen \in Nat \ {0}
    BY <1>4
  <2> QED BY <2>2, <2>3, <2>4
<1>6. /\ ownership' \in Ownership(Attempts \cup {NullId})
      /\ ownership'.owner # "NONE"
      /\ gen <= ownership'.generation /\ ownership.generation <= ownership'.generation
  <2> HIDE DEF gen
  <2> QED BY <1>2, <1>5, TransferEffect DEF IInv, Unowned
<1>7. ownership.generation \in Nat /\ ownership'.generation \in Nat
  BY <1>5, <1>6 DEF Ownership
<1>8. cur.recovery_generation < ownership'.generation
  BY <1>4, <1>6, <1>7
<1> QED BY <1>3, <1>6, <1>7, <1>8 DEF Unowned

\* Ownership never goes back to an older generation while the coordinator lives.
LEMMA OwnershipStep ==
    ASSUME IInv, Frame, ~Restart
    PROVE  /\ Unowned'
           /\ ownership.generation \in Nat /\ ownership'.generation \in Nat
           /\ ownership.generation <= ownership'.generation
<1>1. CASE ownership' = ownership
  <2>1. ownership.generation \in Nat
    BY DEF IInv, TypeOK, WellStored, Ownership
  <2> QED BY <1>1, <2>1 DEF IInv, Unowned
<1>2. CASE \E w \in Workers : TransferOwnership(w)
  BY <1>2, TransferStep
<1> QED BY <1>1, <1>2 DEF Frame, StoreKept

\* A restart leaves recovery unowned.
LEMMA UnownedStep ==
    ASSUME IInv, Frame
    PROVE  Unowned'
<1>1. CASE Restart
  BY <1>1 DEF Restart, Unowned, Unassigned
<1> QED BY <1>1, OwnershipStep

\* Every binding of an attempt is preceded by the transfer to its generation.
LEMMA GenerationsStep ==
    ASSUME IInv, Frame, TypeOK', Generations, ~Restart,
           \/ OpsKept
           \/ \E t \in Threads : ConfirmStep(t) /\ OpsConfirmed(t)
           \/ \E c \in Clients :
                  BindFirst(c) /\ OpsBound(local[c].op, local[c].authority)
           \/ \E w \in Workers :
                  /\ RebindStep(w)
                  /\ OpsBound(g_current_op, new_attempt(local[w].authority))
    PROVE  Generations'
<1>1. /\ ownership.generation \in Nat /\ ownership'.generation \in Nat
      /\ ownership.generation <= ownership'.generation
  BY OwnershipStep
<1>2. ASSUME NEW t \in Threads, pc'[t] \in {"build", "record", "rebind"}
      PROVE  local'[t].authority.recovery_generation < ownership'.generation
  <2>1. CASE /\ pc[t] \in {"build", "record", "rebind"}
             /\ local'[t].authority = local[t].authority
    <3>1. local[t].authority.recovery_generation < ownership.generation
      BY <2>1 DEF Generations
    <3>2. local[t].authority.recovery_generation \in Nat
      BY LocalType DEF IInv, AuthorityEnvelope
    <3> QED BY <1>1, <2>1, <3>1, <3>2
  <2>2. CASE t \in Workers /\ TransferOwnership(t)
    BY <2>2, TransferStep
  <2> QED BY <1>2, <2>1, <2>2 DEF Frame, StackKept
<1>3. ASSUME NEW t \in Threads, pc'[t] = "bind"
      PROVE  local'[t].authority.recovery_generation = 0
  BY <1>3, FirstAttemptType DEF Frame, StackKept, Generations, IInv
<1>4. ASSUME NEW op \in DOMAIN ops, NEW a, a = ops[op].authority
      PROVE  /\ a.recovery_generation \in Nat
             /\ a.recovery_generation <= ownership'.generation
  <2>1. a.recovery_generation \in Nat
    BY <1>4 DEF IInv, TypeOK, WellStored, Runtime, AuthorityEnvelope
  <2>2. a.recovery_generation <= ownership.generation
    BY <1>4 DEF Generations, RecoveryGenerationOwned
  <2> QED BY <1>1, <2>1, <2>2
<1>5. ASSUME NEW o, NEW a, OpsBound(o, a), a.recovery_generation <= ownership'.generation
      PROVE  RecoveryGenerationOwned'
  <2> SUFFICES ASSUME NEW op \in DOMAIN ops'
               PROVE  ops'[op].authority.recovery_generation <= ownership'.generation
    BY DEF RecoveryGenerationOwned
  <2>1. CASE op \in DOMAIN ops /\ ops'[op].authority = ops[op].authority
    BY <1>4, <2>1
  <2>2. CASE ops'[op].authority = a
    BY <1>5, <2>2
  <2> QED BY <1>5, <2>1, <2>2 DEF OpsBound, Rebinds
<1>6. RecoveryGenerationOwned'
  <2>1. CASE OpsKept
    BY <1>4, <2>1 DEF OpsKept, Keeps, RecoveryGenerationOwned
  <2>2. CASE \E t \in Threads : ConfirmStep(t) /\ OpsConfirmed(t)
    BY <1>4, <2>2 DEF OpsConfirmed, Confirms, RecoveryGenerationOwned
  <2>3. ASSUME NEW c \in Clients, BindFirst(c), OpsBound(local[c].op, local[c].authority)
        PROVE  RecoveryGenerationOwned'
    <3>1. local[c].authority.recovery_generation = 0
      BY <2>3 DEF Generations, BindFirst, Threads
    <3>2. 0 <= ownership'.generation
      BY <1>1
    <3> QED BY <1>5, <2>3, <3>1, <3>2
  <2>4. ASSUME NEW w \in Workers, RebindStep(w),
               OpsBound(g_current_op, new_attempt(local[w].authority))
        PROVE  RecoveryGenerationOwned'
    <3> DEFINE a == local[w].authority
    <3>1. a \in AuthorityEnvelope /\ a.recovery_generation < ownership.generation
      BY <2>4, LocalType DEF IInv, Generations, RebindStep, Threads
    <3>2. a.recovery_generation \in Nat
      BY <3>1 DEF AuthorityEnvelope
    <3> HIDE DEF a
    <3>3. new_attempt(a).recovery_generation = a.recovery_generation + 1
      BY <3>1, NewAttemptType DEF IInv
    <3>4. new_attempt(a).recovery_generation <= ownership'.generation
      BY <1>1, <3>1, <3>2, <3>3
    <3> QED BY <1>5, <2>4, <3>4 DEF a
  <2> QED BY <2>1, <2>2, <2>3, <2>4
<1> QED BY <1>2, <1>3, <1>6 DEF Generations

-----------------------------------------------------------------------------
(* The invariant, and what follows from it.                                *)

\* Nothing is queued, reported, decided or owned at the start.
LEMMA InitIInv == Init => IInv
<1> SUFFICES ASSUME Init PROVE IInv
  OBVIOUS
<1>1. TypeOK
  BY InitType
<1>2. ASSUME NEW w \in Workers PROVE Work(w)
  <2>1. inbox[w] = <<>> /\ outbox[w] = <<>> /\ wstate[w] = "new"
    BY DEF Init
  <2> QED BY <2>1, EmptySeq DEF Work
<1>3. DOMAIN ops = {} /\ DOMAIN disk.ops = {}
  BY NoFileType DEF Init
<1>4. ReportedDone /\ ConfirmDone
  BY DEF Init, ReportedDone, ConfirmDone
<1>5. OutcomesDone(ops) /\ OutcomesDone(disk.ops)
  BY <1>3 DEF OutcomesDone
<1>8. NotStarted /\ Requested
  BY DEF Init, NotStarted, Requested, Threads
<1>9. Locked /\ SeenStands /\ FileStands
  <2>1. DOMAIN seen = {} /\ settled = {}
    BY DEF Init
  <2> QED BY <1>3, <2>1 DEF Locked, SeenStands, FileStands
<1>6. Unowned
  BY DEF Init, Unowned, Unassigned
<1>7. Generations
  BY <1>3 DEF Init, Generations, RecoveryGenerationOwned
<1> QED BY <1>1, <1>2, <1>4, <1>5, <1>6, <1>7, <1>8, <1>9 DEF IInv

\* Every step keeps the invariant.
LEMMA NextIInv == IInv /\ [Next]_vars => IInv'
<1> SUFFICES ASSUME IInv, [Next]_vars PROVE IInv'
  OBVIOUS
<1>1. TypeOK
  BY DEF IInv
<1>2. /\ TypeOK'
      /\ \/ OpsKept
         \/ \E t \in Threads : ConfirmStep(t) /\ OpsConfirmed(t)
         \/ \E c \in Clients :
                BindFirst(c) /\ OpsBound(local[c].op, local[c].authority)
         \/ \E w \in Workers :
                /\ RebindStep(w)
                /\ OpsBound(g_current_op, new_attempt(local[w].authority))
         \/ Restart
  BY <1>1, StepKinds
<1>3. Frame
  BY <1>1, StepFrame
<1>4. Grows /\ (restarts' = restarts \/ Restart)
  BY <1>3 DEF Frame, StoreKept
<1>5. \A w \in Workers : Work(w)'
  BY <1>4, WorkStep DEF IInv
<1>6. ReportedDone'
  BY <1>4, ReportedStep DEF IInv
<1>7. ConfirmDone'
  BY <1>3, ConfirmDoneStep
<1>8. OutcomesDone(ops)'
  <2>1. ASSUME NEW c \in Clients, BindFirst(c) PROVE local[c].authority.attempt # NullId
    BY <2>1 DEF IInv, Requested, BindFirst, Threads
  <2>2. ASSUME NEW w \in Workers PROVE new_attempt(local[w].authority).attempt # NullId
    <3>1. next_id \in Attempts /\ local[w].authority \in AuthorityEnvelope
      BY <1>1, LocalType, IdsAssumption DEF TypeOK, Threads
    <3> QED BY <3>1, NullIdAssumption DEF new_attempt, AuthorityEnvelope
  <2> QED BY <1>2, <1>3, <2>1, <2>2, OutcomesStep
<1>9. OutcomesDone(disk.ops)' /\ Locked' /\ SeenStands' /\ FileStands'
  <2>1. \A c \in Clients : BindFirst(c) => g_mu = NoConn
    BY DEF BindFirst
  <2>2. \A w \in Workers : RebindStep(w) => g_mu = NoConn
    BY DEF RebindStep
  <2> QED BY <1>2, <1>3, <2>1, <2>2, DiskStep DEF FileInv
<1>12. NotStarted' /\ Requested'
  <2>1. NotStarted'
    BY <1>1, NewStays DEF IInv, NotStarted
  <2> QED BY <1>3, <2>1, RequestedStep
<1>10. Unowned'
  BY <1>3, UnownedStep
<1>11. restarts' = 0 => Generations'
  <2> SUFFICES ASSUME restarts' = 0 PROVE Generations'
    OBVIOUS
  <2>1. ~Restart
    BY <1>1 DEF Restart, TypeOK
  <2>2. Generations
    BY <1>4, <2>1 DEF IInv
  <2> QED BY <1>2, <1>3, <2>1, <2>2, GenerationsStep
<1> QED BY <1>2, <1>5, <1>6, <1>7, <1>8, <1>9, <1>10, <1>11, <1>12 DEF IInv

\* The inductive invariant holds throughout.
LEMMA InvariantHolds == Spec => []IInv
BY InitIInv, NextIInv, PTL DEF Spec

\* An outcome is recorded only for an attempt that was carried out:
\* handle_message confirms under the envelope of a report and only for the
\* attempt that holds the operation, a worker reports only what it went through,
\* and goes only through what dispatch_to sent it; this for any number of
\* workers, losses, repeated completions and crashes of the coordinator, and for
\* outcomes reloaded from a file that was written while they were recorded.
THEOREM CompletionsAreReal == Spec => []NoPhantomCompletion
<1>1. IInv => NoPhantomCompletion
  BY DEF IInv, OutcomesDone, Done, NoPhantomCompletion, Recorded
<1> QED BY InvariantHolds, <1>1, PTL

\* Memory never goes back on an outcome that a loadable state file holds, read
\* field by field as it was, and what was decided when the save began is in that
\* file as it was decided, before and after crashes.
THEOREM PersistedOutcomesStand == Spec => []PersistedOutcomeStands
<1>1. IInv => PersistedOutcomeStands
  <2> SUFFICES ASSUME IInv, Loads(disk)
               PROVE  /\ \A op \in DOMAIN disk.ops :
                             disk.ops[op].terminal_recorded => Recorded(op)
                      /\ \A op \in settled :
                             /\ op \in DOMAIN disk.ops /\ Recorded(op)
                             /\ DecisionOf(disk.ops[op]) = DecisionOf(ops[op])
    BY DEF PersistedOutcomeStands
  <2>1. Live /\ DOMAIN seen = {} /\ FileStands
    BY DEF IInv, Live, Loads, FileStands
  <2> QED BY <2>1 DEF FileStands
<1> QED BY InvariantHolds, <1>1, PTL

\* As long as the coordinator does not crash, no operation runs under a recovery
\* generation that nobody owns.
THEOREM GenerationsAreOwned == Spec => [](restarts = 0 => RecoveryGenerationOwned)
<1>1. IInv => (restarts = 0 => RecoveryGenerationOwned)
  BY DEF IInv, Generations
<1> QED BY InvariantHolds, <1>1, PTL

\* A coordinator that does not crash decides each operation at most once, and
\* only by confirming a completion: the runtime implements TerminalOutcome.
\* (The outcomes a crash may still lose are those not in the state file.)
THEOREM CoordinatorImplementsOutcome == MaxRestarts = 0 => (Spec => OutcomeSpec)
<1> SUFFICES ASSUME MaxRestarts = 0 PROVE Spec => OutcomeSpec
  OBVIOUS
<1> DEFINE dec == [op \in Operations |->
                      IF Recorded(op) THEN DecisionOf(ops[op]) ELSE Undecided]
<1>1. Init => Abstract!Init
  <2> SUFFICES ASSUME Init PROVE \A op \in Operations : ~Recorded(op)
    BY DEF Abstract!Init
  <2>1. DOMAIN ops = {}
    BY DEF Init
  <2> QED BY <2>1 DEF Recorded
<1>2. TypeOK /\ [Next]_vars => [Abstract!Next]_dec
  <2> SUFFICES ASSUME TypeOK, [Next]_vars PROVE Abstract!Next \/ dec' = dec
    OBVIOUS
  <2>1. \/ OpsKept
        \/ \E t \in Threads : OpsConfirmed(t)
        \/ \E op, a : OpsBound(op, a)
    <3>1. ~Restart
      BY DEF TypeOK, Restart
    <3> QED BY <3>1, StepKinds
  <2>2. CASE \E t \in Threads, o \in DOMAIN ops :
                 OpsConfirmed(t) /\ Confirms(ops[o], local[t].authority, ops'[o])
    <3>1. PICK t \in Threads, o \in DOMAIN ops :
              OpsConfirmed(t) /\ Confirms(ops[o], local[t].authority, ops'[o])
      BY <2>2
    <3>2. o \in Operations /\ DOMAIN ops' = DOMAIN ops /\ o = local[t].op
      BY <3>1 DEF TypeOK, WellStored, OpsConfirmed, Confirms
    <3>3. \A p \in Operations : p # o => dec'[p] = dec[p]
      BY <3>1, <3>2 DEF OpsConfirmed, Recorded
    <3>4. dec[o] = Undecided /\ dec'[o] = DecisionOf(ops'[o])
      BY <3>1, <3>2 DEF Confirms, Recorded
    <3>5. DecisionOf(ops'[o]) \in [state     : {"COMPLETION_CONFIRMED"},
                                   outcome   : {Completed},
                                   authority : AuthorityEnvelope]
      BY <3>1, LocalType DEF Confirms, DecisionOf
    <3>6. dec' = [dec EXCEPT ![o] = dec'[o]]
      BY <3>3
    <3> QED BY <3>2, <3>4, <3>5, <3>6 DEF Abstract!Next, Abstract!Decide
  <2>3. CASE ~\E t \in Threads, o \in DOMAIN ops :
                  OpsConfirmed(t) /\ Confirms(ops[o], local[t].authority, ops'[o])
    <3> SUFFICES ASSUME NEW op \in Operations PROVE dec'[op] = dec[op]
      BY Zenon
    <3>1. CASE Recorded(op)
      <4>1. op \in DOMAIN ops' /\ ops'[op] = ops[op]
        BY <2>1, <3>1, OutcomeKept DEF Recorded
      <4> QED BY <3>1, <4>1 DEF Recorded
    <3>2. CASE ~Recorded(op)
      <4>1. op \notin DOMAIN ops' \/ ~ops'[op].terminal_recorded
        <5>1. CASE OpsKept
          BY <3>2, <5>1 DEF OpsKept, Keeps, Recorded
        <5>2. CASE \E t \in Threads : OpsConfirmed(t)
          BY <2>3, <3>2, <5>2 DEF OpsConfirmed, Recorded
        <5>3. CASE \E o, a : OpsBound(o, a)
          BY <3>2, <5>3 DEF OpsBound, Rebinds, Recorded
        <5> QED BY <2>1, <5>1, <5>2, <5>3
      <4> QED BY <3>2, <4>1 DEF Recorded
    <3> QED BY <3>1, <3>2
  <2> QED BY <2>2, <2>3
<1> QED BY <1>1, <1>2, TypeCorrect, PTL DEF Spec, OutcomeSpec, Abstract!Spec

-----------------------------------------------------------------------------
(* A single request.                                                       *)
(*                                                                         *)
(* With one client the request and its recoveries take turns: a client     *)
(* until it has noted the connection that runs its operation, a connection *)
(* from the moment its loss is noticed until it has noted the next one.    *)
(* Whoever has the turn is the only one that binds, sends or supersedes an *)
(* attempt; everybody else leaves the authority as it is.                  *)

OneClient == \A c, d \in Clients : c = d

Recovering == {"check", "own", "build", "record", "rebind", "decide"}

Busy(t) ==
    \/ pc[t] \in Recovering \cup {"send", "mark"}
    \/ t \in Clients /\ pc[t] \in {"start", "bind"}

Turn ==
    /\ \A t, u \in Threads : Busy(t) /\ Busy(u) => t = u
    /\ g_running_conn # NoConn => \A t \in Threads : ~Busy(t)
    /\ \A c \in Clients : pc[c] \notin Recovering \cup {"confirm", "ack"}

\* A dispatch to w carries the authority of op.
Assigned(w, op) ==
    /\ op \in DOMAIN ops
    /\ [to |-> w, op |-> op, authority |-> ops[op].authority] \in sent

Logged(op, a) == \E f \in failures : f.op = op /\ f.authority = a

Unsent(a) == \A d \in sent : d.authority.attempt # a.attempt

\* An envelope of an attempt that was drawn, and that can be put on record.
Drawn(a) ==
    /\ a \in AuthorityEnvelope
    /\ a.attempt # NullId /\ a.attempt < next_id
    /\ a.attempt_generation # 0 /\ a.coordinator_epoch # 0

\* What the thread whose turn it is relies on.
Phase(t) ==
    /\ pc[t] \in {"start", "bind"} => sent = {} /\ DOMAIN ops = {}
    /\ pc[t] = "bind" => Drawn(local[t].authority)
    /\ pc[t] \in {"send", "mark"} =>
           /\ local[t].conn \in Workers
           /\ DispatchedOp(t) \in DOMAIN ops
           /\ local[t].authority = ops[DispatchedOp(t)].authority
    /\ pc[t] = "send" => Unsent(local[t].authority)
    /\ pc[t] = "mark" => Assigned(local[t].conn, DispatchedOp(t))
    /\ pc[t] \in Recovering \ {"decide"} => Assigned(t, g_current_op)
    /\ pc[t] \in {"build", "record", "rebind"} =>
           local[t].authority = ops[g_current_op].authority
    /\ pc[t] = "record" => local[t].op = g_current_op
    /\ pc[t] = "rebind" => Logged(g_current_op, local[t].authority)
    /\ pc[t] = "decide" =>
           /\ g_current_op \in DOMAIN ops
           /\ \/ local[t].conn = NoConn
              \/ is_terminal(ops[g_current_op].state)
              \/ /\ ops[g_current_op].authority = local[t].authority
                 /\ Unsent(local[t].authority)

Phases == \A t \in Threads : Busy(t) => Phase(t)

Running == g_running_conn # NoConn => Assigned(g_running_conn, g_current_op)

\* An attempt is sent to one worker, and superseded only once it is on record.
SentOnce ==
    /\ \A d, e \in sent : d.authority.attempt = e.authority.attempt => d = e
    /\ \A d \in sent :
           /\ Drawn(d.authority)
           /\ d.op \in DOMAIN ops
           /\ \/ d.authority = ops[d.op].authority
              \/ /\ Logged(d.op, d.authority)
                 /\ d.authority.attempt # ops[d.op].authority.attempt

Bound ==
    \A op \in DOMAIN ops :
        /\ Drawn(ops[op].authority)
        /\ ops[op].terminal_recorded => is_terminal(ops[op].state)

Turns == Turn /\ Phases /\ Running /\ SentOnce /\ Bound

-----------------------------------------------------------------------------
(* The steps of the threads that do not have the turn.                     *)

\* No operation changes hands, nothing is forgotten.
AuthorityStays ==
    /\ DOMAIN ops' = DOMAIN ops
    /\ \A op \in DOMAIN ops :
           /\ ops'[op].authority = ops[op].authority
           /\ is_terminal(ops[op].state) => is_terminal(ops'[op].state)
    /\ failures \subseteq failures'
    /\ next_id <= next_id'

\* Whoever moves goes where it does not need the turn.
Aside ==
    /\ AuthorityStays
    /\ UNCHANGED <<sent, g_running_conn, g_current_op>>
    /\ \A t \in Threads :
           \/ pc'[t] = pc[t] /\ local'[t] = local[t]
           \/ pc'[t] \in {"recv", "confirm", "ack", "finish", "save", "ended"}
    /\ \A c \in Clients : pc'[c] \in {"confirm", "ack"} => pc[c] \in {"confirm", "ack"}

\* Reports and confirmations leave the authority of every operation alone.
LEMMA KeptAuthority ==
    ASSUME OpsKept \/ (\E t \in Threads : OpsConfirmed(t)),
           failures \subseteq failures', next_id <= next_id'
    PROVE  AuthorityStays
<1>1. is_terminal("COMPLETION_CONFIRMED")
  BY DEF is_terminal
<1>2. CASE OpsKept
  BY <1>2 DEF OpsKept, Keeps, AuthorityStays
<1>3. CASE \E t \in Threads : OpsConfirmed(t)
  BY <1>1, <1>3 DEF OpsConfirmed, Confirms, AuthorityStays
<1> QED BY <1>2, <1>3

\* An attempt that was drawn is never drawn again.
LEMMA DrawnStays ==
    ASSUME TypeOK, TypeOK', next_id <= next_id', NEW a, Drawn(a)
    PROVE  Drawn(a)'
<1>1. a.attempt \in Nat /\ a.attempt < next_id
  BY IdsAssumption DEF Drawn, AuthorityEnvelope
<1>2. next_id \in Nat /\ next_id' \in Nat
  BY DEF TypeOK
<1>3. a.attempt < next_id'
  BY <1>1, <1>2
<1> QED BY <1>3 DEF Drawn

\* An assignment lasts as long as the authority does.
LEMMA AssignedStays ==
    ASSUME AuthorityStays, sent \subseteq sent', NEW w, NEW op, Assigned(w, op)
    PROVE  Assigned(w, op)'
BY DEF AuthorityStays, Assigned

\* As long as nothing is sent and nobody is bound, no attempt is sent twice or
\* superseded.
LEMMA SentOnceStays ==
    ASSUME TypeOK, TypeOK', AuthorityStays, sent' = sent, SentOnce
    PROVE  SentOnce'
<1>1. \A d, e \in sent' : d.authority.attempt = e.authority.attempt => d = e
  BY DEF SentOnce
<1>2. ASSUME NEW d \in sent'
      PROVE  /\ Drawn(d.authority)'
             /\ d.op \in DOMAIN ops'
             /\ \/ d.authority = ops'[d.op].authority
                \/ /\ Logged(d.op, d.authority)'
                   /\ d.authority.attempt # ops'[d.op].authority.attempt
  <2>1. /\ Drawn(d.authority) /\ d.op \in DOMAIN ops
        /\ \/ d.authority = ops[d.op].authority
           \/ /\ Logged(d.op, d.authority)
              /\ d.authority.attempt # ops[d.op].authority.attempt
    BY DEF SentOnce
  <2>2. Drawn(d.authority)'
    BY <2>1, DrawnStays DEF AuthorityStays
  <2> QED BY <2>1, <2>2 DEF AuthorityStays, Logged
<1> QED BY <1>1, <1>2 DEF SentOnce

\* Whoever waits for its turn, or has it, finds everything as it was.
LEMMA PhaseStays ==
    ASSUME TypeOK, TypeOK', Aside, NEW t \in Threads, Phase(t),
           pc'[t] = pc[t], local'[t] = local[t]
    PROVE  Phase(t)'
<1>1. DispatchedOp(t)' = DispatchedOp(t)
  BY DEF DispatchedOp, Aside
<1>2. \A a : Drawn(a) => Drawn(a)'
  BY DrawnStays DEF Aside, AuthorityStays
<1>3. \A w, op : Assigned(w, op) => Assigned(w, op)'
  BY AssignedStays DEF Aside
<1>4. \A op, a : Logged(op, a) => Logged(op, a)'
  BY DEF Logged, Aside, AuthorityStays
<1>5. \A a : Unsent(a) => Unsent(a)'
  BY DEF Unsent, Aside
<1>6. AuthorityStays /\ g_current_op' = g_current_op /\ sent' = sent
  BY DEF Aside
<1>7. Assigned(t, g_current_op) => g_current_op \in DOMAIN ops
  BY DEF Assigned
<1> QED BY <1>1, <1>2, <1>3, <1>4, <1>5, <1>6, <1>7 DEF Phase, AuthorityStays, Recovering

\* A step of somebody who does not have the turn.
LEMMA AsideStep ==
    ASSUME TypeOK, TypeOK', Aside, Turn, Phases, Running, SentOnce
    PROVE  Turn' /\ Phases' /\ Running' /\ SentOnce'
<1>1. ASSUME NEW t \in Threads, Busy(t)'
      PROVE  Busy(t) /\ pc'[t] = pc[t] /\ local'[t] = local[t]
  BY <1>1 DEF Busy, Aside, Recovering
<1>2. Turn'
  <2>1. \A t, u \in Threads : Busy(t)' /\ Busy(u)' => t = u
    BY <1>1 DEF Turn
  <2>2. g_running_conn' # NoConn => \A t \in Threads : ~Busy(t)'
    BY <1>1 DEF Turn, Aside
  <2>3. ASSUME NEW c \in Clients
        PROVE  pc'[c] \notin Recovering \cup {"confirm", "ack"}
    <3>1. c \in Threads /\ pc[c] \notin Recovering \cup {"confirm", "ack"}
      BY DEF Turn, Threads
    <3> QED BY <3>1 DEF Aside, Recovering
  <2> QED BY <2>1, <2>2, <2>3 DEF Turn
<1>3. Phases'
  BY <1>1, PhaseStays DEF Phases
<1>4. Running'
  BY AssignedStays DEF Running, Aside
<1>5. SentOnce'
  BY SentOnceStays DEF Aside
<1> QED BY <1>2, <1>3, <1>4, <1>5

\* The worker processes, the handlers of what they send, the steps that follow
\* an accepted completion, and the end of a request.
LEMMA OthersStepAside ==
    ASSUME TypeOK, TypeOK', Turn,
           \/ \E w \in Workers :
                  \/ WorkerStart(w) \/ KillWorker(w) \/ WorkerStep(w)
                  \/ HandleRegister(w) \/ HandleRunning(w) \/ HandleFailure(w)
                  \/ HandleComplete(w)
           \/ \E c \in Clients : RunStep(c)
           \/ \E t \in Threads : CompletionStep(t)
    PROVE  Aside
<1> DEFINE Untouched ==
               /\ failures' = failures /\ next_id' = next_id /\ sent' = sent
               /\ g_running_conn' = g_running_conn /\ g_current_op' = g_current_op
           Moved(t) ==
               /\ \/ pc'[t] = pc[t] /\ local'[t] = local[t]
                  \/ pc'[t] \in {"recv", "confirm", "ack", "finish", "save", "ended"}
               /\ t \in Clients /\ pc'[t] \in {"confirm", "ack"} =>
                      pc[t] \in {"confirm", "ack"}
<1>0. /\ DOMAIN pc = Threads /\ DOMAIN local = Threads
      /\ Workers \subseteq Threads /\ Clients \subseteq Threads
      /\ Workers \cap Clients = {} /\ next_id \in Nat
  BY WorkersAssumption DEF TypeOK, Threads
<1>1. OpsKept \/ (\E t \in Threads : OpsConfirmed(t))
  <2>1. ASSUME NEW w \in Workers, WorkerStart(w) \/ KillWorker(w) \/ WorkerStep(w)
        PROVE  OpsKept
    BY <2>1, WorkerType, UnchangedKeeps
  <2>2. ASSUME NEW w \in Workers,
               \/ HandleRegister(w) \/ HandleRunning(w) \/ HandleFailure(w)
               \/ HandleComplete(w)
        PROVE  OpsKept
    BY <2>2, HandlerType
  <2>3. ASSUME NEW c \in Clients, RunStep(c)
        PROVE  OpsKept
    BY <2>3, ClientType DEF RunStep, BindFirst
  <2>4. ASSUME NEW t \in Threads, CompletionStep(t)
        PROVE  OpsKept \/ OpsConfirmed(t)
    BY <2>4, CompletionType, ConfirmType DEF CompletionStep
  <2> QED BY <2>1, <2>2, <2>3, <2>4
<1>2. Untouched
  <2> USE DEF globals, store, bounds, history
  <2>1. ASSUME NEW w \in Workers, WorkerStart(w) \/ KillWorker(w) \/ WorkerStep(w)
        PROVE  Untouched
    BY <2>1 DEF WorkerStart, KillWorker, WorkerStep, WorkerReceive, WorkerEffect,
                WorkerReport, WorkerCoordinatorLost
  <2>2. ASSUME NEW w \in Workers,
               \/ HandleRegister(w) \/ HandleRunning(w) \/ HandleFailure(w)
               \/ HandleComplete(w)
        PROVE  Untouched
    BY <2>2 DEF HandleRegister, HandleRunning, HandleFailure, HandleComplete, ReportStep
  <2>3. ASSUME NEW c \in Clients, RunStep(c) PROVE Untouched
    BY <2>3 DEF RunStep
  <2>4. ASSUME NEW t \in Threads, CompletionStep(t) PROVE Untouched
    BY <2>4 DEF CompletionStep, ConfirmStep, AckStep, FinishStep, WriteStep, SaveStep
  <2> QED BY <2>1, <2>2, <2>3, <2>4
<1>3. ASSUME NEW t \in Threads PROVE Moved(t)
  <2> USE <1>0 DEF Goto, Back
  <2>1. ASSUME NEW w \in Workers, WorkerStart(w) \/ KillWorker(w) \/ WorkerStep(w)
        PROVE  Moved(t)
    BY <2>1 DEF WorkerStart, KillWorker, WorkerStep, WorkerReceive, WorkerEffect,
                WorkerReport, WorkerCoordinatorLost
  <2>2. ASSUME NEW w \in Workers, HandleRegister(w) \/ HandleRunning(w) \/ HandleFailure(w)
        PROVE  Moved(t)
    BY <2>2 DEF HandleRegister, HandleRunning, HandleFailure
  <2>3. ASSUME NEW w \in Workers, HandleComplete(w) PROVE Moved(t)
    BY <2>3 DEF HandleComplete, ReportStep
  <2>4. ASSUME NEW c \in Clients, RunStep(c) PROVE Moved(t)
    BY <2>4 DEF RunStep
  <2>5. ASSUME NEW u \in Threads, CompletionStep(u) PROVE Moved(t)
    BY <2>5 DEF CompletionStep, ConfirmStep, AckStep, FinishStep, WriteStep, SaveStep, Turn
  <2> QED BY <2>1, <2>2, <2>3, <2>4, <2>5
<1>4. AuthorityStays
  BY <1>0, <1>1, <1>2, KeptAuthority
<1> QED BY <1>0, <1>2, <1>3, <1>4 DEF Aside

-----------------------------------------------------------------------------
(* The steps of the thread that has the turn.                              *)

\* While a thread has the turn, no other has it.
LEMMA OthersWait ==
    ASSUME Turn, NEW t \in Threads, Busy(t)
    PROVE  /\ \A u \in Threads : u # t => ~Busy(u)
           /\ g_running_conn = NoConn
BY DEF Turn

\* A step of the thread that has the turn is only about what it relies on itself.
LEMMA TurnStep ==
    ASSUME TypeOK, Turn, NEW t \in Threads,
           \A u \in Threads : u # t => ~Busy(u),
           \A u \in Threads : u # t => pc'[u] = pc[u],
           g_running_conn' = NoConn \/ ~Busy(t)',
           t \in Clients => pc'[t] \notin Recovering \cup {"confirm", "ack"},
           Busy(t)' => Phase(t)'
    PROVE  Turn' /\ Phases'
<1>1. \A u \in Threads : u # t => ~Busy(u)'
  BY DEF Busy
<1>2. \A c \in Clients : pc'[c] \notin Recovering \cup {"confirm", "ack"}
  <2> SUFFICES ASSUME NEW c \in Clients
               PROVE  pc'[c] \notin Recovering \cup {"confirm", "ack"}
    OBVIOUS
  <2>1. c \in Threads /\ pc[c] \notin Recovering \cup {"confirm", "ack"}
    BY DEF Turn, Threads
  <2> QED BY <2>1
<1>3. Turn'
  BY <1>1, <1>2 DEF Turn
<1> QED BY <1>1, <1>3 DEF Phases

\* A client draws its attempt; nothing was sent and no operation is known yet.
LEMMA ClientDispatchTurn ==
    ASSUME TypeOK, TypeOK', Turns, NEW c \in Clients, ClientDispatch(c)
    PROVE  Turn' /\ Phases' /\ Running' /\ SentOnce'
<1>0. c \in Threads /\ c \notin Workers /\ DOMAIN pc = Threads /\ DOMAIN local = Threads
  BY WorkersAssumption DEF TypeOK, Threads
<1>1. Busy(c) /\ pc[c] = "start"
  BY DEF ClientDispatch, Busy
<1>2. /\ \A u \in Threads : u # c => ~Busy(u)
      /\ g_running_conn = NoConn /\ sent = {} /\ DOMAIN ops = {}
  BY <1>0, <1>1, OthersWait DEF Turns, Phases, Phase
<1>3. PICK op \in Operations :
          local' = [local EXCEPT ![c] = [op |-> op, authority |-> FirstAttempt,
                                         conn |-> NoConn]]
  BY DEF ClientDispatch
<1>4. /\ pc' = [pc EXCEPT ![c] = "bind"] /\ next_id' = next_id + 1
      /\ ops' = ops /\ failures' = failures /\ sent' = sent
      /\ g_running_conn' = g_running_conn
  BY DEF ClientDispatch, Goto, globals, store, history
<1>5. Drawn(local[c].authority)'
  <2>1. local'[c].authority = FirstAttempt /\ FirstAttempt \in AuthorityEnvelope
    BY <1>0, <1>3, FirstAttemptType
  <2>2. /\ FirstAttempt.attempt = next_id /\ FirstAttempt.attempt_generation = 1
        /\ FirstAttempt.coordinator_epoch = 1
    BY DEF FirstAttempt, UnsetEnvelope
  <2>3. next_id \in Nat /\ next_id' = next_id + 1
    BY <1>4 DEF TypeOK
  <2>4. next_id # NullId /\ next_id < next_id'
    BY <2>3, NullIdAssumption, IdsAssumption
  <2> QED BY <2>1, <2>2, <2>3, <2>4 DEF Drawn
<1>6. Phase(c)'
  BY <1>0, <1>2, <1>4, <1>5 DEF Phase, Recovering
<1>7. Turn' /\ Phases'
  BY <1>0, <1>2, <1>4, <1>6, TurnStep DEF Turns, Recovering
<1>8. Running' /\ SentOnce'
  BY <1>2, <1>4 DEF Running, SentOnce
<1> QED BY <1>7, <1>8

\* The request ends: there is nobody to send it to.
LEMMA BindNobodyTurn ==
    ASSUME TypeOK, TypeOK', Turns, NEW c \in Clients, BindFirst(c), g_workers = {}
    PROVE  Aside
<1>1. /\ pc' = [pc EXCEPT ![c] = "ended"] /\ local' = local /\ ops' = ops
      /\ failures' = failures /\ next_id' = next_id /\ sent' = sent
      /\ g_running_conn' = g_running_conn /\ g_current_op' = g_current_op
  BY DEF BindFirst, Goto, globals, bounds, history
<1>2. next_id \in Nat /\ DOMAIN pc = Threads /\ Clients \subseteq Threads
  BY DEF TypeOK, Threads
<1>3. AuthorityStays
  BY <1>1, <1>2, UnchangedKeeps, KeptAuthority
<1> QED BY <1>1, <1>2, <1>3 DEF Aside

\* The first attempt is bound.
LEMMA BindFirstTurn ==
    ASSUME TypeOK, TypeOK', Turns, NEW c \in Clients, BindFirst(c), g_workers # {},
           OpsBound(local[c].op, local[c].authority)
    PROVE  Turn' /\ Phases' /\ Running' /\ SentOnce' /\ Bound'
<1> DEFINE op == local[c].op
           a == local[c].authority
<1>0. c \in Threads /\ DOMAIN pc = Threads /\ DOMAIN local = Threads /\ g_begin \in Workers
      /\ local[c] \in Locals
  BY LocalType DEF TypeOK, Threads
<1>1. pc[c] = "bind" /\ Busy(c)
  BY DEF BindFirst, Busy
<1>2. /\ \A u \in Threads : u # c => ~Busy(u)
      /\ g_running_conn = NoConn /\ sent = {} /\ DOMAIN ops = {} /\ Drawn(a)
  BY <1>0, <1>1, OthersWait DEF Turns, Phases, Phase
<1>3. /\ pc' = [pc EXCEPT ![c] = "send"] /\ sent' = sent
      /\ g_running_conn' = g_running_conn
      /\ local' = [local EXCEPT ![c].conn = g_begin]
      /\ DOMAIN ops' = DOMAIN ops \cup {op} /\ next_id' = next_id
  BY DEF BindFirst, Goto, globals, bounds, history, create_and_dispatch
<1>4. local'[c].op = op /\ local'[c].authority = a /\ local'[c].conn = g_begin
  BY <1>0, <1>3 DEF Locals
<1>5. /\ op \in DOMAIN ops' /\ ops'[op].authority = a
      /\ ~ops'[op].terminal_recorded
  BY <1>2, <1>3 DEF OpsBound
<1>6. DispatchedOp(c)' = op
  BY <1>4 DEF DispatchedOp
<1> HIDE DEF op, a
<1>7. Phase(c)'
  BY <1>0, <1>2, <1>3, <1>4, <1>5, <1>6 DEF Phase, Recovering, Unsent
<1>8. Turn' /\ Phases'
  BY <1>0, <1>2, <1>3, <1>7, TurnStep DEF Turns, Recovering
<1>9. Running' /\ SentOnce'
  BY <1>2, <1>3 DEF Running, SentOnce
<1>10. Bound'
  <2>1. DOMAIN ops' = {op}
    BY <1>2, <1>3
  <2>2. Drawn(ops'[op].authority)
    BY <1>2, <1>5
  <2> QED BY <1>3, <1>5, <2>1, <2>2 DEF Bound, Drawn
<1> QED BY <1>8, <1>9, <1>10

\* The DISPATCH message is sent: an attempt that was never sent before, and that
\* holds the authority.
LEMMA SendTurn ==
    ASSUME TypeOK, TypeOK', Turns, NEW t \in Threads, SendStep(t)
    PROVE  Turn' /\ Phases' /\ Running' /\ SentOnce'
<1> DEFINE a == local[t].authority
           op == DispatchedOp(t)
           d == [to |-> local[t].conn, op |-> op, authority |-> a]
<1>0. DOMAIN pc = Threads /\ next_id \in Nat
  BY DEF TypeOK
<1>1. pc[t] = "send" /\ Busy(t)
  BY DEF SendStep, Busy
<1>2. /\ \A u \in Threads : u # t => ~Busy(u)
      /\ g_running_conn = NoConn /\ local[t].conn \in Workers
      /\ op \in DOMAIN ops /\ a = ops[op].authority /\ Unsent(a)
  BY <1>1, OthersWait DEF Turns, Phases, Phase
<1>3. /\ pc' = [pc EXCEPT ![t] = "mark"] /\ local' = local /\ ops' = ops
      /\ sent' = sent \cup {d} /\ failures' = failures /\ next_id' = next_id
      /\ g_running_conn' = g_running_conn /\ g_current_op' = g_current_op
  BY DEF SendStep, Goto, globals, store, bounds, Message
<1>4. DispatchedOp(t)' = op
  BY <1>3 DEF DispatchedOp
<1>5. d.to = local[t].conn /\ d.op = op /\ d.authority = a
  OBVIOUS
<1>6. Assigned(local[t].conn, DispatchedOp(t))'
  BY <1>2, <1>3, <1>4 DEF Assigned
<1> HIDE DEF op, a, d
<1>7. Phase(t)'
  <2>1. pc'[t] = "mark" /\ local'[t] = local[t]
    BY <1>0, <1>3
  <2>2. /\ local'[t].conn \in Workers /\ DispatchedOp(t)' \in DOMAIN ops'
        /\ local'[t].authority = ops'[DispatchedOp(t)'].authority
    BY <1>2, <1>3, <1>4 DEF a
  <2> QED BY <1>6, <2>1, <2>2 DEF Phase, Recovering
<1>8. Turn' /\ Phases'
  <2>1. t \in Clients => pc'[t] \notin Recovering \cup {"confirm", "ack"}
    BY <1>0, <1>3 DEF Recovering
  <2>2. \A u \in Threads : u # t => pc'[u] = pc[u]
    BY <1>0, <1>3
  <2> QED BY <1>2, <1>3, <1>7, <2>1, <2>2, TurnStep DEF Turns
<1>9. Drawn(a)
  BY <1>2 DEF Turns, Bound
<1>10. SentOnce'
  <2>1. ASSUME NEW e \in sent PROVE e.authority.attempt # d.authority.attempt
    BY <1>2, <1>5 DEF Unsent
  <2>2. \A e, f \in sent' : e.authority.attempt = f.authority.attempt => e = f
    BY <1>3, <2>1 DEF Turns, SentOnce
  <2>3. ASSUME NEW e \in sent'
        PROVE  /\ Drawn(e.authority)'
               /\ e.op \in DOMAIN ops'
               /\ \/ e.authority = ops'[e.op].authority
                  \/ /\ Logged(e.op, e.authority)'
                     /\ e.authority.attempt # ops'[e.op].authority.attempt
    <3>1. CASE e \in sent
      BY <1>3, <3>1 DEF Turns, SentOnce, Drawn, Logged
    <3>2. CASE e = d
      BY <1>2, <1>3, <1>5, <1>9, <3>2 DEF Drawn
    <3> QED BY <1>3, <3>1, <3>2
  <2> QED BY <2>2, <2>3 DEF SentOnce
<1> QED BY <1>2, <1>3, <1>8, <1>10 DEF Running

\* The connection is noted, and the turn is over.
LEMMA MarkTurn ==
    ASSUME TypeOK, TypeOK', Turns, NEW t \in Threads, MarkStep(t)
    PROVE  Turn' /\ Phases' /\ Running' /\ SentOnce'
<1>0. DOMAIN pc = Threads /\ next_id \in Nat
  BY DEF TypeOK
<1>1. pc[t] = "mark" /\ Busy(t)
  BY DEF MarkStep, Busy
<1>2. /\ \A u \in Threads : u # t => ~Busy(u)
      /\ Assigned(local[t].conn, DispatchedOp(t))
  BY <1>1, OthersWait DEF Turns, Phases, Phase
<1>3. /\ pc' = [pc EXCEPT ![t] = IF t \in Clients THEN "run" ELSE "ended"]
      /\ ops' = ops /\ sent' = sent /\ failures' = failures /\ next_id' = next_id
      /\ g_running_conn' = local[t].conn /\ g_current_op' = DispatchedOp(t)
  BY DEF MarkStep, Goto, store, bounds, history
<1>4. ~Busy(t)'
  BY <1>0, <1>3 DEF Busy, Recovering
<1>5. t \in Clients => pc'[t] \notin Recovering \cup {"confirm", "ack"}
  BY <1>0, <1>3 DEF Recovering
<1>6. Turn' /\ Phases'
  BY <1>0, <1>2, <1>3, <1>4, <1>5, TurnStep DEF Turns
<1>7. Running'
  BY <1>2, <1>3 DEF Running, Assigned
<1>8. SentOnce'
  <2>1. AuthorityStays
    BY <1>0, <1>3, UnchangedKeeps, KeptAuthority
  <2> QED BY <1>3, <2>1, SentOnceStays DEF Turns
<1> QED BY <1>6, <1>7, <1>8

\* The loss of a connection that runs nothing, a recovery that finds everything
\* finished and one that finds nobody to go on with: they end.
LEMMA EndAside ==
    ASSUME TypeOK, TypeOK', NEW w \in Workers, pc' = [pc EXCEPT ![w] = "ended"],
           \/ ConnectionLost(w) /\ g_running_conn # w
           \/ CheckFinished(w) \/ DecideStep(w)
    PROVE  Aside
<1>1. /\ ops' = ops /\ local' = local /\ failures' = failures
      /\ next_id' = next_id /\ sent' = sent
      /\ g_running_conn' = g_running_conn /\ g_current_op' = g_current_op
  BY DEF ConnectionLost, CheckFinished, DecideStep, globals, store, bounds, history
<1>2. next_id \in Nat /\ DOMAIN pc = Threads /\ Clients \subseteq Threads
  BY DEF TypeOK, Threads
<1>3. AuthorityStays
  BY <1>1, <1>2, UnchangedKeeps, KeptAuthority
<1> QED BY <1>1, <1>2, <1>3 DEF Aside

\* A recovery begins with the connection that was running: it takes the turn.
LEMMA LossTurn ==
    ASSUME TypeOK, TypeOK', Turns, NEW w \in Workers, ConnectionLost(w), g_running_conn = w
    PROVE  Turn' /\ Phases' /\ Running' /\ SentOnce'
<1>0. /\ w \in Threads /\ w \notin Clients /\ w # NoConn
      /\ DOMAIN pc = Threads /\ next_id \in Nat
  BY WorkersAssumption DEF TypeOK, Threads
<1>1. (\A u \in Threads : ~Busy(u)) /\ Assigned(w, g_current_op)
  BY <1>0 DEF Turns, Turn, Running
<1>2. /\ pc' = [pc EXCEPT ![w] = "check"] /\ g_running_conn' = NoConn
      /\ ops' = ops /\ failures' = failures /\ next_id' = next_id /\ sent' = sent
      /\ g_current_op' = g_current_op
  BY DEF ConnectionLost, Goto, store, bounds, history
<1>3. AuthorityStays
  BY <1>0, <1>2, UnchangedKeeps, KeptAuthority
<1>4. Assigned(w, g_current_op)'
  BY <1>1, <1>2 DEF Assigned
<1>5. Phase(w)'
  BY <1>0, <1>2, <1>4 DEF Phase
<1>6. Turn' /\ Phases'
  BY <1>0, <1>1, <1>2, <1>5, TurnStep DEF Turns
<1>7. SentOnce'
  BY <1>2, <1>3, SentOnceStays DEF Turns
<1> QED BY <1>2, <1>6, <1>7 DEF Running

\* What a recovery may rely on, whatever step it takes.
LEMMA RecoveryTurn ==
    ASSUME TypeOK, Turns, NEW w \in Workers, pc[w] \in Recovering
    PROVE  /\ w \in Threads /\ w \notin Clients
           /\ \A u \in Threads : u # w => ~Busy(u)
           /\ g_running_conn = NoConn /\ Phase(w)
           /\ DispatchedOp(w) = g_current_op
<1>0. w \in Threads /\ w \notin Clients
  BY WorkersAssumption DEF Threads
<1>1. Busy(w)
  BY DEF Busy
<1> QED BY <1>0, <1>1, OthersWait DEF Turns, Phases, DispatchedOp

\* The steps up to the record of the failure: the attempt that is lost still
\* holds the authority.
LEMMA OwnTurn ==
    ASSUME TypeOK, TypeOK', Turns, NEW w \in Workers,
           (CheckFinished(w) /\ ~g_finished) \/ TransferOwnership(w)
    PROVE  Turn' /\ Phases' /\ Running' /\ SentOnce'
<1>0. DOMAIN pc = Threads /\ DOMAIN local = Threads /\ next_id \in Nat
  BY DEF TypeOK
<1>1. pc[w] \in {"check", "own"}
  BY DEF CheckFinished, TransferOwnership
<1>2. /\ w \in Threads /\ w \notin Clients
      /\ \A u \in Threads : u # w => ~Busy(u)
      /\ g_running_conn = NoConn /\ Assigned(w, g_current_op)
  BY <1>1, RecoveryTurn DEF Recovering, Phase
<1>3. /\ ops' = ops /\ failures' = failures /\ next_id <= next_id' /\ sent' = sent
      /\ g_running_conn' = g_running_conn /\ g_current_op' = g_current_op
      /\ \A u \in Threads : u # w => pc'[u] = pc[u]
      /\ pc'[w] \in {"own", "build"}
  BY <1>0, <1>2 DEF CheckFinished, TransferOwnership, Goto, globals, store, bounds, history
<1>4. Assigned(w, g_current_op)'
  BY <1>2, <1>3 DEF Assigned
<1>5. pc'[w] = "build" => local'[w].authority = ops'[g_current_op'].authority
  <2> SUFFICES ASSUME pc'[w] = "build"
               PROVE  local'[w].authority = ops[g_current_op].authority
    BY <1>3
  <2>1. TransferOwnership(w)
    BY <1>0, <1>2 DEF CheckFinished, Goto
  <2>2. local'[w].authority = current_authority(g_current_op)
    BY <1>0, <1>2, <2>1, LocalType DEF TransferOwnership, Locals
  <2> QED BY <1>2, <2>2 DEF current_authority, Assigned
<1>6. Phase(w)'
  BY <1>3, <1>4, <1>5 DEF Phase
<1>7. Turn' /\ Phases'
  BY <1>2, <1>3, <1>6, TurnStep DEF Turns
<1>8. AuthorityStays
  BY <1>3, UnchangedKeeps, KeptAuthority
<1>9. SentOnce'
  BY <1>3, <1>8, SentOnceStays DEF Turns
<1> QED BY <1>2, <1>3, <1>7, <1>9 DEF Running

\* The record of the failure names the operation that was lost.
LEMMA BuildTurn ==
    ASSUME TypeOK, TypeOK', Turns, NEW w \in Workers, BuildRecord(w)
    PROVE  Turn' /\ Phases' /\ Running' /\ SentOnce'
<1>0. DOMAIN pc = Threads /\ DOMAIN local = Threads /\ next_id \in Nat
  BY DEF TypeOK
<1>1. pc[w] = "build"
  BY DEF BuildRecord
<1>2. /\ w \in Threads /\ w \notin Clients
      /\ \A u \in Threads : u # w => ~Busy(u)
      /\ g_running_conn = NoConn /\ Assigned(w, g_current_op)
      /\ local[w].authority = ops[g_current_op].authority
  BY <1>1, RecoveryTurn DEF Recovering, Phase
<1>3. /\ local' = [local EXCEPT ![w] = [local[w] EXCEPT !.op = g_current_op]]
      /\ pc' = [pc EXCEPT ![w] = "record"]
      /\ ops' = ops /\ failures' = failures /\ next_id' = next_id /\ sent' = sent
      /\ g_running_conn' = g_running_conn /\ g_current_op' = g_current_op
  BY DEF BuildRecord, Goto, globals, store, bounds, history
<1>4. local'[w].op = g_current_op /\ local'[w].authority = local[w].authority
  <2>1. local[w] \in Locals
    BY <1>2, LocalType
  <2> QED BY <1>0, <1>2, <1>3, <2>1 DEF Locals
<1>5. Assigned(w, g_current_op)'
  BY <1>2, <1>3 DEF Assigned
<1>6. Phase(w)'
  BY <1>0, <1>2, <1>3, <1>4, <1>5 DEF Phase
<1>7. Turn' /\ Phases'
  BY <1>0, <1>2, <1>3, <1>6, TurnStep DEF Turns
<1>8. AuthorityStays
  BY <1>0, <1>3, UnchangedKeeps, KeptAuthority
<1>9. SentOnce'
  BY <1>3, <1>8, SentOnceStays DEF Turns
<1> QED BY <1>2, <1>3, <1>7, <1>9 DEF Running

\* The lost attempt is put on record: append_failure accepts it, because it was
\* drawn and carries its generation and epoch.
LEMMA RecordTurn ==
    ASSUME TypeOK, TypeOK', Turns, NEW w \in Workers, RecordLoss(w), OpsKept
    PROVE  Turn' /\ Phases' /\ Running' /\ SentOnce'
<1> DEFINE cur == local[w].authority
<1>0. DOMAIN pc = Threads /\ next_id \in Nat /\ DOMAIN ops \subseteq Operations
  BY DEF TypeOK, WellStored
<1>1. pc[w] = "record"
  BY DEF RecordLoss
<1>2. /\ w \in Threads /\ w \notin Clients
      /\ \A u \in Threads : u # w => ~Busy(u)
      /\ g_running_conn = NoConn /\ Assigned(w, g_current_op)
      /\ cur = ops[g_current_op].authority /\ local[w].op = g_current_op
  BY <1>1, RecoveryTurn DEF Recovering, Phase
<1>3. g_current_op \in DOMAIN ops /\ g_current_op # NoOp /\ Drawn(cur)
  BY <1>0, <1>2, OperationsAssumption DEF Assigned, Turns, Bound
<1>4. cur.attempt # NullId /\ validate_authority(cur)
  BY <1>3 DEF Drawn, validate_authority
<1>5. /\ failures' = failures \cup {[lost |-> w, op |-> g_current_op, authority |-> cur]}
      /\ pc' = [pc EXCEPT ![w] = "rebind"] /\ local' = local
      /\ next_id' = next_id /\ sent' = sent
      /\ g_running_conn' = g_running_conn /\ g_current_op' = g_current_op
  BY <1>2, <1>3, <1>4 DEF RecordLoss, Goto, globals, bounds, history
<1>6. AuthorityStays
  BY <1>0, <1>5, KeptAuthority
<1>7. Assigned(w, g_current_op)'
  BY <1>2, <1>5, <1>6, AssignedStays
<1>8. Logged(g_current_op, local[w].authority)'
  <2> DEFINE f == [lost |-> w, op |-> g_current_op, authority |-> cur]
  <2>1. f \in failures' /\ f.op = g_current_op' /\ f.authority = local'[w].authority
    BY <1>5
  <2> QED BY <2>1 DEF Logged
<1>9. local'[w].authority = ops'[g_current_op'].authority
  BY <1>2, <1>3, <1>5, <1>6 DEF AuthorityStays
<1>10. Phase(w)'
  BY <1>0, <1>2, <1>5, <1>7, <1>8, <1>9 DEF Phase
<1>11. Turn' /\ Phases'
  BY <1>0, <1>2, <1>5, <1>10, TurnStep DEF Turns
<1>12. SentOnce'
  BY <1>5, <1>6, SentOnceStays DEF Turns
<1> QED BY <1>2, <1>5, <1>11, <1>12 DEF Running

\* The fresh attempt of a recovery was drawn just now and never sent.
LEMMA FreshAttempt ==
    ASSUME TypeOK, TypeOK', next_id' = next_id + 1, SentOnce, NEW cur, Drawn(cur)
    PROVE  /\ new_attempt(cur).attempt = next_id
           /\ \A a : a = new_attempt(cur) => Drawn(a)'
           /\ \A d \in sent : d.authority.attempt # next_id
<1> DEFINE fresh == [cur EXCEPT !.attempt              = next_id,
                                !.attempt_generation   = @ + 1,
                                !.operation_generation = @ + 1,
                                !.failure_generation   = @ + 1,
                                !.recovery_generation  = @ + 1]
<1>1. cur \in AuthorityEnvelope /\ cur.coordinator_epoch # 0
  BY DEF Drawn
<1>2. next_id \in Nat /\ next_id # NullId /\ next_id < next_id'
  <2>1. next_id \in Nat /\ next_id' = next_id + 1
    BY DEF TypeOK
  <2> QED BY <2>1, NullIdAssumption, IdsAssumption
<1>3. new_attempt(cur) = fresh /\ fresh \in AuthorityEnvelope
  BY <1>1, NewAttemptType DEF new_attempt
<1>4. /\ fresh.attempt = next_id /\ fresh.coordinator_epoch = cur.coordinator_epoch
      /\ fresh.attempt_generation = cur.attempt_generation + 1
  BY <1>1 DEF AuthorityEnvelope
<1>5. cur.attempt_generation \in Nat
  BY <1>1 DEF AuthorityEnvelope
<1> HIDE DEF fresh
<1>6. fresh.attempt_generation # 0
  BY <1>4, <1>5
<1>7. ASSUME NEW d \in sent PROVE d.authority.attempt # next_id
  <2>1. Drawn(d.authority)
    BY DEF SentOnce
  <2>2. d.authority.attempt \in Nat /\ d.authority.attempt < next_id
    BY <2>1, IdsAssumption DEF Drawn, AuthorityEnvelope
  <2> QED BY <1>2, <2>2
<1> QED BY <1>1, <1>2, <1>3, <1>4, <1>6, <1>7 DEF Drawn

\* The fresh attempt is bound; the one it supersedes is on record.
LEMMA RebindTurn ==
    ASSUME IInv, TypeOK', Turns, NEW w \in Workers, RebindStep(w)
    PROVE  Turn' /\ Phases' /\ Running' /\ SentOnce' /\ Bound'
<1> DEFINE op == g_current_op
           cur == local[w].authority
           fresh == new_attempt(cur)
           rt == dispatch(ops[op], fresh)
<1>0. /\ TypeOK /\ DOMAIN pc = Threads /\ DOMAIN local = Threads /\ next_id \in Nat
      /\ \A o \in DOMAIN ops : ops[o] \in Runtime
  BY DEF IInv, TypeOK, WellStored
<1>1. pc[w] = "rebind"
  BY DEF RebindStep
<1>2. /\ w \in Threads /\ w \notin Clients
      /\ \A u \in Threads : u # w => ~Busy(u)
      /\ g_running_conn = NoConn /\ Assigned(w, op)
      /\ cur = ops[op].authority /\ Logged(op, cur)
  BY <1>0, <1>1, RecoveryTurn DEF Recovering, Phase
<1>3. op \in DOMAIN ops /\ Drawn(cur)
  BY <1>2 DEF Assigned, Turns, Bound
<1>4. /\ pc' = [pc EXCEPT ![w] = "decide"]
      /\ local' = [local EXCEPT ![w].authority = fresh, ![w].conn = Replacement]
      /\ ops' = IF Replacement = NoConn THEN ops ELSE UpdateOp(op, rt)
      /\ next_id' = next_id + 1 /\ failures' = failures /\ sent' = sent
      /\ g_running_conn' = g_running_conn /\ g_current_op' = op
  BY DEF RebindStep, Goto, globals, history
<1>5. /\ fresh.attempt = next_id /\ \A a : a = fresh => Drawn(a)'
      /\ \A d \in sent : d.authority.attempt # next_id
  BY <1>0, <1>3, <1>4, FreshAttempt DEF Turns
<1>6. local'[w].authority = fresh /\ local'[w].conn = Replacement
  BY <1>0, <1>2, <1>4, LocalType DEF Locals
<1>7. fresh \in AuthorityEnvelope
  BY <1>0, <1>2, LocalType, NewAttemptType
<1>8. Rebinds(ops[op], fresh, rt)
  BY <1>0, <1>3, <1>7, DispatchRebinds
<1> HIDE DEF fresh, rt
<1>9. /\ DOMAIN ops' = DOMAIN ops
      /\ \A o \in DOMAIN ops : o # op => ops'[o] = ops[o]
      /\ ops'[op] = IF Replacement = NoConn THEN ops[op] ELSE rt
  BY <1>3, <1>4 DEF UpdateOp
<1>10. \/ ops'[op] = ops[op] /\ (Replacement = NoConn \/ ops[op].terminal_recorded)
       \/ ops'[op].authority = fresh
  BY <1>8, <1>9 DEF Rebinds
<1>11. cur.attempt # next_id
  BY <1>2, <1>5 DEF Assigned
<1>12. Unsent(local[w].authority)'
  BY <1>4, <1>5, <1>6 DEF Unsent
<1>13. Phase(w)'
  <2>1. pc'[w] = "decide" /\ g_current_op' \in DOMAIN ops'
    BY <1>0, <1>2, <1>3, <1>4, <1>9
  <2>2. \/ local'[w].conn = NoConn
        \/ is_terminal(ops'[g_current_op'].state)
        \/ ops'[g_current_op'].authority = local'[w].authority
    <3>1. CASE ops[op].terminal_recorded /\ ops'[op] = ops[op]
      <4>1. is_terminal(ops[op].state)
        BY <1>3, <3>1 DEF Turns, Bound
      <4> QED BY <1>4, <3>1, <4>1
    <3> QED BY <1>4, <1>6, <1>10, <3>1
  <2> QED BY <1>12, <2>1, <2>2 DEF Phase, Recovering
<1>14. Turn' /\ Phases'
  <2>1. \A u \in Threads : u # w => pc'[u] = pc[u]
    BY <1>0, <1>4
  <2> QED BY <1>0, <1>2, <1>4, <1>13, <2>1, TurnStep DEF Turns
<1>15. SentOnce'
  <2>1. \A d, e \in sent' : d.authority.attempt = e.authority.attempt => d = e
    BY <1>4 DEF Turns, SentOnce
  <2>2. ASSUME NEW d \in sent'
        PROVE  /\ Drawn(d.authority)'
               /\ d.op \in DOMAIN ops'
               /\ \/ d.authority = ops'[d.op].authority
                  \/ /\ Logged(d.op, d.authority)'
                     /\ d.authority.attempt # ops'[d.op].authority.attempt
    <3>1. /\ d \in sent /\ Drawn(d.authority) /\ d.op \in DOMAIN ops
          /\ \/ d.authority = ops[d.op].authority
             \/ /\ Logged(d.op, d.authority)
                /\ d.authority.attempt # ops[d.op].authority.attempt
      BY <1>4 DEF Turns, SentOnce
    <3>2. next_id <= next_id'
      BY <1>0, <1>4
    <3>3. Drawn(d.authority)'
      BY <1>0, <3>1, <3>2, DrawnStays
    <3>4. \A o, a : Logged(o, a) => Logged(o, a)'
      BY <1>4 DEF Logged
    <3>5. CASE ops'[d.op] = ops[d.op]
      BY <1>9, <3>1, <3>3, <3>4, <3>5
    <3>6. CASE d.op = op /\ ops'[op].authority = fresh
      <4>1. d.authority.attempt # ops'[d.op].authority.attempt
        BY <1>5, <3>1, <3>6
      <4>2. Logged(d.op, d.authority)
        BY <1>2, <3>1, <3>6
      <4> QED BY <1>9, <3>1, <3>3, <3>4, <4>1, <4>2
    <3> QED BY <1>9, <1>10, <3>1, <3>5, <3>6
  <2> QED BY <2>1, <2>2 DEF SentOnce
<1>16. Bound'
  <2> SUFFICES ASSUME NEW o \in DOMAIN ops'
               PROVE  /\ Drawn(ops[o].authority)'
                      /\ ops'[o].terminal_recorded => is_terminal(ops'[o].state)
    BY DEF Bound
  <2>1. /\ o \in DOMAIN ops /\ Drawn(ops[o].authority)
        /\ ops[o].terminal_recorded => is_terminal(ops[o].state)
    BY <1>9 DEF Turns, Bound
  <2>2. \A a : Drawn(a) => Drawn(a)'
    <3>1. next_id <= next_id'
      BY <1>0, <1>4
    <3> QED BY <1>0, <3>1, DrawnStays
  <2>3. CASE ops'[o] = ops[o]
    BY <2>1, <2>2, <2>3
  <2>4. CASE o = op /\ ops'[o] = rt
    <3>1. rt = ops[o] \/ (rt.authority = fresh /\ ~rt.terminal_recorded)
      BY <1>8, <2>4 DEF Rebinds
    <3>2. CASE rt = ops[o]
      BY <2>1, <2>2, <2>4, <3>2
    <3>3. CASE rt.authority = fresh /\ ~rt.terminal_recorded
      BY <1>5, <2>1, <2>4, <3>1, <3>3
    <3> QED BY <3>1, <3>2, <3>3
  <2> QED BY <1>9, <2>1, <2>3, <2>4
<1> QED BY <1>2, <1>4, <1>14, <1>15, <1>16 DEF Running

\* A recovery that found a replacement, and no outcome, goes on to send.
LEMMA DecideTurn ==
    ASSUME TypeOK, TypeOK', Turns, NEW w \in Workers, DecideStep(w),
           local[w].conn # NoConn, ~is_terminal(state(g_current_op))
    PROVE  Turn' /\ Phases' /\ Running' /\ SentOnce'
<1>0. DOMAIN pc = Threads /\ next_id \in Nat
  BY DEF TypeOK
<1>1. pc[w] = "decide"
  BY DEF DecideStep
<1>2. /\ w \in Threads /\ w \notin Clients
      /\ \A u \in Threads : u # w => ~Busy(u)
      /\ g_running_conn = NoConn /\ g_current_op \in DOMAIN ops
      /\ \/ local[w].conn = NoConn
         \/ is_terminal(ops[g_current_op].state)
         \/ /\ ops[g_current_op].authority = local[w].authority
            /\ Unsent(local[w].authority)
      /\ DispatchedOp(w) = g_current_op
  BY <1>1, RecoveryTurn DEF Recovering, Phase
<1>3. /\ ops[g_current_op].authority = local[w].authority
      /\ Unsent(local[w].authority) /\ local[w].conn \in Workers
  BY <1>2, LocalType DEF state
<1>4. /\ pc' = [pc EXCEPT ![w] = "send"] /\ local' = local /\ ops' = ops
      /\ failures' = failures /\ next_id' = next_id /\ sent' = sent
      /\ g_running_conn' = g_running_conn /\ g_current_op' = g_current_op
  BY DEF DecideStep, Goto, globals, store, bounds, history
<1>5. DispatchedOp(w)' = g_current_op
  BY <1>2, <1>4 DEF DispatchedOp
<1>6. Unsent(local[w].authority)'
  BY <1>3, <1>4 DEF Unsent
<1>7. Phase(w)'
  BY <1>0, <1>2, <1>3, <1>4, <1>5, <1>6 DEF Phase, Recovering
<1>8. Turn' /\ Phases'
  BY <1>0, <1>2, <1>4, <1>7, TurnStep DEF Turns
<1>9. AuthorityStays
  BY <1>0, <1>4, UnchangedKeeps, KeptAuthority
<1>10. SentOnce'
  BY <1>4, <1>9, SentOnceStays DEF Turns
<1> QED BY <1>2, <1>4, <1>8, <1>10 DEF Running

-----------------------------------------------------------------------------
(* Every step keeps the turns.                                             *)

\* Identifiers are drawn in order.
LEMMA IdsGrow ==
    ASSUME TypeOK, [Next]_vars
    PROVE  next_id <= next_id'
<1>0. next_id \in Nat
  BY DEF TypeOK
<1> USE DEF bounds
<1>1. ASSUME NEW w \in Workers, WorkerStart(w) \/ KillWorker(w) \/ WorkerStep(w)
      PROVE  next_id' = next_id
  BY <1>1 DEF WorkerStart, KillWorker, WorkerStep, WorkerReceive, WorkerEffect,
              WorkerReport, WorkerCoordinatorLost
<1>2. ASSUME NEW w \in Workers, ConnectionStep(w)
      PROVE  next_id' = next_id \/ next_id' = next_id + 1
  BY <1>2 DEF ConnectionStep, HandleRegister, HandleRunning, HandleFailure,
              HandleComplete, ReportStep, ConnectionLost, CheckFinished,
              TransferOwnership, BuildRecord, RecordLoss, RebindStep, DecideStep
<1>3. ASSUME NEW c \in Clients, ClientDispatch(c) \/ ClientReplay(c) \/ ClientStep(c)
      PROVE  next_id' = next_id \/ next_id' = next_id + 1
  BY <1>3 DEF ClientDispatch, ClientReplay, ReportStep, ClientStep, BindFirst, RunStep
<1>4. ASSUME NEW t \in Threads, CompletionStep(t) \/ DispatchStep(t)
      PROVE  next_id' = next_id
  BY <1>4 DEF CompletionStep, ConfirmStep, AckStep, FinishStep, WriteStep, SaveStep,
              DispatchStep, SendStep, MarkStep
<1>5. CASE Restart \/ UNCHANGED vars
  BY <1>0, <1>5 DEF Restart, vars
<1>6. next_id' = next_id \/ next_id' = next_id + 1 \/ Restart \/ UNCHANGED vars
  BY <1>1, <1>2, <1>3, <1>4 DEF Next
<1> QED BY <1>0, <1>5, <1>6

\* An operation that is not bound anew keeps its attempt, and an outcome comes
\* with a terminal state.
LEMMA BoundStays ==
    ASSUME TypeOK, TypeOK', Bound, next_id <= next_id',
           OpsKept \/ (\E t \in Threads : OpsConfirmed(t))
    PROVE  Bound'
<1> SUFFICES ASSUME NEW op \in DOMAIN ops'
             PROVE  /\ Drawn(ops[op].authority)'
                    /\ ops'[op].terminal_recorded => is_terminal(ops'[op].state)
  BY DEF Bound
<1>1. op \in DOMAIN ops
  BY DEF OpsKept, OpsConfirmed
<1>2. /\ Drawn(ops[op].authority)
      /\ ops[op].terminal_recorded => is_terminal(ops[op].state)
  BY <1>1 DEF Bound
<1>3. \A a : Drawn(a) => Drawn(a)'
  BY DrawnStays
<1>4. is_terminal("COMPLETION_CONFIRMED")
  BY DEF is_terminal
<1>5. /\ ops'[op].authority = ops[op].authority
      /\ \/ is_terminal(ops'[op].state)
         \/ ops'[op].terminal_recorded = ops[op].terminal_recorded
      /\ ops[op].terminal_recorded => ops'[op] = ops[op]
  <2>1. CASE OpsKept
    BY <1>1, <2>1 DEF OpsKept, Keeps
  <2>2. CASE \E t \in Threads : OpsConfirmed(t)
    BY <1>1, <1>4, <2>2 DEF OpsConfirmed, Confirms
  <2> QED BY <2>1, <2>2
<1> QED BY <1>2, <1>3, <1>5

\* A completion cannot be delivered again before anything was sent.
LEMMA NothingToReplay ==
    ASSUME IInv, Turns, NEW c \in Clients, ClientReplay(c)
    PROVE  FALSE
<1>1. c \in Threads /\ Busy(c) /\ pc[c] = "start"
  BY DEF ClientReplay, Busy, Threads
<1>2. sent = {}
  BY <1>1 DEF Turns, Phases, Phase
<1>3. PICK m \in reported : TRUE
  BY DEF ClientReplay
<1>4. Done(m.op, m.authority.attempt)
  BY DEF IInv, ReportedDone
<1> QED BY <1>2, <1>4 DEF Done

\* Each step either keeps aside or is the one of the thread that has the turn.
LEMMA TurnsStep ==
    ASSUME IInv, TypeOK', Turns, [Next]_vars, ~Restart
    PROVE  Turns'
<1>0. TypeOK /\ Turn /\ Phases /\ Running /\ SentOnce /\ Bound
  BY DEF IInv, Turns
<1>1. next_id <= next_id'
  BY <1>0, IdsGrow
<1>2. ASSUME Aside PROVE Turn' /\ Phases' /\ Running' /\ SentOnce'
  BY <1>0, <1>2, AsideStep
<1>3. ASSUME NEW c \in Clients, BindFirst(c) PROVE Turns'
  <2>1. CASE g_workers = {}
    <3>1. ops' = ops
      BY <1>3, <2>1 DEF BindFirst
    <3>2. OpsKept
      BY <1>0, <3>1, UnchangedKeeps
    <3>3. Bound'
      BY <1>0, <1>1, <3>2, BoundStays
    <3>4. Aside
      BY <1>0, <1>3, <2>1, BindNobodyTurn
    <3> QED BY <1>2, <3>3, <3>4 DEF Turns
  <2>2. CASE g_workers # {}
    <3>1. OpsBound(local[c].op, local[c].authority)
      <4>1. CASE OpsKept
        <5>1. pc[c] = "bind" /\ Busy(c) /\ c \in Threads
          BY <1>3 DEF BindFirst, Busy, Threads
        <5>2. DOMAIN ops = {}
          BY <1>0, <5>1 DEF Phases, Phase
        <5>3. local[c].op \in DOMAIN ops'
          BY <1>3, <2>2 DEF BindFirst, create_and_dispatch
        <5> QED BY <4>1, <5>2, <5>3 DEF OpsKept
      <4> QED BY <1>0, <1>3, <4>1, ClientType
    <3> QED BY <1>0, <1>3, <2>2, <3>1, BindFirstTurn DEF Turns
  <2> QED BY <2>1, <2>2
<1>4. ASSUME NEW w \in Workers, RebindStep(w) PROVE Turns'
  BY <1>4, RebindTurn DEF Turns
<1>5. ASSUME OpsKept \/ (\E t \in Threads : OpsConfirmed(t)),
             Turn' /\ Phases' /\ Running' /\ SentOnce'
      PROVE  Turns'
  BY <1>0, <1>1, <1>5, BoundStays DEF Turns
<1>6. ASSUME NEW w \in Workers,
             \/ WorkerStart(w) \/ KillWorker(w) \/ WorkerStep(w)
             \/ HandleRegister(w) \/ HandleRunning(w) \/ HandleFailure(w)
             \/ HandleComplete(w)
      PROVE  Turns'
  <2>1. Aside
    BY <1>0, <1>6, OthersStepAside
  <2>2. OpsKept
    BY <1>0, <1>6, WorkerType, UnchangedKeeps, HandlerType
  <2> QED BY <1>2, <1>5, <2>1, <2>2
<1>7. ASSUME NEW c \in Clients, RunStep(c) PROVE Turns'
  <2>1. Aside
    BY <1>0, <1>7, OthersStepAside
  <2>2. OpsKept
    BY <1>0, <1>7, ClientType DEF RunStep, BindFirst
  <2> QED BY <1>2, <1>5, <2>1, <2>2
<1>8. ASSUME NEW t \in Threads, CompletionStep(t) PROVE Turns'
  <2>1. Aside
    BY <1>0, <1>8, OthersStepAside
  <2>2. OpsKept \/ OpsConfirmed(t)
    BY <1>0, <1>8, CompletionType, ConfirmType DEF CompletionStep
  <2> QED BY <1>2, <1>5, <2>1, <2>2
<1>9. ASSUME NEW c \in Clients, ClientDispatch(c) PROVE Turns'
  <2>1. OpsKept
    BY <1>0, <1>9, ClientType DEF ClientDispatch, BindFirst
  <2>2. Turn' /\ Phases' /\ Running' /\ SentOnce'
    BY <1>0, <1>9, ClientDispatchTurn
  <2> QED BY <1>5, <2>1, <2>2
<1>10. ASSUME NEW t \in Threads, DispatchStep(t) PROVE Turns'
  <2>1. OpsKept
    BY <1>0, <1>10, DispatchType
  <2>2. Turn' /\ Phases' /\ Running' /\ SentOnce'
    BY <1>0, <1>10, SendTurn, MarkTurn DEF DispatchStep
  <2> QED BY <1>5, <2>1, <2>2
<1>11. ASSUME NEW w \in Workers,
              \/ ConnectionLost(w) \/ CheckFinished(w) \/ TransferOwnership(w)
              \/ BuildRecord(w) \/ RecordLoss(w) \/ DecideStep(w)
       PROVE  Turns'
  <2>1. OpsKept
    BY <1>0, <1>11, RecoveryType
  <2>2. CASE ConnectionLost(w)
    <3>1. CASE g_running_conn = w
      BY <1>0, <1>5, <2>1, <2>2, <3>1, LossTurn
    <3>2. CASE g_running_conn # w
      <4>1. pc' = [pc EXCEPT ![w] = "ended"]
        BY <2>2, <3>2 DEF ConnectionLost, Goto
      <4> QED BY <1>0, <1>2, <1>5, <2>1, <2>2, <3>2, <4>1, EndAside
    <3> QED BY <3>1, <3>2
  <2>3. CASE CheckFinished(w)
    <3>1. CASE g_finished
      <4>1. pc' = [pc EXCEPT ![w] = "ended"]
        BY <2>3, <3>1 DEF CheckFinished, Goto
      <4> QED BY <1>0, <1>2, <1>5, <2>1, <2>3, <4>1, EndAside
    <3>2. CASE ~g_finished
      BY <1>0, <1>5, <2>1, <2>3, <3>2, OwnTurn
    <3> QED BY <3>1, <3>2
  <2>4. CASE TransferOwnership(w)
    BY <1>0, <1>5, <2>1, <2>4, OwnTurn
  <2>5. CASE RecordLoss(w)
    BY <1>0, <1>5, <2>1, <2>5, RecordTurn
  <2>7. CASE BuildRecord(w)
    BY <1>0, <1>5, <2>1, <2>7, BuildTurn
  <2>6. CASE DecideStep(w)
    <3>1. CASE local[w].conn # NoConn /\ ~is_terminal(state(g_current_op))
      BY <1>0, <1>5, <2>1, <2>6, <3>1, DecideTurn
    <3>2. CASE ~(local[w].conn # NoConn /\ ~is_terminal(state(g_current_op)))
      <4>1. pc' = [pc EXCEPT ![w] = "ended"]
        BY <2>6, <3>2 DEF DecideStep, Goto
      <4> QED BY <1>0, <1>2, <1>5, <2>1, <2>6, <4>1, EndAside
    <3> QED BY <3>1, <3>2
  <2> QED BY <1>11, <2>2, <2>3, <2>4, <2>5, <2>6, <2>7
<1>12. ASSUME UNCHANGED vars PROVE Turns'
  BY <1>0, <1>12
     DEF vars, globals, store, bounds, history, Turns, Turn, Busy, Phases, Phase, Running,
         SentOnce, Bound, Assigned, Logged, Unsent, Drawn, DispatchedOp
<1>13. \A c \in Clients : ~ClientReplay(c)
  BY NothingToReplay
<1> QED BY <1>3, <1>4, <1>6, <1>7, <1>8, <1>9, <1>10, <1>11, <1>12, <1>13
        DEF Next, ConnectionStep, ClientStep

-----------------------------------------------------------------------------
(* What follows for a single request.                                      *)

\* At the start the only client has the turn.
LEMMA InitTurns ==
    ASSUME OneClient, Init
    PROVE  Turns
<1>1. DOMAIN ops = {}
  BY DEF Init
<1>2. ASSUME NEW t \in Threads
      PROVE  /\ pc[t] = "start" /\ (Busy(t) => t \in Clients)
             /\ Phase(t)
  BY <1>1 DEF Init, Busy, Phase, Recovering
<1>3. Clients \subseteq Threads
  BY DEF Threads
<1>4. Turn
  BY <1>2, <1>3 DEF Turn, OneClient, Init, Recovering
<1>5. Running /\ SentOnce /\ Bound
  BY <1>1 DEF Init, Running, SentOnce, Bound
<1> QED BY <1>2, <1>4, <1>5 DEF Turns, Phases

\* For a single request, until the coordinator crashes: handle_message and the
\* loss handling of worker_thread take turns in binding, sending and superseding
\* attempts.
THEOREM SingleRequest == OneClient => (Spec => [](restarts = 0 => Turns))
<1> SUFFICES ASSUME OneClient PROVE Spec => [](restarts = 0 => Turns)
  OBVIOUS
<1>1. Init => (restarts = 0 => Turns)
  BY InitTurns
<1>2. IInv /\ (restarts = 0 => Turns) /\ [Next]_vars => (restarts = 0 => Turns)'
  <2> SUFFICES ASSUME IInv, restarts = 0 => Turns, [Next]_vars, restarts' = 0
               PROVE  Turns'
    OBVIOUS
  <2>1. ~Restart
    BY DEF Restart, IInv, TypeOK
  <2>2. restarts = 0
    <3>1. Frame
      BY StepFrame DEF IInv
    <3> QED BY <2>1, <3>1 DEF Frame, StoreKept
  <2>3. TypeOK'
    BY StepKinds DEF IInv
  <2> QED BY <2>1, <2>2, <2>3, TurnsStep
<1> QED BY <1>1, <1>2, InvariantHolds, PTL DEF Spec

\* The connection noted as running was sent the attempt that holds the authority
\* of the current operation: worker_thread recovers the attempt that was lost,
\* for a single request and any number of workers and losses.
THEOREM RunningHoldsAuthority ==
    OneClient => (Spec => [](restarts = 0 => RunningConnHoldsAuthority))
<1> SUFFICES ASSUME OneClient PROVE Spec => [](restarts = 0 => RunningConnHoldsAuthority)
  OBVIOUS
<1>1. Turns => RunningConnHoldsAuthority
  <2> SUFFICES ASSUME Turns, g_running_conn # NoConn
               PROVE  \E d \in sent :
                          /\ d.to = g_running_conn /\ d.op = g_current_op
                          /\ d.authority = ops[g_current_op].authority
    BY DEF RunningConnHoldsAuthority
  <2> DEFINE d == [to |-> g_running_conn, op |-> g_current_op,
                   authority |-> ops[g_current_op].authority]
  <2>1. d \in sent
    BY DEF Turns, Running, Assigned
  <2> WITNESS d \in sent
  <2> QED OBVIOUS
<1> QED BY <1>1, SingleRequest, PTL

\* Recovery never hides an attempt: an attempt that was sent to a worker and
\* then superseded is on record with its ambiguous failure, for a single request
\* and any number of workers and losses.
THEOREM SupersededIsRecorded ==
    OneClient => (Spec => [](restarts = 0 => SupersededAttemptRecorded))
<1> SUFFICES ASSUME OneClient PROVE Spec => [](restarts = 0 => SupersededAttemptRecorded)
  OBVIOUS
<1>1. Turns => SupersededAttemptRecorded
  BY DEF Turns, SentOnce, SupersededAttemptRecorded, Logged
<1> QED BY <1>1, SingleRequest, PTL

=============================================================================
