---------------------------- MODULE Coordinator ----------------------------
(***************************************************************************)
(* The distributed runtime: the coordinator process with one thread per    *)
(* connection (src/coordinator.cpp), the worker processes (src/worker.cpp) *)
(* and the clients that request dispatches or deliver a completion again.  *)
(*                                                                         *)
(* A step is one critical section of g_mu, one call into the registry, one *)
(* send or one unlocked read of shared state; between two steps of a       *)
(* thread every other thread may run.  Connections are FIFO; a process     *)
(* that is killed may lose the end of what it sent.                        *)
(*                                                                         *)
(* Sends to a worker that is gone are lost, as are the acknowledgements    *)
(* and fences, which no worker waits for; what a client is told is kept in *)
(* the history variable acked.                                             *)
(***************************************************************************)
EXTENDS OperationRuntime, RecoveryOwnership, Sequences, FiniteSets

CONSTANTS
    Workers,      \* worker processes; each has one boot, named after it
    FailWorkers,  \* the workers started in mode "fail"
    Clients,      \* client connections, each sending one request
    Operations,   \* operation identifiers
    NoConn,       \* the empty connection pointer
    NoOp,         \* the null operation identifier
    MaxKills,     \* bound on the number of killed workers
    MaxRestarts,  \* bound on the number of coordinator crashes
    Replays,      \* whether a client may deliver a completion again
    Opens,        \* what opening a file may answer: TRUE, FALSE or either
    WaitForWorkers,  \* whether clients wait until every worker has registered
    KillRunning,     \* whether only the worker noted as running is killed
    Undecided     \* stands for the decision of an undecided operation

ASSUME WorkersAssumption ==
    /\ Workers = Boots /\ FailWorkers \subseteq Workers
    /\ NoConn \notin Workers \cup Clients
    /\ Clients \cap Workers = {}
\* Fresh identifiers are numbers drawn in order.
ASSUME IdsAssumption == Attempts = Nat
ASSUME OperationsAssumption == NoOp \notin Operations
ASSUME BoundsAssumption ==
    /\ MaxKills \in Nat /\ MaxRestarts \in Nat
    /\ {Replays, WaitForWorkers, KillRunning} \cup Opens \subseteq BOOLEAN

VARIABLES
    \* globals of the coordinator process
    g_mu,            \* holder of the global mutex, between steps
    g_workers,       \* keys of the map of registered workers
    g_begin,         \* what g_workers.begin() yields: an unordered map's choice
    g_reg_order,     \* connections in registration order
    g_running_conn,  \* connection believed to run the current operation
    g_current_op,    \* the operation it runs
    g_finished,      \* some completion was accepted
    \* g_store
    ops, failures, ownership,
    \* the state file, and the save under way
    disk,
    seen,            \* runtimes each unwritten operation had since the last write
    settled,         \* history: operations decided when the save began
    \* threads of the coordinator
    pc, local,
    \* worker processes and their connections
    wstate, task, inbox, outbox,
    \* identifiers and bounds
    next_id, kills, restarts,
    \* history
    sent,            \* DISPATCH messages sent to workers
    executed,        \* attempts carried out by workers
    reported,        \* COMPLETE messages sent by workers
    acked            \* completions acknowledged to their sender

globals == <<g_workers, g_begin, g_reg_order, g_running_conn, g_current_op,
             g_finished>>
store == <<ops, failures, ownership>>
file == <<disk, seen, settled>>
processes == <<wstate, task, inbox, outbox>>
bounds == <<next_id, kills, restarts>>
history == <<sent, executed, reported, acked>>

vars == <<g_mu, globals, store, file, pc, local, processes, bounds, history>>

Threads == Workers \cup Clients

\* What a thread keeps on its stack: the operation, the envelope and the
\* connection it works with.
Locals ==
    [op : Operations \cup {NoOp}, authority : AuthorityEnvelope,
     conn : Workers \cup {NoConn}]

NoLocal == [op |-> NoOp, authority |-> UnsetEnvelope, conn |-> NoConn]

\* A state file no frame of which was written yet; load() restores nothing from
\* a file that is not whole.
NoFile ==
    [whole |-> FALSE, ops |-> <<>>, failures |-> {}, ownership |-> Unassigned(NullId)]

Init ==
    /\ g_mu = NoConn
    /\ g_workers = {} /\ g_begin = NoConn /\ g_reg_order = <<>>
    /\ g_running_conn = NoConn /\ g_current_op = NoOp /\ g_finished = FALSE
    /\ ops = <<>> /\ failures = {} /\ ownership = Unassigned(NullId)
    /\ disk = NoFile /\ seen = <<>> /\ settled = {}
    /\ pc = [t \in Threads |-> "start"] /\ local = [t \in Threads |-> NoLocal]
    /\ wstate = [w \in Workers |-> "new"] /\ task = [w \in Workers |-> NoLocal]
    /\ inbox = [w \in Workers |-> <<>>] /\ outbox = [w \in Workers |-> <<>>]
    /\ next_id = 1 /\ kills = 0 /\ restarts = 0
    /\ sent = {} /\ executed = {} /\ reported = {} /\ acked = {}

-----------------------------------------------------------------------------
(* Helpers.                                                                *)

Goto(t, label) == pc' = [pc EXCEPT ![t] = label]

\* Where a thread goes after handling a message: a worker's connection reads
\* on, a client has sent its only request.
Back(t) == IF t \in Workers THEN "recv" ELSE "ended"

\* The runtime of a known operation becomes rt; an unknown operation is left
\* unknown.
UpdateOp(op, rt) == [o \in DOMAIN ops |-> IF o = op THEN rt ELSE ops[o]]

\* create does nothing for a known operation; dispatch follows on whichever
\* runtime there is then.
create_and_dispatch(op, authority) ==
    LET r == IF op \in DOMAIN ops THEN ops[op] ELSE NewRuntime(authority)
    IN  [o \in DOMAIN ops \cup {op} |->
            IF o = op THEN dispatch(r, authority) ELSE ops[o]]

current_authority(op) ==
    IF op \in DOMAIN ops THEN ops[op].authority ELSE UnsetEnvelope

\* A registry call outside g_mu gives the fields of the operations a save has
\* still to read, which it does without the registry's mutex, one more value.
Observe == seen' = [op \in DOMAIN seen |-> seen[op] \cup {ops'[op]}]

state(op) == IF op \in DOMAIN ops THEN ops[op].state ELSE "CREATED"

Message(type, op, authority) ==
    [type |-> type, op |-> op, authority |-> authority]

-----------------------------------------------------------------------------
(* Worker processes.                                                       *)

\* Connect and send REGISTER; the coordinator starts a thread for the
\* connection.
WorkerStart(w) ==
    /\ wstate[w] = "new"
    /\ wstate' = [wstate EXCEPT ![w] = "ready"]
    /\ outbox' = [outbox EXCEPT ![w] = <<Message("REGISTER", NoOp, UnsetEnvelope)>>]
    /\ Goto(w, "recv")
    /\ UNCHANGED <<g_mu, globals, store, file, local, task, inbox, bounds, history>>

\* Mutant: the worker reports without having done the work.
WorkerReceive_without_effect(w) ==
    /\ wstate[w] = "ready" /\ inbox[w] # <<>>
    /\ task' = [task EXCEPT ![w] = Head(inbox[w])]
    /\ inbox' = [inbox EXCEPT ![w] = Tail(@)]
    /\ outbox' = [outbox EXCEPT ![w] =
                     Append(@, Message("RUNNING", Head(inbox[w]).op,
                                       Head(inbox[w]).authority))]
    /\ wstate' = [wstate EXCEPT ![w] = "report"]
    /\ UNCHANGED <<g_mu, globals, store, file, pc, local, bounds, history>>

\* Take a DISPATCH and announce that it runs.
WorkerReceive(w) ==
    /\ wstate[w] = "ready" /\ inbox[w] # <<>>
    /\ task' = [task EXCEPT ![w] = Head(inbox[w])]
    /\ inbox' = [inbox EXCEPT ![w] = Tail(@)]
    /\ outbox' = [outbox EXCEPT ![w] =
                     Append(@, Message("RUNNING", Head(inbox[w]).op,
                                       Head(inbox[w]).authority))]
    /\ wstate' = [wstate EXCEPT ![w] = "effect"]
    /\ UNCHANGED <<g_mu, globals, store, file, pc, local, bounds, history>>

\* The marker file, which a worker in mode "fail" writes as well.  A file that
\* does not open is passed over in silence: the attempt counts as carried out.
WorkerEffect(w) ==
    /\ wstate[w] = "effect"
    /\ \E marker \in Opens :
           executed' = executed \cup
               {[worker |-> w, op |-> task[w].op,
                 attempt |-> task[w].authority.attempt, marker |-> marker]}
    /\ wstate' = [wstate EXCEPT ![w] = "report"]
    /\ UNCHANGED <<g_mu, globals, store, file, pc, local, task, inbox, outbox,
                   bounds, sent, reported, acked>>

\* Report the result and leave.
WorkerReport(w) ==
    /\ wstate[w] = "report"
    /\ LET type == IF w \in FailWorkers THEN "FAILURE" ELSE "COMPLETE"
           m == Message(type, task[w].op, task[w].authority)
       IN  /\ outbox' = [outbox EXCEPT ![w] = Append(@, m)]
           /\ reported' = IF type = "COMPLETE" THEN reported \cup {m} ELSE reported
    /\ wstate' = [wstate EXCEPT ![w] = "gone"]
    /\ UNCHANGED <<g_mu, globals, store, file, pc, local, task, inbox, bounds,
                   sent, executed, acked>>

\* The coordinator crashed while the worker waited for work.
WorkerCoordinatorLost(w) ==
    /\ wstate[w] = "ready" /\ inbox[w] = <<>> /\ pc[w] = "ended"
    /\ wstate' = [wstate EXCEPT ![w] = "gone"]
    /\ UNCHANGED <<g_mu, globals, store, file, pc, local, task, inbox, outbox,
                   bounds, history>>

\* TerminateProcess at any moment: what was sent last may never arrive.
KillWorker(w) ==
    /\ kills < MaxKills
    /\ wstate[w] \in {"ready", "effect", "report"}
    /\ KillRunning => g_running_conn = w
    /\ wstate' = [wstate EXCEPT ![w] = "gone"]
    /\ \E n \in 0..Len(outbox[w]) :
           outbox' = [outbox EXCEPT ![w] = SubSeq(@, 1, n)]
    /\ kills' = kills + 1
    /\ UNCHANGED <<g_mu, globals, store, file, pc, local, task, inbox, next_id,
                   restarts, history>>

-----------------------------------------------------------------------------
(* Handlers of the messages a worker sends.                                *)

\* The thread of w reads a message of the given type.
Receives(w, type) ==
    /\ pc[w] = "recv" /\ outbox[w] # <<>>
    /\ Head(outbox[w]).type = type
    /\ outbox' = [outbox EXCEPT ![w] = Tail(@)]
    /\ UNCHANGED <<wstate, task, inbox>>

HandleRegister(w) ==
    /\ Receives(w, "REGISTER") /\ g_mu = NoConn
    /\ g_workers' = g_workers \cup {w}
    /\ g_begin' \in g_workers'
    /\ g_reg_order' = Append(g_reg_order, w)
    /\ UNCHANGED <<g_mu, g_running_conn, g_current_op, g_finished, store, file,
                   pc, local, bounds, history>>

HandleRunning(w) ==
    /\ Receives(w, "RUNNING") /\ g_mu = NoConn
    /\ LET m == Head(outbox[w]) IN
       ops' = UpdateOp(m.op, run(ops[m.op], m.authority))
    /\ UNCHANGED <<g_mu, globals, failures, ownership, file, pc, local, bounds,
                   history>>

HandleFailure(w) ==
    /\ Receives(w, "FAILURE") /\ g_mu = NoConn
    /\ LET m == Head(outbox[w]) IN
       ops' = UpdateOp(m.op, report_failure(ops[m.op], m.authority, FALSE))
    /\ UNCHANGED <<g_mu, globals, failures, ownership, file, pc, local, bounds,
                   history>>

-----------------------------------------------------------------------------
(* COMPLETE: report, confirm without looking at the answer, acknowledge,   *)
(* then note the end and save.  A refused report is answered with FENCE.   *)

ReportStep(t, m) ==
    LET accepted == /\ m.op \in DOMAIN ops
                    /\ accepts_report_completion(ops[m.op], m.authority, FALSE)
    IN  /\ ops' = UpdateOp(m.op, report_completion(ops[m.op], m.authority, FALSE))
        /\ Goto(t, IF accepted THEN "confirm" ELSE Back(t))
        /\ local' = [local EXCEPT ![t] =
                        IF accepted THEN [NoLocal EXCEPT !.op = m.op,
                                                         !.authority = m.authority]
                        ELSE NoLocal]
        /\ Observe
        /\ UNCHANGED <<g_mu, globals, failures, ownership, disk, settled, bounds,
                       history>>

HandleComplete(w) ==
    /\ Receives(w, "COMPLETE")
    /\ ReportStep(w, Head(outbox[w]))

\* A completion some worker once sent arrives again over another connection.
ClientReplay(c) ==
    /\ Replays /\ pc[c] = "start"
    /\ \E m \in reported : ReportStep(c, m)
    /\ UNCHANGED processes

ConfirmStep(t) ==
    /\ pc[t] = "confirm"
    /\ LET l == local[t] IN
       ops' = UpdateOp(l.op, confirm_completion(ops[l.op], l.authority))
    /\ Observe
    /\ Goto(t, "ack")
    /\ UNCHANGED <<g_mu, globals, failures, ownership, disk, settled, local,
                   processes, bounds, history>>

AckStep(t) ==
    /\ pc[t] = "ack"
    /\ acked' = acked \cup {[op |-> local[t].op,
                             attempt |-> local[t].authority.attempt]}
    /\ Goto(t, "finish")
    /\ UNCHANGED <<g_mu, globals, store, file, local, processes, bounds, sent,
                   executed, reported>>

\* Opening the state file for writing empties it; one that does not open is
\* left as it is, and the answer of save() is not looked at.
FinishStep(t) ==
    /\ pc[t] = "finish" /\ g_mu = NoConn
    /\ g_finished' = TRUE
    /\ \/ /\ TRUE \in Opens
          /\ g_mu' = t
          /\ disk' = NoFile
          /\ seen' = [op \in DOMAIN ops |-> {ops[op]}]
          /\ settled' = {op \in DOMAIN ops : ops[op].terminal_recorded}
          /\ Goto(t, "save")
          /\ UNCHANGED local
       \/ /\ FALSE \in Opens
          /\ Goto(t, Back(t))
          /\ local' = [local EXCEPT ![t] = NoLocal]
          /\ UNCHANGED <<g_mu, file>>
    /\ UNCHANGED <<g_workers, g_begin, g_reg_order, g_running_conn,
                   g_current_op, store, processes, bounds, history>>

\* Write the next operation, in no particular order.  Each field is read by
\* itself while others report and confirm.
WriteStep(t) ==
    /\ pc[t] = "save"
    /\ \E op \in DOMAIN seen : \E r \in TornRuntimes(seen[op]) :
           /\ disk' = [NoFile EXCEPT !.ops =
                  [o \in DOMAIN disk.ops \cup {op} |->
                      IF o = op THEN r ELSE disk.ops[o]]]
           /\ seen' = [o \in DOMAIN seen \ {op} |-> {ops[o]}]
    /\ UNCHANGED <<g_mu, globals, store, settled, pc, local, processes, bounds,
                   history>>

\* What only changes under g_mu, and the end of the save.
SaveStep(t) ==
    /\ pc[t] = "save" /\ DOMAIN seen = {}
    /\ disk' = [whole |-> TRUE, ops |-> disk.ops, failures |-> failures,
                ownership |-> ownership]
    /\ g_mu' = NoConn
    /\ Goto(t, Back(t))
    /\ local' = [local EXCEPT ![t] = NoLocal]
    /\ UNCHANGED <<globals, store, seen, settled, processes, bounds, history>>

-----------------------------------------------------------------------------
(* DISPATCH: a client asks for an operation to be run.                     *)

\* The envelope of a first attempt, built before g_mu is taken: the boot is
\* that of the worker g_workers.begin() yields at this moment.
FirstAttempt ==
    [UnsetEnvelope EXCEPT
        !.coordinator_epoch    = 1,
        !.attempt              = next_id,
        !.attempt_generation   = 1,
        !.operation_generation = 1,
        !.worker_boot          = IF g_workers = {} THEN NullId ELSE g_begin]

ClientDispatch(c) ==
    /\ pc[c] = "start"
    /\ WaitForWorkers => Len(g_reg_order) = Cardinality(Workers)
    /\ \E op \in Operations :
           local' = [local EXCEPT ![c] = [op        |-> op,
                                          authority |-> FirstAttempt,
                                          conn      |-> NoConn]]
    /\ next_id' = next_id + 1
    /\ Goto(c, "bind")
    /\ UNCHANGED <<g_mu, globals, store, file, processes, kills, restarts, history>>

\* The results of create and dispatch are not looked at.
BindFirst(c) ==
    /\ pc[c] = "bind" /\ c \in Clients /\ g_mu = NoConn
    /\ IF g_workers = {}
       THEN Goto(c, "ended") /\ UNCHANGED <<ops, local>>
       ELSE /\ ops' = create_and_dispatch(local[c].op, local[c].authority)
            /\ local' = [local EXCEPT ![c].conn = g_begin]
            /\ Goto(c, "send")
    /\ UNCHANGED <<g_mu, globals, failures, ownership, file, processes, bounds,
                   history>>

\* dispatch_to receives the operation by reference: a client's thread passes
\* its own copy, recovery passes g_current_op itself.
DispatchedOp(t) == IF t \in Clients THEN local[t].op ELSE g_current_op

\* A worker that is gone never sees the message.
SendStep(t) ==
    /\ pc[t] = "send"
    /\ LET w == local[t].conn
           m == Message("DISPATCH", DispatchedOp(t), local[t].authority)
       IN  /\ inbox' = IF wstate[w] = "gone" THEN inbox
                       ELSE [inbox EXCEPT ![w] = Append(@, m)]
           /\ sent' = sent \cup {[to |-> w, op |-> m.op, authority |-> m.authority]}
    /\ Goto(t, "mark")
    /\ UNCHANGED <<g_mu, globals, store, file, local, wstate, task, outbox,
                   bounds, executed, reported, acked>>

\* Only now is the connection noted as running the operation.
MarkStep(t) ==
    /\ pc[t] = "mark" /\ g_mu = NoConn
    /\ g_running_conn' = local[t].conn
    /\ g_current_op' = DispatchedOp(t)
    /\ Goto(t, IF t \in Clients THEN "run" ELSE "ended")
    /\ UNCHANGED <<g_mu, g_workers, g_begin, g_reg_order, g_finished, store,
                   file, local, processes, bounds, history>>

RunStep(c) ==
    /\ pc[c] = "run"
    /\ LET l == local[c] IN ops' = UpdateOp(l.op, run(ops[l.op], l.authority))
    /\ Observe
    /\ Goto(c, "ended")
    /\ UNCHANGED <<g_mu, globals, failures, ownership, disk, settled, local,
                   processes, bounds, history>>

-----------------------------------------------------------------------------
(* The connection of a worker that is gone: recv fails once everything     *)
(* that arrived was handled.                                               *)

\* Mutant: the lost connection stays the running one.
ConnectionLost_not_reset(w) ==
    /\ pc[w] = "recv" /\ outbox[w] = <<>> /\ wstate[w] = "gone"
    /\ g_mu = NoConn
    /\ IF g_running_conn = w
       THEN /\ g_workers' = g_workers \ {w}
            /\ g_begin' \in IF g_workers' = {} THEN {NoConn}
                            ELSE IF g_begin # w THEN {g_begin} ELSE g_workers'
            /\ Goto(w, "check")
       ELSE /\ Goto(w, "ended")
            /\ UNCHANGED <<g_workers, g_begin>>
    /\ UNCHANGED <<g_mu, g_reg_order, g_running_conn, g_current_op, g_finished,
                   store, file, local, processes, bounds, history>>

\* Mutant: an iterator to the erased worker is kept.
ConnectionLost_stale_begin(w) ==
    /\ pc[w] = "recv" /\ outbox[w] = <<>> /\ wstate[w] = "gone"
    /\ g_mu = NoConn
    /\ IF g_running_conn = w
       THEN /\ g_workers' = g_workers \ {w}
            /\ g_running_conn' = NoConn
            /\ Goto(w, "check")
       ELSE /\ Goto(w, "ended")
            /\ UNCHANGED <<g_workers, g_running_conn>>
    /\ UNCHANGED <<g_mu, g_begin, g_reg_order, g_current_op, g_finished, store,
                   file, local, processes, bounds, history>>

\* Was it the one that runs the current operation?  Otherwise the worker
\* stays registered.  Erasing another element leaves begin() where it was.
ConnectionLost(w) ==
    /\ pc[w] = "recv" /\ outbox[w] = <<>> /\ wstate[w] = "gone"
    /\ g_mu = NoConn
    /\ IF g_running_conn = w
       THEN /\ g_workers' = g_workers \ {w}
            /\ g_begin' \in IF g_workers' = {} THEN {NoConn}
                            ELSE IF g_begin # w THEN {g_begin} ELSE g_workers'
            /\ g_running_conn' = NoConn
            /\ Goto(w, "check")
       ELSE /\ Goto(w, "ended")
            /\ UNCHANGED <<g_workers, g_begin, g_running_conn>>
    /\ UNCHANGED <<g_mu, g_reg_order, g_current_op, g_finished, store, file,
                   local, processes, bounds, history>>

\* g_finished is read without the lock.
CheckFinished(w) ==
    /\ pc[w] = "check"
    /\ Goto(w, IF g_finished THEN "ended" ELSE "own")
    /\ UNCHANGED <<g_mu, globals, store, file, local, processes, bounds, history>>

\* Ownership moves to the generation after the one the lost attempt carries;
\* whether the transfer was granted is not looked at.
TransferOwnership(w) ==
    /\ pc[w] = "own" /\ g_mu = NoConn
    /\ LET cur == current_authority(g_current_op) IN
       /\ ownership' = transfer(ownership, "REPLACEMENT_WORKER",
                                cur.recovery_generation + 1, next_id)
       /\ local' = [local EXCEPT ![w].authority = cur]
    /\ next_id' = next_id + 1
    /\ Goto(w, "build")
    /\ UNCHANGED <<g_mu, globals, ops, failures, file, processes, kills,
                   restarts, history>>

\* The failure record names the operation that is current when it is built,
\* outside g_mu.
BuildRecord(w) ==
    /\ pc[w] = "build"
    /\ local' = [local EXCEPT ![w].op = g_current_op]
    /\ Goto(w, "record")
    /\ UNCHANGED <<g_mu, globals, store, file, processes, bounds, history>>

\* Mutant: the failure is reported to the registry but not recorded.
RecordLoss_unrecorded(w) ==
    /\ pc[w] = "record" /\ g_mu = NoConn
    /\ ops' = UpdateOp(g_current_op,
                       report_failure(ops[g_current_op], local[w].authority, TRUE))
    /\ Goto(w, "rebind")
    /\ UNCHANGED <<g_mu, globals, failures, ownership, file, local, processes,
                   bounds, history>>

\* append_failure for the operation the record names, report_failure for the
\* one that is current now.
RecordLoss(w) ==
    /\ pc[w] = "record" /\ g_mu = NoConn
    /\ LET cur == local[w].authority
           record == [lost |-> w, op |-> local[w].op, authority |-> cur]
       IN  /\ failures' = IF /\ record.op # NoOp /\ cur.attempt # NullId
                             /\ validate_authority(cur)
                          THEN failures \cup {record} ELSE failures
           /\ ops' = UpdateOp(g_current_op,
                              report_failure(ops[g_current_op], cur, TRUE))
    /\ Goto(w, "rebind")
    /\ UNCHANGED <<g_mu, globals, ownership, file, local, processes, bounds,
                   history>>

\* A fresh attempt keeps the boot of the envelope it is derived from.
new_attempt(cur) ==
    [cur EXCEPT !.attempt              = next_id,
                !.attempt_generation   = @ + 1,
                !.operation_generation = @ + 1,
                !.failure_generation   = @ + 1,
                !.recovery_generation  = @ + 1]

\* Mutant: whether the first connection is still registered is not looked up.
Replacement_first_registered ==
    IF g_workers = {} THEN NoConn ELSE g_reg_order[1]

\* The first connection ever registered if it is still there, otherwise
\* whatever begin() yields.
Replacement ==
    IF g_workers = {} THEN NoConn
    ELSE IF g_reg_order[1] \in g_workers THEN g_reg_order[1] ELSE g_begin

RebindStep(w) ==
    /\ pc[w] = "rebind" /\ g_mu = NoConn
    /\ LET fresh == new_attempt(local[w].authority) IN
       /\ local' = [local EXCEPT ![w].authority = fresh,
                                 ![w].conn = Replacement]
       /\ ops' = IF Replacement = NoConn THEN ops
                 ELSE UpdateOp(g_current_op, dispatch(ops[g_current_op], fresh))
    /\ next_id' = next_id + 1
    /\ Goto(w, "decide")
    /\ UNCHANGED <<g_mu, globals, failures, ownership, file, processes, kills,
                   restarts, history>>

\* Again without the lock.
DecideStep(w) ==
    /\ pc[w] = "decide"
    /\ Goto(w, IF local[w].conn # NoConn /\ ~is_terminal(state(g_current_op))
               THEN "send" ELSE "ended")
    /\ UNCHANGED <<g_mu, globals, store, file, local, processes, bounds, history>>

-----------------------------------------------------------------------------
(* The coordinator crashes and is started again on its state file.         *)

\* Mutant: the frames of a file are not counted.
Loads_uncounted(d) ==
    \A op \in DOMAIN d.ops : /\ validate_authority(d.ops[op].authority)
                             /\ validate_authority(d.ops[op].terminal)

\* What load() accepts: a whole file whose envelopes, torn ones included, pass
\* validation.
Loads(d) ==
    /\ d.whole
    /\ \A op \in DOMAIN d.ops : /\ validate_authority(d.ops[op].authority)
                                /\ validate_authority(d.ops[op].terminal)

\* load restores operations and failures and leaves recovery unowned: the frame
\* of the owner is the last one, which a rejected file does not reach.  A crash
\* between the last operation and the end of the save leaves either a file
\* that is not whole or the one SaveStep completes.
Restart ==
    /\ restarts < MaxRestarts
    /\ restarts' = restarts + 1
    /\ g_mu' = NoConn
    /\ g_workers' = {} /\ g_begin' = NoConn /\ g_reg_order' = <<>>
    /\ g_running_conn' = NoConn /\ g_current_op' = NoOp /\ g_finished' = FALSE
    /\ ops' = IF Loads(disk) THEN disk.ops ELSE <<>>
    /\ failures' = IF Loads(disk) THEN disk.failures ELSE {}
    /\ ownership' = Unassigned(NullId)
    /\ seen' = <<>>
    /\ pc' = [t \in Threads |-> IF pc[t] = "start" THEN "start" ELSE "ended"]
    /\ local' = [t \in Threads |-> NoLocal]
    /\ UNCHANGED <<disk, settled, processes, next_id, kills, history>>

-----------------------------------------------------------------------------
WorkerStep(w) ==
    WorkerReceive(w) \/ WorkerEffect(w) \/ WorkerReport(w) \/ WorkerCoordinatorLost(w)

ConnectionStep(w) ==
    \/ HandleRegister(w) \/ HandleRunning(w) \/ HandleFailure(w) \/ HandleComplete(w)
    \/ ConnectionLost(w) \/ CheckFinished(w) \/ TransferOwnership(w)
    \/ BuildRecord(w) \/ RecordLoss(w) \/ RebindStep(w) \/ DecideStep(w)

CompletionStep(t) ==
    ConfirmStep(t) \/ AckStep(t) \/ FinishStep(t) \/ WriteStep(t) \/ SaveStep(t)

DispatchStep(t) == SendStep(t) \/ MarkStep(t)

ClientStep(c) == BindFirst(c) \/ RunStep(c)

Next ==
    \/ \E w \in Workers :
           WorkerStart(w) \/ KillWorker(w) \/ WorkerStep(w) \/ ConnectionStep(w)
    \/ \E c \in Clients : ClientDispatch(c) \/ ClientReplay(c) \/ ClientStep(c)
    \/ \E t \in Threads : CompletionStep(t) \/ DispatchStep(t)
    \/ Restart

Spec == Init /\ [][Next]_vars

\* Every thread and every worker process that can take a step takes one:
\* both are threads of an operating system.  Nobody has to start, kill or
\* restart a process or to send a request.
Fairness ==
    /\ \A w \in Workers : WF_vars(WorkerStep(w)) /\ WF_vars(ConnectionStep(w))
    /\ \A c \in Clients : WF_vars(ClientStep(c))
    /\ \A t \in Threads : WF_vars(CompletionStep(t)) /\ WF_vars(DispatchStep(t))

FairSpec == Spec /\ Fairness

-----------------------------------------------------------------------------
(* Properties.                                                             *)

Messages ==
    [type : {"REGISTER", "RUNNING", "COMPLETE", "FAILURE", "DISPATCH"},
     op : Operations \cup {NoOp}, authority : AuthorityEnvelope]

WellStored(o, f, own) ==
    /\ DOMAIN o \subseteq Operations
    /\ o \in [DOMAIN o -> Runtime]
    /\ f \subseteq [lost : Workers, op : Operations, authority : AuthorityEnvelope]
    /\ own \in Ownership(Attempts \cup {NullId})

\* Every global, every thread's locals, every message in flight and the state
\* file are well formed; a registered map is empty exactly when begin() is.
TypeOK ==
    /\ g_mu \in Threads \cup {NoConn}
    /\ g_workers \subseteq Workers
    /\ g_begin \in IF g_workers = {} THEN {NoConn} ELSE g_workers
    /\ g_reg_order \in Seq(Workers)
    /\ g_running_conn \in Workers \cup {NoConn}
    /\ g_current_op \in Operations \cup {NoOp}
    /\ g_finished \in BOOLEAN
    /\ WellStored(ops, failures, ownership)
    /\ WellStored(disk.ops, disk.failures, disk.ownership)
    /\ disk.whole \in BOOLEAN
    /\ seen \in [DOMAIN seen -> SUBSET Runtime] /\ DOMAIN seen \subseteq DOMAIN ops
    /\ settled \subseteq Operations
    /\ pc \in [Threads -> {"start", "recv", "confirm", "ack", "finish", "save",
                           "bind", "send", "mark", "run", "check", "own",
                           "build", "record", "rebind", "decide", "ended"}]
    /\ local \in [Threads -> Locals]
    /\ \A t \in Threads : pc[t] = "bind" => local[t].op \in Operations
    /\ wstate \in [Workers -> {"new", "ready", "effect", "report", "gone"}]
    /\ task \in [Workers -> Messages \cup {NoLocal}]
    /\ inbox \in [Workers -> Seq(Messages)]
    /\ outbox \in [Workers -> Seq(Messages)]
    /\ next_id \in Nat /\ kills \in 0..MaxKills /\ restarts \in 0..MaxRestarts
    /\ reported \subseteq Messages

Recorded(op) == op \in DOMAIN ops /\ ops[op].terminal_recorded

\* An outcome is recorded only for an attempt that was carried out: the attempt
\* that holds an operation with a recorded outcome was sent to a worker, which
\* took it and went through it for this operation, however dispatches, losses,
\* crashes and late or repeated completions interleave.  (The worker passes over
\* a marker file it cannot open; CompletionLeavesMarker is about that.)
NoPhantomCompletion ==
    \A op \in Operations :
        Recorded(op) =>
            \E e \in executed :
                /\ e.op = op
                /\ e.attempt = ops[op].authority.attempt
                /\ \E d \in sent : d.to = e.worker /\ d.op = op
                                   /\ d.authority.attempt = e.attempt

\* No operation runs under a recovery generation that nobody owns: transfer
\* reaches a generation before the attempt that carries it is bound.
RecoveryGenerationOwned ==
    \A op \in DOMAIN ops :
        ops[op].authority.recovery_generation <= ownership.generation

\* The connection noted as running the current operation was sent the attempt
\* that holds the operation's authority, as long as a single request is made.
RunningConnHoldsAuthority ==
    g_running_conn # NoConn =>
        \E d \in sent :
            /\ d.to = g_running_conn
            /\ d.op = g_current_op
            /\ d.authority = ops[g_current_op].authority

\* Recovery never hides an attempt: each attempt that was handed to a worker
\* and then superseded, and with it any side effect it left, has a record of
\* ambiguous failure.
SupersededAttemptRecorded ==
    \A d \in sent :
        d.authority.attempt # ops[d.op].authority.attempt =>
            \E f \in failures : f.op = d.op /\ f.authority = d.authority


DecisionOf(r) == [state     |-> r.state,
                  outcome   |-> r.terminal_outcome,
                  authority |-> r.terminal]

Abstract ==
    INSTANCE TerminalOutcome WITH
        Decisions <- [state     : {"COMPLETION_CONFIRMED"},
                      outcome   : {Completed},
                      authority : AuthorityEnvelope],
        decision  <- [op \in Operations |->
                         IF Recorded(op) THEN DecisionOf(ops[op]) ELSE Undecided]

\* The running coordinator decides each operation at most once, and only by
\* confirming a completion ("confirms exactly one terminal outcome").
OutcomeSpec == Abstract!Spec

\* A state file that load() accepts never contradicts memory, before and after
\* the coordinator crashes and reloads it: an outcome it holds, in whatever
\* mixture of fields it was read while it was being recorded, is an outcome
\* memory holds, and one that was recorded when the save began is in the file
\* and is the same decision.
PersistedOutcomeStands ==
    Loads(disk) =>
        /\ \A op \in DOMAIN disk.ops :
               disk.ops[op].terminal_recorded => Recorded(op)
        /\ \A op \in settled :
               /\ op \in DOMAIN disk.ops /\ Recorded(op)
               /\ DecisionOf(disk.ops[op]) = DecisionOf(ops[op])

\* In the surroundings of tests/test_multiprocess.cpp - every worker has
\* registered, only the running worker is killed, one worker is left - an
\* operation that was accepted for dispatch is eventually confirmed.
DispatchedConcludes ==
    \A op \in Operations : op \in DOMAIN ops ~> Recorded(op)

-----------------------------------------------------------------------------
(* What the comments and documents say and the code does not do.           *)

\* A lost worker fails the operation it was given: a failure record names an
\* operation that was dispatched to the worker that was lost.
LossBlamesItsOperation ==
    \A f \in failures : \E d \in sent : d.to = f.lost /\ d.op = f.op

\* A confirmed completion left the marker of the attempt behind ("performs a
\* real side effect, reports", ARCHITECTURE.md).
CompletionLeavesMarker ==
    \A op \in Operations :
        Recorded(op) =>
            \E e \in executed :
                e.op = op /\ e.attempt = ops[op].terminal.attempt /\ e.marker

\* Whoever is told that its completion was accepted can rely on it: the
\* outcome of the operation is recorded, for that very attempt ("COMPLETE
\* accepted -> terminal COMPLETED", coordinator.cpp).
AckedMeansConfirmed ==
    \A a \in acked :
        Recorded(a.op) /\ ops[a.op].terminal.attempt = a.attempt

\* No two losses are recovered under the same recovery generation, of which
\* there is only one owner: a failure record carries the generation before the
\* one its recovery runs under.
RecoveryOwnedOnce ==
    \A f, g \in failures :
        f.authority.recovery_generation = g.authority.recovery_generation => f = g

\* The boot an outcome is recorded with is that of a worker the attempt was
\* sent to ("fresh attempt for re-dispatch: new attempt id + generation +
\* boot", coordinator.cpp).
OutcomeNamesItsBoot ==
    \A op \in Operations :
        Recorded(op) =>
            \E d \in sent : /\ d.authority = ops[op].terminal
                            /\ d.to = ops[op].terminal.worker_boot

=============================================================================
