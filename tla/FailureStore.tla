---------------------------- MODULE FailureStore ----------------------------
(***************************************************************************)
(* FailureStore (src/store.cpp): failure log, operation registry,          *)
(* idempotency entries and recovery ownership, and the state file that     *)
(* save() rewrites in place and load() reads back.                         *)
(*                                                                         *)
(* save() holds the store's mutex, and its caller, the coordinator, holds  *)
(* g_mu; what it reads of a runtime it reads without the registry's mutex, *)
(* while connection threads outside g_mu go on reporting and confirming    *)
(* completions.  The file is a sequence of frames; the checksum of a frame *)
(* tells a whole one from a torn one.  A process that dies, and a disk     *)
(* that fills up, leave any prefix of what save() wrote; and the file may  *)
(* be damaged, or have bytes appended to it, before the next one starts.   *)
(***************************************************************************)
EXTENDS OperationRuntime, RecoveryOwnership, Sequences, FiniteSets, Functions

CONSTANTS
    Ops, FailureIds, Keys,
    Entries,        \* contents of an idempotency entry
    Envelopes,      \* the envelopes the callers pass
    MaxAttempts,    \* bound on the dispatches of an operation
    MaxGenerations, \* bound on the recovery generations owned
    MaxSaves,       \* bound on the saves begun
    DamageAfter,    \* the file is damaged only after that many saves
    NoOp

ASSUME StoreConstants ==
    /\ Envelopes \subseteq AuthorityEnvelope
    /\ NoOp \notin Ops
    /\ {MaxAttempts, MaxGenerations, MaxSaves, DamageAfter} \subseteq Nat

VARIABLES
    failures,  \* failures_: identifier -> authority of the record
    ops,       \* ops_
    entries,   \* idem_
    ownership, \* ownership_
    file,      \* the frames on disk, or handed to the stream by save()
    pc,        \* idle, a step of save(), or starting (the process)
    todo,      \* the listed operations save() has still to write
    reading,   \* the operation whose runtime save() is reading
    seen,      \* the runtimes that operation had while it is being read
    saves,     \* how many saves were begun
    source,    \* history: what the store held when the last save began
    saved      \* history: whether save() answered true for a file that holds
               \* all it was given, each runtime as it was at one moment

store == <<failures, ops, entries, ownership>>
saver == <<pc, todo, reading, seen, saves, source, saved>>
vars == <<store, file, saver>>

Put(f, k, v) == [x \in DOMAIN f \cup {k} |-> IF x = k THEN v ELSE f[x]]

Empty == <<>>

Init ==
    /\ failures = Empty /\ ops = Empty /\ entries = Empty
    /\ ownership = Unassigned(NullId)
    /\ file = <<>>
    /\ pc = "idle" /\ todo = {} /\ reading = NoOp /\ seen = {} /\ saves = 0
    /\ source = [failures |-> Empty, ops |-> Empty, entries |-> Empty]
    /\ saved = FALSE

-----------------------------------------------------------------------------
(* What the callers do under g_mu, and so never during a save.             *)

\* Nothing is called any more once the last save is over.
MutexFree == pc = "idle" /\ saves < MaxSaves

append_failure(id, authority) ==
    /\ MutexFree
    /\ id \notin DOMAIN failures
    /\ authority.attempt # NullId /\ validate_authority(authority)
    /\ failures' = Put(failures, id, authority)
    /\ UNCHANGED <<ops, entries, ownership, file, saver>>

\* A registry call that changes the runtime of op; a save that is reading it
\* may see either value of each field.
Update(op, r) ==
    /\ op \in DOMAIN ops /\ r # ops[op]
    /\ ops' = [ops EXCEPT ![op] = r]
    /\ seen' = IF reading = op THEN seen \cup {r} ELSE seen
    /\ UNCHANGED <<failures, entries, ownership, file, pc, todo, reading,
                   saves, source, saved>>

Create(op, e) ==
    /\ MutexFree /\ op \notin DOMAIN ops
    /\ ops' = Put(ops, op, NewRuntime(e))
    /\ UNCHANGED <<failures, entries, ownership, file, saver>>

Dispatch(op, e) ==
    /\ MutexFree /\ op \in DOMAIN ops /\ ops[op].attempt_count < MaxAttempts
    /\ Update(op, dispatch(ops[op], e))

ReportFailure(op, e, ambiguous) ==
    MutexFree /\ op \in DOMAIN ops /\ Update(op, report_failure(ops[op], e, ambiguous))

\* Also begin, complete, fail and mark_conflict of the idempotency store,
\* which only change one entry.
PutEntry(k, e) ==
    /\ MutexFree
    /\ entries' = Put(entries, k, e)
    /\ UNCHANGED <<failures, ops, ownership, file, saver>>

Transfer(boot) ==
    /\ MutexFree /\ ownership.generation < MaxGenerations
    /\ ownership' = transfer(ownership, "REPLACEMENT_WORKER",
                             ownership.generation + 1, boot)
    /\ UNCHANGED <<failures, ops, entries, file, saver>>

clear ==
    /\ MutexFree
    /\ failures' = Empty /\ ops' = Empty /\ entries' = Empty
    /\ ownership' = Unassigned(NullId)
    /\ UNCHANGED <<file, saver>>

(* What they do outside g_mu, at any time.                                 *)

Running == pc # "starting" /\ (pc = "idle" => saves < MaxSaves)

Run(op, e) == Running /\ op \in DOMAIN ops /\ Update(op, run(ops[op], e))

ReportCompletion(op, e) ==
    Running /\ op \in DOMAIN ops /\ Update(op, report_completion(ops[op], e, FALSE))

ConfirmCompletion(op, e) ==
    Running /\ op \in DOMAIN ops /\ Update(op, confirm_completion(ops[op], e))

-----------------------------------------------------------------------------
(* save()                                                                  *)

Header ==
    [kind |-> "HEADER", nfail |-> Cardinality(DOMAIN failures),
     nop |-> Cardinality(DOMAIN ops), nid |-> Cardinality(DOMAIN entries)]

TornFrame == [kind |-> "TORN"]

OwnerFrame == [kind |-> "OWN", ownership |-> ownership]

\* The old file is truncated; the header counts what is to follow.
WriteHeader ==
    /\ pc = "idle" /\ saves < MaxSaves
    /\ saves' = saves + 1
    /\ file' = <<Header>>
    /\ source' = [failures |-> failures, ops |-> ops, entries |-> entries]
    /\ saved' = TRUE
    /\ pc' = "failures"
    /\ UNCHANGED <<store, todo, reading, seen>>

\* An unordered map is written in whatever order it is iterated.
Orders(S) == Bijection(1..Cardinality(S), S)

Frames(kind, f, keys) ==
    [i \in DOMAIN keys |-> [kind |-> kind, id |-> keys[i], content |-> f[keys[i]]]]

WriteFailures ==
    /\ pc = "failures"
    /\ \E keys \in Orders(DOMAIN failures) :
           file' = file \o Frames("FAIL", failures, keys)
    /\ pc' = "list"
    /\ UNCHANGED <<store, todo, reading, seen, saves, source, saved>>

ListOperations ==
    /\ pc = "list"
    /\ todo' = DOMAIN ops
    /\ pc' = "ops"
    /\ UNCHANGED <<store, file, reading, seen, saves, source, saved>>

FindOperation(op) ==
    /\ pc = "ops" /\ reading = NoOp /\ op \in todo
    /\ reading' = op /\ seen' = {ops[op]}
    /\ UNCHANGED <<store, file, pc, todo, saves, source, saved>>

\* Mutant: the authority of the recorded outcome is not written.
OpFrame_without_terminal(op, r) ==
    [kind |-> "OP", id |-> op, content |-> [r EXCEPT !.terminal = UnsetEnvelope]]

OpFrame(op, r) == [kind |-> "OP", id |-> op, content |-> r]

WriteOperation(r) ==
    /\ pc = "ops" /\ reading # NoOp
    /\ file' = Append(file, OpFrame(reading, r))
    /\ saved' = (saved /\ r \in seen)
    /\ todo' = todo \ {reading} /\ reading' = NoOp /\ seen' = {}
    /\ UNCHANGED <<store, pc, saves, source>>

\* Mutant: the last entry is not written.
WriteEntries_all_but_one ==
    /\ pc = "ops" /\ reading = NoOp /\ todo = {}
    /\ \E keys \in Orders(DOMAIN entries) :
           file' = file \o Frames("ID", entries, IF keys = <<>> THEN <<>> ELSE Tail(keys))
    /\ pc' = "owner"
    /\ UNCHANGED <<store, todo, reading, seen, saves, source, saved>>

WriteEntries ==
    /\ pc = "ops" /\ reading = NoOp /\ todo = {}
    /\ \E keys \in Orders(DOMAIN entries) :
           file' = file \o Frames("ID", entries, keys)
    /\ pc' = "owner"
    /\ UNCHANGED <<store, todo, reading, seen, saves, source, saved>>

WriteOwnership ==
    /\ pc = "owner"
    /\ file' = Append(file, OwnerFrame)
    /\ pc' = "idle"
    /\ UNCHANGED <<store, todo, reading, seen, saves, source, saved>>

\* What is left on disk of the frames handed to the stream.
Cut(n, torn) == SubSeq(file, 1, n) \o (IF torn THEN <<TornFrame>> ELSE <<>>)

\* The disk is full: the rest of the stream is dropped, which save() notices
\* only if it is not the last flush, after its answer, that fails.
DiskFull(n, torn) ==
    /\ pc = "owner"
    /\ file' = Cut(n, torn)
    /\ pc' = "idle" /\ saved' = FALSE
    /\ UNCHANGED <<store, todo, reading, seen, saves, source>>

\* The process dies; what it had not saved is lost with it.
Crash(n, torn) ==
    /\ pc # "starting"
    /\ pc = "idle" => n = Len(file) /\ ~torn
    /\ file' = Cut(n, torn)
    /\ failures' = Empty /\ ops' = Empty /\ entries' = Empty
    /\ ownership' = Unassigned(NullId)
    /\ pc' = "starting" /\ todo' = {} /\ reading' = NoOp /\ seen' = {}
    /\ saved' = (saved /\ pc = "idle")
    /\ UNCHANGED <<saves, source>>

-----------------------------------------------------------------------------
(* load()                                                                  *)

OfKind(kind) == {i \in DOMAIN file : file[i].kind = kind}

Decodes(fr) ==
    /\ fr.kind # "TORN"
    /\ fr.kind = "FAIL" => validate_authority(fr.content)
    /\ fr.kind = "OP" => /\ validate_authority(fr.content.authority)
                         /\ validate_authority(fr.content.terminal)

Distinct(kind) ==
    \A i, j \in OfKind(kind) : file[i].id = file[j].id => i = j

\* Mutant: the operations are not counted.
CountsMatch_without_operations ==
    /\ Cardinality(OfKind("FAIL")) = file[1].nfail
    /\ Cardinality(OfKind("ID")) = file[1].nid

\* The ownership frame is not counted.
CountsMatch ==
    /\ Cardinality(OfKind("FAIL")) = file[1].nfail
    /\ Cardinality(OfKind("OP")) = file[1].nop
    /\ Cardinality(OfKind("ID")) = file[1].nid

Parses == file # <<>> /\ \A i \in DOMAIN file : Decodes(file[i])

Accepted ==
    Parses /\ CountsMatch /\ Distinct("FAIL") /\ Distinct("OP")

Restored(kind) ==
    LET At(id) == CHOOSE i \in OfKind(kind) : file[i].id = id
    IN  [id \in {file[i].id : i \in OfKind(kind)} |-> file[At(id)].content]

\* An ownership frame is adopted when it is reached, whether or not what
\* follows it, or the validation after it, rejects the file.
AdoptedWhileParsing ==
    LET own(i) == file[i].kind = "OWN" /\ \A j \in 1..i : Decodes(file[j]) IN
    IF \E i \in DOMAIN file : own(i)
    THEN LET o == file[CHOOSE i \in DOMAIN file : own(i)].ownership
         IN  adopt(ownership, o.owner, o.generation, o.boot)
    ELSE ownership

\* Before the next process loads it, a good file is damaged at one place: bytes
\* of a frame are changed, so that its checksum is wrong, or garbage is
\* appended.  (A file that load() rejects anyway is left as it is.)
Damage(n) ==
    /\ pc = "starting" /\ Accepted /\ saves >= DamageAfter
    /\ file' = [i \in 1..(IF n > Len(file) THEN n ELSE Len(file)) |->
                  IF i = n THEN TornFrame ELSE file[i]]
    /\ saved' = FALSE
    /\ UNCHANGED <<store, pc, todo, reading, seen, saves, source>>

\* The coordinator loads when it starts; the tools load at any time.
load ==
    /\ pc \in {"idle", "starting"}
    /\ pc' = "idle"
    /\ \/ /\ Accepted
          /\ failures' = Restored("FAIL")
          /\ ops' = Restored("OP")
          /\ entries' = Restored("ID")
          /\ ownership' = Unassigned(NullId)
       \/ /\ ~Accepted
          /\ ownership' = AdoptedWhileParsing
          /\ UNCHANGED <<failures, ops, entries>>
    /\ UNCHANGED <<file, todo, reading, seen, saves, source, saved>>

-----------------------------------------------------------------------------
Call(op, e) ==
    \/ Create(op, e) \/ Dispatch(op, e) \/ Run(op, e)
    \/ ReportCompletion(op, e) \/ ConfirmCompletion(op, e)
    \/ \E ambiguous \in BOOLEAN : ReportFailure(op, e, ambiguous)

Save ==
    \/ WriteHeader \/ WriteFailures \/ ListOperations
    \/ \E op \in Ops : FindOperation(op)
    \/ \E r \in TornRuntimes(seen) : WriteOperation(r)
    \/ WriteEntries \/ WriteOwnership

Next ==
    \/ \E op \in Ops, e \in Envelopes : Call(op, e)
    \/ \E id \in FailureIds, e \in Envelopes : append_failure(id, e)
    \/ \E k \in Keys, e \in Entries : PutEntry(k, e)
    \/ \E b \in Boots : Transfer(b)
    \/ clear \/ Save \/ load
    \/ \E n \in 0..Len(file), torn \in BOOLEAN : DiskFull(n, torn) \/ Crash(n, torn)
    \/ \E n \in 1..(Len(file) + 1) : Damage(n)

Spec == Init /\ [][Next]_vars

-----------------------------------------------------------------------------
(* Properties.                                                             *)

\* The parts of the store are well formed, also after a load.
TypeOK ==
    /\ DOMAIN failures \subseteq FailureIds
    /\ \A id \in DOMAIN failures : failures[id] \in AuthorityEnvelope
    /\ DOMAIN ops \subseteq Ops
    /\ \A op \in DOMAIN ops : ops[op] \in Runtime
    /\ DOMAIN entries \subseteq Keys
    /\ \A k \in DOMAIN entries : entries[k] \in Entries
    /\ ownership \in Ownership(Boots \cup {NullId})
    /\ todo \subseteq Ops /\ reading \in Ops \cup {NoOp}

\* At every moment, also half-way through a save and after a crash or a full
\* disk, a file load() would accept holds every failure, every operation and
\* every idempotency entry the store had when the save began, and no others:
\* load() rejects truncation wherever it falls.
AcceptedFileIsWhole ==
    Accepted =>
        /\ Restored("FAIL") = source.failures
        /\ DOMAIN Restored("OP") = DOMAIN source.ops
        /\ Restored("ID") = source.entries

\* An outcome recorded before a save began is in every file that save leaves
\* and load() accepts, with the authority and the state it was recorded with,
\* although save() reads runtimes without the registry's mutex.
RecordedOutcomeSurvives ==
    Accepted =>
        \A op \in DOMAIN source.ops :
            source.ops[op].terminal_recorded => Restored("OP")[op] = source.ops[op]

\* A save that ends undisturbed, none of its runtimes torn by a completion that
\* was reported or confirmed while it was read, leaves a file that load()
\* accepts; what is reported and confirmed before, between and after those
\* reads does not matter.
UndisturbedSaveLoads == pc = "idle" /\ saved => Accepted

-----------------------------------------------------------------------------
(* Refuted by the store.                                                   *)

\* load() rejects corrupt input "leaving the store untouched" (store.hpp); but
\* the ownership it meets on the way is adopted before the file is rejected.
RejectedLoadLeavesStore ==
    [][load /\ ~Accepted => UNCHANGED store]_vars

\* An operation that a file records an outcome for is in a terminal state, as
\* confirm_completion and record_terminal leave it; but save() reads the state
\* before it reads whether an outcome is recorded, and load() accepts both.
RestoredOutcomeIsTerminal ==
    Accepted =>
        \A op \in DOMAIN Restored("OP") :
            LET r == Restored("OP")[op]
            IN  r.terminal_recorded => is_terminal(r.state)

=============================================================================
