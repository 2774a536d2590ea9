-------------------------- MODULE IdempotencyStore --------------------------
(***************************************************************************)
(* IdempotencyStore (src/idempotency.cpp): which submissions under a key   *)
(* may execute.  Callers submit, execute when told NEW, and report; one    *)
(* that dies while it executes never reports.  A key is the pair of an     *)
(* operation and its idempotency key.  The authority begin() is handed is  *)
(* stored and never read, so it is left out.                               *)
(***************************************************************************)
EXTENDS Naturals, FiniteSets

CONSTANTS Callers, Keys, Payloads, \* payload hashes
          NoPayload,               \* hash 0 of an entry created by a report
          NoResult,                \* the empty result of an unfinished entry
          MaxSubmissions           \* bound on the submissions of one caller

ASSUME NoneAssumption == NoPayload \notin Payloads /\ NoResult \notin Callers
ASSUME SubmissionsAssumption == MaxSubmissions \in Nat

VARIABLES
    entries,     \* entries_
    caller,      \* what each caller is doing
    submissions, \* how often each caller has submitted
    executions,  \* history: for each key, who was told NEW, and with what
    failed,      \* history: the keys fail() was called for
    completions, \* history: the results complete() was called with
    replays      \* history: the results handed out instead of an execution

vars == <<entries, caller, submissions, executions, failed, completions, replays>>
history == <<executions, failed, completions, replays>>

Idle == [doing |-> "idle"]

\* What a caller may be doing; it only asks about and reports on keys that have
\* an entry.
Doings ==
    {Idle}
    \cup [doing : {"execute", "replay"}, key : DOMAIN entries, payload : Payloads]
    \cup [doing : {"conflict"}, key : DOMAIN entries]

Entry ==
    [payload_hash : Payloads \cup {NoPayload},
     state : {"IN_PROGRESS", "COMPLETED", "FAILED", "CONFLICT"},
     result : Callers \cup {NoResult}]

\* Mutant: the payload is not bound to the key.
NewEntry_unbound(hash) ==
    [payload_hash |-> NoPayload, state |-> "IN_PROGRESS", result |-> NoResult]

NewEntry(hash) ==
    [payload_hash |-> hash, state |-> "IN_PROGRESS", result |-> NoResult]

\* entries_[k], which creates an entry that is not there.
At(k) == IF k \in DOMAIN entries THEN entries[k] ELSE NewEntry(NoPayload)

Put(k, e) == [x \in DOMAIN entries \cup {k} |-> IF x = k THEN e ELSE entries[x]]

\* Mutant: the payload is not compared.
Verdict_any_payload(k, hash) ==
    IF k \notin DOMAIN entries THEN "NEW"
    ELSE CASE entries[k].state = "CONFLICT"    -> "CONFLICT"
           [] entries[k].state = "COMPLETED"   -> "COMPLETED_REPLAY"
           [] entries[k].state = "FAILED"      -> "NEW"
           [] entries[k].state = "IN_PROGRESS" -> "IN_PROGRESS_REPLAY"

\* Mutant: a submission in progress does not keep others from executing.
Verdict_progress_ignored(k, hash) ==
    IF k \notin DOMAIN entries THEN "NEW"
    ELSE IF entries[k].payload_hash # hash THEN "CONFLICT"
    ELSE CASE entries[k].state = "CONFLICT"    -> "CONFLICT"
           [] entries[k].state = "COMPLETED"   -> "COMPLETED_REPLAY"
           [] OTHER                            -> "NEW"

\* What begin() answers.
Verdict(k, hash) ==
    IF k \notin DOMAIN entries THEN "NEW"
    ELSE IF entries[k].payload_hash # hash THEN "CONFLICT"
    ELSE CASE entries[k].state = "CONFLICT"    -> "CONFLICT"
           [] entries[k].state = "COMPLETED"   -> "COMPLETED_REPLAY"
           [] entries[k].state = "FAILED"      -> "NEW"
           [] entries[k].state = "IN_PROGRESS" -> "IN_PROGRESS_REPLAY"

-----------------------------------------------------------------------------
Init ==
    /\ entries = <<>>
    /\ caller = [c \in Callers |-> Idle]
    /\ submissions = [c \in Callers |-> 0]
    /\ executions = {} /\ failed = {} /\ completions = {} /\ replays = {}

\* begin(): only a key seen for the first time gets an entry; a failed one is
\* left as it is.  A caller told NEW executes; one told that the operation is
\* completed goes on to ask for the result; one told of a conflict knows it.
Begin(c, k, hash) ==
    LET v == Verdict(k, hash) IN
    /\ caller[c] = Idle /\ submissions[c] < MaxSubmissions
    /\ submissions' = [submissions EXCEPT ![c] = @ + 1]
    /\ entries' = IF k \in DOMAIN entries THEN entries ELSE Put(k, NewEntry(hash))
    /\ \/ /\ v = "NEW"
          /\ caller' = [caller EXCEPT ![c] = [doing |-> "execute", key |-> k,
                                              payload |-> hash]]
          /\ executions' = executions \cup
                 {[key |-> k, payload |-> hash, by |-> c, nr |-> submissions[c]]}
       \/ /\ v = "COMPLETED_REPLAY"
          /\ caller' = [caller EXCEPT ![c] = [doing |-> "replay", key |-> k,
                                              payload |-> hash]]
          /\ UNCHANGED executions
       \/ /\ v = "CONFLICT"
          /\ caller' = [caller EXCEPT ![c] = [doing |-> "conflict", key |-> k]]
          /\ UNCHANGED executions
       \/ /\ v = "IN_PROGRESS_REPLAY"
          /\ UNCHANGED <<caller, executions>>
    /\ UNCHANGED <<failed, completions, replays>>

\* prior_result(), a call of its own: it answers only if the entry is still
\* completed, no failure or conflict having been reported since.
PriorResult(c) ==
    /\ caller[c].doing = "replay"
    /\ LET k == caller[c].key IN
       \/ /\ k \in DOMAIN entries /\ entries[k].state = "COMPLETED"
          /\ replays' = replays \cup {[key |-> k, payload |-> caller[c].payload,
                                       result |-> entries[k].result]}
       \/ /\ ~(k \in DOMAIN entries /\ entries[k].state = "COMPLETED")
          /\ UNCHANGED replays
    /\ caller' = [caller EXCEPT ![c] = Idle]
    /\ UNCHANGED <<entries, submissions, executions, failed, completions>>

\* Mutant: the result is not stored.
Complete_without_result(c) ==
    /\ caller[c].doing = "execute"
    /\ LET k == caller[c].key IN
       /\ entries' = Put(k, [At(k) EXCEPT !.state = "COMPLETED"])
       /\ completions' = completions \cup
              {[key |-> k, payload |-> caller[c].payload, result |-> c]}
    /\ caller' = [caller EXCEPT ![c] = Idle]
    /\ UNCHANGED <<submissions, executions, failed, replays>>

\* complete(): whatever the state was.  The result names who produced it.
Complete(c) ==
    /\ caller[c].doing = "execute"
    /\ LET k == caller[c].key IN
       /\ entries' = Put(k, [At(k) EXCEPT !.state = "COMPLETED", !.result = c])
       /\ completions' = completions \cup
              {[key |-> k, payload |-> caller[c].payload, result |-> c]}
    /\ caller' = [caller EXCEPT ![c] = Idle]
    /\ UNCHANGED <<submissions, executions, failed, replays>>

\* fail(): also whatever the state was; only an existing entry is changed.
Fail(c) ==
    /\ caller[c].doing = "execute"
    /\ LET k == caller[c].key IN
       /\ entries' = IF k \in DOMAIN entries
                     THEN Put(k, [entries[k] EXCEPT !.state = "FAILED"])
                     ELSE entries
       /\ failed' = failed \cup {k}
    /\ caller' = [caller EXCEPT ![c] = Idle]
    /\ UNCHANGED <<submissions, executions, completions, replays>>

\* mark_conflict(): the key is blocked for every payload, or it is let be.
MarkConflict(c) ==
    /\ caller[c].doing = "conflict"
    /\ entries' = Put(caller[c].key, [At(caller[c].key) EXCEPT !.state = "CONFLICT"])
    /\ caller' = [caller EXCEPT ![c] = Idle]
    /\ UNCHANGED <<submissions, history>>

\* The caller dies, or does nothing about what it was told; it reports nothing.
Leave(c) ==
    /\ caller[c] # Idle
    /\ caller' = [caller EXCEPT ![c] = Idle]
    /\ UNCHANGED <<entries, submissions, history>>

Next ==
    \E c \in Callers :
        \/ \E k \in Keys, hash \in Payloads : Begin(c, k, hash)
        \/ PriorResult(c) \/ Complete(c) \/ Fail(c) \/ MarkConflict(c) \/ Leave(c)

Spec == Init /\ [][Next]_vars

-----------------------------------------------------------------------------
(* Properties.                                                             *)

\* Every entry and every caller is well formed; an entry keeps the payload it
\* was begun with, never the hash 0 of one that a report would create.
TypeOK ==
    /\ DOMAIN entries \subseteq Keys
    /\ \A k \in DOMAIN entries :
           entries[k] \in Entry /\ entries[k].payload_hash \in Payloads
    /\ caller \in [Callers -> Doings]
    /\ submissions \in [Callers -> 0..MaxSubmissions]

\* Whatever fails, dies or is marked: two executions under one key never have
\* different payloads ("conflicting duplicate payloads under the same key are
\* rejected").
OnePayloadPerKey ==
    \A e \in executions, f \in executions : e.key = f.key => e.payload = f.payload

\* Who is answered with a prior result is given the result of an execution of
\* that very payload which was reported complete.
ReplaysAreGenuine == replays \subseteq completions

\* As long as no execution of a key was reported as failed, at most one was
\* ever started, however many callers submit, die or mark conflicts.
ExecutedOnceUnlessFailed ==
    \A e \in executions, f \in executions :
        e.key = f.key /\ e.key \notin failed => e = f

=============================================================================
