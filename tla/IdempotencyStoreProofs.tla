----------------------- MODULE IdempotencyStoreProofs -----------------------
(***************************************************************************)
(* Proofs about IdempotencyStore for any callers, keys and payloads and    *)
(* any number of submissions.                                              *)
(*                                                                         *)
(* The argument: begin() binds a payload to a key and nothing rebinds it,  *)
(* so whoever executes does so with the payload of the entry (Bound,       *)
(* Executing).  complete() stores the result of such an execution          *)
(* (Stored), and begin() answers NEW for a known key only after a failure  *)
(* was reported (FailureReported).                                         *)
(***************************************************************************)
EXTENDS IdempotencyStore, TLAPS

\* Every execution ran with the payload its key is bound to.
Bound ==
    \A e \in executions :
        e.key \in DOMAIN entries /\ entries[e.key].payload_hash = e.payload

\* So does every caller that is still executing, or asking for the result.
Executing ==
    \A c \in Callers :
        caller[c].doing \in {"execute", "replay"} =>
            entries[caller[c].key].payload_hash = caller[c].payload

\* The entry of a completed operation holds a result that was reported for its
\* payload.
Stored ==
    \A k \in DOMAIN entries :
        entries[k].state = "COMPLETED" =>
            [key |-> k, payload |-> entries[k].payload_hash,
             result |-> entries[k].result] \in completions

\* An entry is failed only by a report.
FailureReported ==
    \A k \in DOMAIN entries : entries[k].state = "FAILED" => k \in failed

IInv ==
    /\ TypeOK /\ Bound /\ Executing /\ Stored /\ FailureReported
    /\ ReplaysAreGenuine /\ ExecutedOnceUnlessFailed

-----------------------------------------------------------------------------
(* What begin() answers, and to whom.                                      *)

\* What begin() answers NEW to: a key nobody used, or one whose execution was
\* reported as failed, under the payload it was used with.
LEMMA NewVerdict ==
    ASSUME TypeOK, NEW k \in Keys, NEW hash \in Payloads
    PROVE  /\ Verdict(k, hash) = "NEW" =>
                  \/ k \notin DOMAIN entries
                  \/ entries[k].state = "FAILED" /\ entries[k].payload_hash = hash
           /\ Verdict(k, hash) = "COMPLETED_REPLAY" =>
                  /\ k \in DOMAIN entries
                  /\ entries[k].state = "COMPLETED" /\ entries[k].payload_hash = hash
           /\ Verdict(k, hash) = "CONFLICT" => k \in DOMAIN entries
<1>1. CASE k \notin DOMAIN entries
  BY <1>1 DEF Verdict
<1>2. CASE k \in DOMAIN entries
  <2>1. entries[k].state \in {"IN_PROGRESS", "COMPLETED", "FAILED", "CONFLICT"}
    BY <1>2 DEF TypeOK, Entry
  <2> QED BY <1>2, <2>1 DEF Verdict
<1> QED BY <1>1, <1>2

\* Whoever executes, asks or knows of a conflict does so for a key with an entry.
LEMMA CallerKey ==
    ASSUME TypeOK, NEW c \in Callers
    PROVE  /\ caller[c].doing \in {"execute", "replay"} =>
                  caller[c].key \in DOMAIN entries /\ caller[c].payload \in Payloads
           /\ caller[c].doing = "conflict" => caller[c].key \in DOMAIN entries
BY DEF TypeOK, Doings, Idle

-----------------------------------------------------------------------------
(* The invariant.                                                          *)

\* The store begins empty.
LEMMA InitInv == Init => IInv
<1> SUFFICES ASSUME Init PROVE IInv
  OBVIOUS
<1>1. DOMAIN entries = {}
  BY DEF Init
<1>2. TypeOK
  BY <1>1, SubmissionsAssumption DEF Init, TypeOK, Doings
<1>3. Bound /\ Stored /\ FailureReported /\ ReplaysAreGenuine /\ ExecutedOnceUnlessFailed
  BY <1>1 DEF Init, Bound, Stored, FailureReported, ReplaysAreGenuine,
              ExecutedOnceUnlessFailed
<1>4. Executing
  BY DEF Init, Executing, Idle
<1> QED BY <1>2, <1>3, <1>4 DEF IInv

\* begin(), whatever it answers.
LEMMA BeginInv ==
    ASSUME IInv, NEW c \in Callers, NEW k \in Keys, NEW hash \in Payloads,
           Begin(c, k, hash)
    PROVE  IInv'
<1> DEFINE v == Verdict(k, hash)
           fresh == NewEntry(hash)
<1> USE DEF IInv
<1>1. fresh \in Entry /\ fresh.payload_hash = hash /\ fresh.state = "IN_PROGRESS"
  BY DEF NewEntry, Entry
<1>2. /\ DOMAIN entries' = DOMAIN entries \cup {k}
      /\ \A x \in DOMAIN entries : entries'[x] = entries[x]
      /\ k \notin DOMAIN entries => entries'[k] = fresh
  <2>1. CASE k \in DOMAIN entries
    BY <2>1 DEF Begin
  <2>2. CASE k \notin DOMAIN entries
    BY <2>2 DEF Begin, Put
  <2> QED BY <2>1, <2>2
<1>3. /\ \A x \in DOMAIN entries' : entries'[x] \in Entry /\ entries'[x].payload_hash \in Payloads
      /\ DOMAIN entries' \subseteq Keys
  BY <1>1, <1>2 DEF TypeOK
<1>4. submissions' \in [Callers -> 0..MaxSubmissions]
  <2>1. submissions[c] + 1 \in 0..MaxSubmissions
    BY SubmissionsAssumption DEF Begin, TypeOK
  <2> QED BY <2>1 DEF Begin, TypeOK
<1>5. Doings \subseteq Doings'
  BY <1>2 DEF Doings
<1>6. UNCHANGED <<failed, completions>>
  BY DEF Begin
<1>7. Stored' /\ FailureReported'
  BY <1>1, <1>2, <1>6 DEF Stored, FailureReported
<1>8. CASE v \in {"NEW", "COMPLETED_REPLAY"}
  <2> DEFINE now == IF v = "NEW" THEN "execute" ELSE "replay"
             doing == [doing |-> now, key |-> k, payload |-> hash]
             new == [key |-> k, payload |-> hash, by |-> c, nr |-> submissions[c]]
  <2>1. /\ caller' = [caller EXCEPT ![c] = doing]
        /\ executions' = IF v = "NEW" THEN executions \cup {new} ELSE executions
        /\ replays' = replays
    BY <1>8 DEF Begin
  <2>2. entries'[k].payload_hash = hash
    BY <1>1, <1>2, <1>8, NewVerdict
  <2>3. TypeOK'
    <3>1. doing \in Doings'
      BY <1>2 DEF Doings
    <3> QED BY <1>3, <1>4, <1>5, <2>1, <3>1 DEF TypeOK
  <2>4. Bound'
    BY <1>2, <2>1, <2>2 DEF Bound
  <2>5. Executing'
    <3> SUFFICES ASSUME NEW d \in Callers, caller'[d].doing \in {"execute", "replay"}
                 PROVE  entries'[caller'[d].key].payload_hash = caller'[d].payload
      BY DEF Executing
    <3>1. CASE d = c
      BY <2>1, <2>2, <3>1 DEF TypeOK
    <3>2. CASE d # c
      BY <1>2, <2>1, <3>2, CallerKey DEF Executing, TypeOK
    <3> QED BY <3>1, <3>2
  <2>6. ReplaysAreGenuine'
    BY <1>6, <2>1 DEF ReplaysAreGenuine
  <2>7. ExecutedOnceUnlessFailed'
    <3>1. v = "NEW" => k \in failed \/ \A e \in executions : e.key # k
      BY NewVerdict DEF FailureReported, Bound
    <3> QED BY <1>6, <2>1, <3>1 DEF ExecutedOnceUnlessFailed
  <2> QED BY <1>7, <2>3, <2>4, <2>5, <2>6, <2>7
<1>9. CASE v \notin {"NEW", "COMPLETED_REPLAY"}
  <2>1. /\ executions' = executions /\ replays' = replays
        /\ \/ caller' = caller
           \/ caller' = [caller EXCEPT ![c] = [doing |-> "conflict", key |-> k]]
    BY <1>9 DEF Begin
  <2>2. TypeOK'
    <3>1. [doing |-> "conflict", key |-> k] \in Doings'
      BY <1>2 DEF Doings
    <3> QED BY <1>3, <1>4, <1>5, <2>1, <3>1 DEF TypeOK
  <2>3. Bound'
    BY <1>2, <2>1 DEF Bound
  <2>4. Executing'
    BY <1>2, <2>1, CallerKey DEF Executing, TypeOK
  <2>5. ReplaysAreGenuine' /\ ExecutedOnceUnlessFailed'
    BY <1>6, <2>1 DEF ReplaysAreGenuine, ExecutedOnceUnlessFailed
  <2> QED BY <1>7, <2>2, <2>3, <2>4, <2>5
<1> QED BY <1>8, <1>9

\* prior_result() hands out the result that complete() stored for the payload.
LEMMA PriorResultInv ==
    ASSUME IInv, NEW c \in Callers, PriorResult(c)
    PROVE  IInv'
<1> USE DEF IInv
<1>1. /\ caller' = [caller EXCEPT ![c] = Idle]
      /\ UNCHANGED <<entries, submissions, executions, failed, completions>>
  BY DEF PriorResult
<1>2. TypeOK'
  BY <1>1 DEF TypeOK, Doings
<1>3. Executing'
  BY <1>1 DEF Executing, TypeOK, Idle
<1>4. Bound' /\ Stored' /\ FailureReported' /\ ExecutedOnceUnlessFailed'
  BY <1>1 DEF Bound, Stored, FailureReported, ExecutedOnceUnlessFailed
<1>5. ReplaysAreGenuine'
  <2>1. /\ caller[c].key \in DOMAIN entries
        /\ entries[caller[c].key].payload_hash = caller[c].payload
    BY CallerKey DEF PriorResult, Executing
  <2> QED BY <1>1, <2>1 DEF PriorResult, ReplaysAreGenuine, Stored
<1> QED BY <1>2, <1>3, <1>4, <1>5

\* A report changes the state of an existing entry, never the payload its key
\* is bound to, and the caller is done with it.
LEMMA ReportKeeps ==
    ASSUME IInv, NEW c \in Callers, NEW k \in DOMAIN entries, NEW e \in Entry,
           e.payload_hash = entries[k].payload_hash,
           entries' = Put(k, e),
           caller' = [caller EXCEPT ![c] = Idle],
           UNCHANGED <<submissions, executions>>
    PROVE  TypeOK' /\ Bound' /\ Executing'
<1> USE DEF IInv
<1>1. /\ DOMAIN entries' = DOMAIN entries
      /\ entries'[k] = e
      /\ \A x \in DOMAIN entries : x # k => entries'[x] = entries[x]
  BY DEF Put
<1>2. Doings' = Doings
  BY <1>1 DEF Doings
<1>3. TypeOK'
  BY <1>1, <1>2 DEF TypeOK, Doings
<1>4. Bound'
  BY <1>1 DEF Bound
<1>5. Executing'
  <2> SUFFICES ASSUME NEW d \in Callers, caller'[d].doing \in {"execute", "replay"}
               PROVE  entries'[caller'[d].key].payload_hash = caller'[d].payload
    BY DEF Executing
  <2>1. d # c /\ caller'[d] = caller[d]
    BY DEF TypeOK, Idle
  <2> QED BY <1>1, <2>1, CallerKey DEF Executing
<1> QED BY <1>3, <1>4, <1>5

\* complete() stores the result of an execution of the bound payload.
LEMMA CompleteInv ==
    ASSUME IInv, NEW c \in Callers, Complete(c)
    PROVE  IInv'
<1> DEFINE k == caller[c].key
           e == [entries[k] EXCEPT !.state = "COMPLETED", !.result = c]
<1> USE DEF IInv
<1>1. k \in DOMAIN entries /\ entries[k] \in Entry /\ entries[k].payload_hash = caller[c].payload
  BY CallerKey DEF Complete, TypeOK, Executing
<1>2. /\ e \in Entry /\ e.payload_hash = entries[k].payload_hash
      /\ e.state = "COMPLETED" /\ e.result = c
  BY <1>1 DEF Entry
<1>3. /\ entries' = Put(k, e)
      /\ completions' = completions \cup
             {[key |-> k, payload |-> caller[c].payload, result |-> c]}
      /\ caller' = [caller EXCEPT ![c] = Idle]
      /\ UNCHANGED <<submissions, executions, failed, replays>>
  BY <1>1 DEF Complete, At
<1> HIDE DEF e, k
<1>4. TypeOK' /\ Bound' /\ Executing'
  BY <1>1, <1>2, <1>3, ReportKeeps
<1>5. /\ DOMAIN entries' = DOMAIN entries /\ entries'[k] = e
      /\ \A x \in DOMAIN entries : x # k => entries'[x] = entries[x]
  BY <1>1, <1>3 DEF Put
<1>6. Stored'
  BY <1>1, <1>2, <1>3, <1>5 DEF Stored
<1>7. FailureReported'
  BY <1>2, <1>3, <1>5 DEF FailureReported
<1>8. ReplaysAreGenuine' /\ ExecutedOnceUnlessFailed'
  BY <1>3 DEF ReplaysAreGenuine, ExecutedOnceUnlessFailed
<1> QED BY <1>4, <1>6, <1>7, <1>8

\* fail() gives the key up for another execution, of the same payload.
LEMMA FailInv ==
    ASSUME IInv, NEW c \in Callers, Fail(c)
    PROVE  IInv'
<1> DEFINE k == caller[c].key
           e == [entries[k] EXCEPT !.state = "FAILED"]
<1> USE DEF IInv
<1>1. k \in DOMAIN entries /\ entries[k] \in Entry
  BY CallerKey DEF Fail, TypeOK
<1>2. e \in Entry /\ e.payload_hash = entries[k].payload_hash /\ e.state = "FAILED"
  BY <1>1 DEF Entry
<1>3. /\ entries' = Put(k, e) /\ failed' = failed \cup {k}
      /\ caller' = [caller EXCEPT ![c] = Idle]
      /\ UNCHANGED <<submissions, executions, completions, replays>>
  BY <1>1 DEF Fail
<1> HIDE DEF e, k
<1>4. TypeOK' /\ Bound' /\ Executing'
  BY <1>1, <1>2, <1>3, ReportKeeps
<1>5. /\ DOMAIN entries' = DOMAIN entries /\ entries'[k] = e
      /\ \A x \in DOMAIN entries : x # k => entries'[x] = entries[x]
  BY <1>1, <1>3 DEF Put
<1>6. Stored' /\ FailureReported'
  BY <1>2, <1>3, <1>5 DEF Stored, FailureReported
<1>7. ReplaysAreGenuine' /\ ExecutedOnceUnlessFailed'
  BY <1>3 DEF ReplaysAreGenuine, ExecutedOnceUnlessFailed
<1> QED BY <1>4, <1>6, <1>7

\* mark_conflict() blocks the key; it completes and fails nothing.
LEMMA MarkConflictInv ==
    ASSUME IInv, NEW c \in Callers, MarkConflict(c)
    PROVE  IInv'
<1> DEFINE k == caller[c].key
           e == [entries[k] EXCEPT !.state = "CONFLICT"]
<1> USE DEF IInv
<1>1. k \in DOMAIN entries /\ entries[k] \in Entry
  BY CallerKey DEF MarkConflict, TypeOK
<1>2. e \in Entry /\ e.payload_hash = entries[k].payload_hash /\ e.state = "CONFLICT"
  BY <1>1 DEF Entry
<1>3. /\ entries' = Put(k, e) /\ caller' = [caller EXCEPT ![c] = Idle]
      /\ UNCHANGED <<submissions, executions, failed, completions, replays>>
  BY <1>1 DEF MarkConflict, At, history
<1> HIDE DEF e, k
<1>4. TypeOK' /\ Bound' /\ Executing'
  BY <1>1, <1>2, <1>3, ReportKeeps
<1>5. /\ DOMAIN entries' = DOMAIN entries /\ entries'[k] = e
      /\ \A x \in DOMAIN entries : x # k => entries'[x] = entries[x]
  BY <1>1, <1>3 DEF Put
<1>6. Stored' /\ FailureReported'
  BY <1>2, <1>3, <1>5 DEF Stored, FailureReported
<1>7. ReplaysAreGenuine' /\ ExecutedOnceUnlessFailed'
  BY <1>3 DEF ReplaysAreGenuine, ExecutedOnceUnlessFailed
<1> QED BY <1>4, <1>6, <1>7

\* A caller that dies leaves the store as it is.
LEMMA LeaveInv ==
    ASSUME IInv, NEW c \in Callers, Leave(c)
    PROVE  IInv'
<1> USE DEF IInv
<1>1. /\ caller' = [caller EXCEPT ![c] = Idle]
      /\ UNCHANGED <<entries, submissions, executions, failed, completions, replays>>
  BY DEF Leave, history
<1>2. TypeOK'
  BY <1>1 DEF TypeOK, Doings
<1>3. Executing'
  BY <1>1 DEF Executing, TypeOK, Idle
<1>4. Bound' /\ Stored' /\ FailureReported'
  BY <1>1 DEF Bound, Stored, FailureReported
<1>5. ReplaysAreGenuine' /\ ExecutedOnceUnlessFailed'
  BY <1>1 DEF ReplaysAreGenuine, ExecutedOnceUnlessFailed
<1> QED BY <1>2, <1>3, <1>4, <1>5

\* The invariant holds in every state.
LEMMA Invariance == Spec => []IInv
<1>1. IInv /\ [Next]_vars => IInv'
  <2> SUFFICES ASSUME IInv, [Next]_vars PROVE IInv'
    OBVIOUS
  <2>1. CASE UNCHANGED vars
    BY <2>1 DEF vars, IInv, TypeOK, Doings, Bound, Executing, Stored, FailureReported,
                ReplaysAreGenuine, ExecutedOnceUnlessFailed
  <2> QED BY <2>1, BeginInv, PriorResultInv, CompleteInv, FailInv, MarkConflictInv, LeaveInv DEF Next
<1> QED BY InitInv, <1>1, PTL DEF Spec

-----------------------------------------------------------------------------
(* The theorems.                                                           *)

\* Entries and callers stay well formed, and a report never has to create an
\* entry for the key it is about.
THEOREM TypeCorrect == Spec => []TypeOK
BY Invariance, PTL DEF IInv

\* begin() never lets two payloads execute under one key, whatever fails, dies
\* or is marked in between.
THEOREM KeyBindsPayload == Spec => []OnePayloadPerKey
<1>1. IInv => OnePayloadPerKey
  BY DEF IInv, Bound, OnePayloadPerKey
<1> QED BY <1>1, Invariance, PTL

\* prior_result() hands out only what complete() was given for that payload.
THEOREM ReplaysGenuine == Spec => []ReplaysAreGenuine
BY Invariance, PTL DEF IInv

\* Without a call of fail() for it, a key is executed at most once.
THEOREM ExecutedOnce == Spec => []ExecutedOnceUnlessFailed
BY Invariance, PTL DEF IInv

=============================================================================
