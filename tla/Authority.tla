------------------------------ MODULE Authority ------------------------------
(***************************************************************************)
(* The authority envelope and the fences that decide whether a completion  *)
(* or a failure report still speaks for the current attempt                *)
(* (include/failure_fabric/authority.hpp, src/authority.cpp).              *)
(*                                                                         *)
(* Identifiers are opaque: the code only compares them with each other and *)
(* with the null identifier.  Generations and epochs are counters in which *)
(* 0 means unset.  A fence is a predicate here: the reason and the wording *)
(* of a rejection never influence what a caller does next.                 *)
(***************************************************************************)
EXTENDS Naturals

CONSTANTS
    Boots,       \* worker boot identifiers
    Attempts,    \* attempt identifiers
    Dispatches,  \* dispatch identifiers
    NullId       \* the null identifier

ASSUME NullIdAssumption == NullId \notin Boots \cup Attempts \cup Dispatches

AuthorityEnvelope ==
    [coordinator_epoch    : Nat,
     worker_boot          : Boots \cup {NullId},
     attempt              : Attempts \cup {NullId},
     attempt_generation   : Nat,
     dispatch             : Dispatches \cup {NullId},
     operation_generation : Nat,
     failure_generation   : Nat,
     recovery_generation  : Nat]

\* The default-constructed envelope, every dimension unset.
UnsetEnvelope ==
    [coordinator_epoch    |-> 0,
     worker_boot          |-> NullId,
     attempt              |-> NullId,
     attempt_generation   |-> 0,
     dispatch             |-> NullId,
     operation_generation |-> 0,
     failure_generation   |-> 0,
     recovery_generation  |-> 0]

is_unset(e) == e = UnsetEnvelope

\* A counter falls behind the authoritative one, which constrains it only
\* once it is set.
Regressed(candidate, current) == current # 0 /\ candidate < current

\* An identifier differs from the authoritative one, if there is one.
Mismatch(candidate, current) == current # NullId /\ candidate # current

\* The terminal outcome was recorded at the same or newer generations.
AlreadyDecided(c, terminal) ==
    /\ ~is_unset(terminal)
    /\ c.attempt_generation <= terminal.attempt_generation
    /\ c.operation_generation <= terminal.operation_generation

fence_completion(c, cur, terminal) ==
    /\ ~is_unset(c)
    /\ ~Regressed(c.coordinator_epoch, cur.coordinator_epoch)
    /\ ~Mismatch(c.attempt, cur.attempt)
    /\ ~Mismatch(c.dispatch, cur.dispatch)
    /\ ~Mismatch(c.worker_boot, cur.worker_boot)
    /\ ~Regressed(c.attempt_generation, cur.attempt_generation)
    /\ ~Regressed(c.operation_generation, cur.operation_generation)
    /\ ~AlreadyDecided(c, terminal)

\* A report from another boot than the authoritative one that is no newer.
SupersededBoot(c, cur) ==
    /\ c.worker_boot # NullId
    /\ Mismatch(c.worker_boot, cur.worker_boot)
    /\ c.attempt_generation <= cur.attempt_generation

\* Mutant: the attempt identifier of a report is not compared.
fence_failure_any_attempt(c, cur) ==
    /\ ~is_unset(c)
    /\ ~Regressed(c.coordinator_epoch, cur.coordinator_epoch)
    /\ ~Regressed(c.attempt_generation, cur.attempt_generation)
    /\ ~SupersededBoot(c, cur)

fence_failure(c, cur) ==
    /\ ~is_unset(c)
    /\ ~Regressed(c.coordinator_epoch, cur.coordinator_epoch)
    /\ ~Mismatch(c.attempt, cur.attempt)
    /\ ~Regressed(c.attempt_generation, cur.attempt_generation)
    /\ ~SupersededBoot(c, cur)

\* A recovery command must raise the recovery generation.
fence_recovery(c, cur, generation) ==
    /\ ~is_unset(c)
    /\ ~Regressed(c.coordinator_epoch, cur.coordinator_epoch)
    /\ c.recovery_generation > generation
    /\ ~Mismatch(c.attempt, cur.attempt)

\* The envelope of a fresh boot that takes over.
next_boot(e, fresh_boot) ==
    [e EXCEPT !.worker_boot = fresh_boot,
              !.attempt_generation = @ + 1,
              !.operation_generation = @ + 1,
              !.failure_generation = @ + 1,
              !.recovery_generation = @ + 1]

\* The combinations a failure record or a restored runtime may not carry: an
\* attempt without a generation, a boot without an epoch.
validate_authority(e) ==
    /\ e.attempt # NullId => e.attempt_generation # 0
    /\ e.worker_boot # NullId => e.coordinator_epoch # 0

=============================================================================
