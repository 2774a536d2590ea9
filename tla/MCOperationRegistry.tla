------------------------ MODULE MCOperationRegistry ------------------------
(***************************************************************************)
(* A small instance of OperationRegistry.  The envelopes differ from the   *)
(* first one in one or two dimensions each, so that every clause of both   *)
(* fences separates some pair of them.                                     *)
(***************************************************************************)
EXTENDS OperationRegistry

CONSTANTS op1, b1, b2, a1, a2, d1, d2, Abandoned

\* The first attempt, on boot b1.
First ==
    [coordinator_epoch    |-> 1,
     worker_boot          |-> b1,
     attempt              |-> a1,
     attempt_generation   |-> 1,
     dispatch             |-> d1,
     operation_generation |-> 1,
     failure_generation   |-> 0,
     recovery_generation  |-> 0]

NewerBoot == [First EXCEPT !.worker_boot = b2, !.attempt_generation = 2]

MCEnvelopes ==
    {UnsetEnvelope,
     First,
     \* the same attempt from an older epoch, another dispatch, another boot
     [First EXCEPT !.coordinator_epoch = 0],
     [First EXCEPT !.dispatch = d2],
     [First EXCEPT !.worker_boot = b2],
     [First EXCEPT !.worker_boot = NullId],
     \* the same attempt at newer generations
     NewerBoot,
     [First EXCEPT !.operation_generation = 2],
     \* the next attempt
     [NewerBoot EXCEPT !.attempt = a2, !.operation_generation = 2],
     [First EXCEPT !.attempt = a2]}

=============================================================================
