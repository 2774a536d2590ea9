------------------------- MODULE MCRollbackRecovery -------------------------
(***************************************************************************)
(* RollbackRecovery for TLC, from the envelope of a first attempt.         *)
(***************************************************************************)
EXTENDS RollbackRecovery

CONSTANT A1

FirstAttempt ==
    [UnsetEnvelope EXCEPT !.coordinator_epoch = 1, !.attempt = A1,
                          !.attempt_generation = 1, !.operation_generation = 1]

=============================================================================
