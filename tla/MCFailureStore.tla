--------------------------- MODULE MCFailureStore ---------------------------
(***************************************************************************)
(* FailureStore for TLC.  The envelope is the one the coordinator gives a  *)
(* first attempt (coordinator.cpp, the DISPATCH handler), the boot unset   *)
(* as it is when no worker was registered at the unlocked read.            *)
(***************************************************************************)
EXTENDS FailureStore

FirstAttempts ==
    {[UnsetEnvelope EXCEPT !.coordinator_epoch = 1, !.attempt = a,
                           !.attempt_generation = 1,
                           !.operation_generation = 1] : a \in Attempts}

=============================================================================
