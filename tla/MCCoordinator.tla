--------------------------- MODULE MCCoordinator ---------------------------
(***************************************************************************)
(* Small instances of Coordinator.                                         *)
(***************************************************************************)
EXTENDS Coordinator, TLC

CONSTANTS w1, w2, w3, c1, c2, op1, op2

\* Processes and operations are interchangeable: nothing orders them, and
\* begin() may yield any registered worker.  (Not for liveness.)
MCSymmetry ==
    Permutations({w1, w2}) \cup Permutations({c1, c2}) \cup Permutations({op1, op2})

MCIds == Nat

=============================================================================
