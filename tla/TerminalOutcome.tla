--------------------------- MODULE TerminalOutcome ---------------------------
(***************************************************************************)
(* What the registry promises its callers, and nothing about how: every    *)
(* operation is decided at most once.  A decision is a terminal state, an  *)
(* outcome text and the authority it was recorded under; once made, none   *)
(* of the three ever changes again.                                        *)
(***************************************************************************)

CONSTANTS
    Operations,  \* operation identifiers
    Decisions,   \* possible decisions
    Undecided    \* not a decision

VARIABLE decision

Init == decision = [op \in Operations |-> Undecided]

Decide(op) ==
    /\ decision[op] = Undecided
    /\ decision'[op] \in Decisions
    /\ decision' = [decision EXCEPT ![op] = decision'[op]]

Next == \E op \in Operations : Decide(op)

Spec == Init /\ [][Next]_decision

=============================================================================
