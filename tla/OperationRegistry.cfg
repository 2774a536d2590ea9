\* One operation, ten envelopes, up to two attempts.
SPECIFICATION Spec
CONSTANTS
    b1 = b1
    b2 = b2
    a1 = a1
    a2 = a2
    d1 = d1
    d2 = d2
    NullId = NullId
    Boots = {b1, b2}
    Attempts = {a1, a2}
    Dispatches = {d1, d2}
    op1 = op1
    Operations = {op1}
    Envelopes <- MCEnvelopes
    MaxDispatches = 2
    Completed = Completed
    Abandoned = Abandoned
    Outcomes = {Completed, Abandoned}
    NoOutcome = NoOutcome
    Undecided = Undecided
INVARIANTS
    TypeOK
    OutcomeHeldByAuthority
    StateMovedByHolder
PROPERTIES
    TerminalStatesFinal
    OutcomeSpec
