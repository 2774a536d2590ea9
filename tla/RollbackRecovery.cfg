SPECIFICATION Spec
CONSTANTS
    Boots = {b1, b2, b3}
    A1 = a1
    Attempts = {a1}
    Dispatches = {}
    NullId = null
    Steps = 2
    First <- FirstAttempt
INVARIANTS
    TypeOK
    OneOwnerPerGeneration
    CompletedMeansUndone
    AtMostOneLateAct
    CompleteOrFailed
PROPERTY OwnerEnds
CHECK_DEADLOCK FALSE
