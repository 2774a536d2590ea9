SPECIFICATION Spec
CONSTANTS
    Boots = {b1}
    Attempts = {a1}
    Dispatches = {}
    NullId = null
    Outcomes = {completed}
    Completed = completed
    NoOutcome = none
    Ops = {op1}
    FailureIds = {f1}
    Keys = {k1}
    Entries = {e1}
    Envelopes <- FirstAttempts
    MaxAttempts = 1
    MaxGenerations = 1
    MaxSaves = 2
    DamageAfter = 2
    NoOp = noop
INVARIANTS
    TypeOK
    AcceptedFileIsWhole
    RecordedOutcomeSurvives
    UndisturbedSaveLoads
CHECK_DEADLOCK FALSE
