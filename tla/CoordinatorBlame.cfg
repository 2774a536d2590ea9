\* Two requests for two operations, one kill.
SPECIFICATION Spec
CONSTANTS
    w1 = w1
    w2 = w2
    w3 = w3
    c1 = c1
    c2 = c2
    op1 = op1
    op2 = op2
    NullId = NullId
    NoConn = NoConn
    NoOp = NoOp
    NoOutcome = NoOutcome
    Completed = Completed
    Undecided = Undecided
    Outcomes = {Completed}
    Boots = {w1, w2}
    Workers = {w1, w2}
    FailWorkers = {}
    Clients = {c1, c2}
    Operations = {op1, op2}
    Attempts <- MCIds
    Dispatches = {}
    MaxKills = 1
    MaxRestarts = 0
    Replays = FALSE
    Opens = {TRUE}
    WaitForWorkers = TRUE
    KillRunning = FALSE
CHECK_DEADLOCK FALSE
INVARIANT LossBlamesItsOperation
