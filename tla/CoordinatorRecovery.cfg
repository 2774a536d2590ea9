\* One request, three workers of which one runs in mode "fail", two kills.
SPECIFICATION Spec
CONSTANTS
    w1 = w1
    w2 = w2
    w3 = w3
    c1 = c1
    c2 = c2
    op1 = op1
    op2 = op2
    NullId = NullId
    NoConn = NoConn
    NoOp = NoOp
    NoOutcome = NoOutcome
    Completed = Completed
    Undecided = Undecided
    Outcomes = {Completed}
    Boots = {w1, w2, w3}
    Workers = {w1, w2, w3}
    FailWorkers = {w2}
    Clients = {c1}
    Operations = {op1}
    Attempts <- MCIds
    Dispatches = {}
    MaxKills = 2
    MaxRestarts = 0
    Replays = FALSE
    Opens = {TRUE, FALSE}
    WaitForWorkers = FALSE
    KillRunning = FALSE
CHECK_DEADLOCK FALSE
INVARIANT TypeOK
INVARIANT RunningConnHoldsAuthority
INVARIANT SupersededAttemptRecorded
