CONSTANTS
    n1 = n1
    n2 = n2
    task = task
    cycle = cycle
    timeout = timeout
    Node = {n1, n2}
    Boundary = {cycle}
    Attached <- OnTask
    Interrupting = {}
    Firings <- OneCycle
    Delay = 1
    Signal = {}
    Matches <- NoSignals
    ProjectionBatch = 1
    LeaseTime = 1
    RetryDelay = 1
    MaxDispatchAttempts = 1
    MaxTime = 2
    MaxOutbox = 3
    MaxFailures = 1
SPECIFICATION Spec
SYMMETRY NodeSymmetry
CHECK_DEADLOCK FALSE
INVARIANT TimersFireInTurn
