CONSTANTS
    n1 = n1
    n2 = n2
    task = task
    cycle = cycle
    timeout = timeout
    Node = {n1}
    Boundary = {timeout}
    Attached <- OnTask
    Interrupting = {timeout}
    Firings <- OneTimeout
    Delay = 1
    Signal = {}
    Matches <- NoSignals
    ProjectionBatch = 2
    LeaseTime = 2
    RetryDelay = 1
    MaxDispatchAttempts = 2
    MaxTime = 3
    MaxOutbox = 3
    MaxFailures = 0
SPECIFICATION Spec
CHECK_DEADLOCK FALSE
INVARIANTS
    ProjectionIsReplay
