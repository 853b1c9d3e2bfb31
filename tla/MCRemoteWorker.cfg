SPECIFICATION Spec
CONSTANTS
    Task <- OneTask
    NodeOf <- OwnNodes
    Worker <- TwoWorkers
    Capable <- AllCapable
    Credit <- Scarce
    MaxAttempts = 2
    MaxSessions = 2
    MaxFaults = 1
CHECK_DEADLOCK FALSE
INVARIANTS
    LeasesFenceWorkers
    CreditHolds
