CONSTANTS
    Missing = Missing
    AppendOnlyCF = {"events", "dedup", "outbox", "idempotency", "authorization_audit"}
    MaxBatchSize = 2
    Node = {n1, n2}
    Call = {"first", "retry", "reuse", "rival", "stranger"}
    MaxCalls = 2
    RequestOf <- Requests
    MaxEvents = 2
    SnapshotInterval = 2
    MaxReplay = 2
    MaxAttempts = 2
    MaxInflight = 1
    MaxLog = 3
    MaxCrashes = 1
SPECIFICATION Spec
CHECK_DEADLOCK FALSE
SYMMETRY NodeSymmetry
INVARIANTS
    AnswersAreTrueOfTheLog
PROPERTIES
    ImplementsEventStore
