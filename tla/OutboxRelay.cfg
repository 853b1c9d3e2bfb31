CONSTANTS
    NoNode = NoNode
    Node = {n1, n2}
    Task = {t1}
    Cancellable = {t1}
    Deployment <- OneWorker
    BatchSize = 2
    MaxCrashes = 1
    MaxElections = 2
SPECIFICATION FairSpec
CHECK_DEADLOCK FALSE
INVARIANTS
    CheckpointsCoverWhatIsDone
PROPERTIES
    EveryRecordIsRelayed
