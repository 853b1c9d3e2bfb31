CONSTANTS
    Missing = Missing
    AppendOnlyCF = {"events"}
    MaxBatchSize = 1
    Node = {n1, n2}
    Batch <- MCBatch
    Membership = {m1}
    InitialMembership = m0
    MaxLog = 3
    MaxCrashes = 1
SPECIFICATION FairSpec
INVARIANTS
    DiskIsReplay
    SameAnswerEverywhere
    AppliedOncePerScope
PROPERTIES
    EveryNodeCatchesUp
