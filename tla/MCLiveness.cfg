CONSTANTS
    None = None
    cycle = cycle
    message = message
    signal = signal
    Parts = {"boundary", "remote", "keys", "deadlines", "cases", "revocations", "read model", "profiles", "tenants"}
SPECIFICATION FairSpec
CHECK_DEADLOCK FALSE
INVARIANT SubscriptionsFollowOutbox
PROPERTIES
    
    LeasedWorkEnds
    EventsAndDeadlinesSettle
    ConsumersCatchUp
    
