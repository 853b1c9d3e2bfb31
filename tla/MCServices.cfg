CONSTANTS
    None = None
    Parts = {"approvals", "effects", "calls", "keys", "inbox", "revocations", "read model", "exports",
             "processes", "events", "profiles", "tenants", "reconnects", "crowded",
             "decisions", "hierarchy", "relations", "windows", "reloads"}
INIT Init
NEXT Next
CHECK_DEADLOCK FALSE
INVARIANTS
    RemediesAsApproved
    KeysAreBarred
    
    RevokedStaysOut
    OffsetFollowsReadModel
    
    ConfigurationIsServed
    EngineRunsAsConfigured
    
    AccessIsAsDefined
PROPERTY EndedStaysEnded
