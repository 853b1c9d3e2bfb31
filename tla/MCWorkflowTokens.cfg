SPECIFICATION Spec
CONSTANTS
    NoNode = NoNode
    Unset = Unset
    Unreadable = Unreadable
    Node <- MixNodes
    Def <- MixDef
    Root = "start"
    Owner <- MixOwner
    Boundary = {"timeout", "slow", "told", "late", "nag"}
    Attached <- MixAttached
    Leads <- MixLeads
    Interrupting = {"timeout", "late"}
    Multi = {"each", "all"}
    Var <- Vars
    Value <- Values
    Inputs <- Contexts
    MaxCardinality = 3
    MaxEvents = 14
    MaxCommands = 11
CHECK_DEADLOCK FALSE
INVARIANTS
    ArmedHasOwner
    RoutingMatchesReplay
    WaitsForSomething
    
    CommittedStatesReadBack
