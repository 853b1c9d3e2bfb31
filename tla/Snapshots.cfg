SPECIFICATION SnapshotsSpec
CONSTANTS
    NoNode = NoNode
    Unset = Unset
    Unreadable = Unreadable
    NoSnapshot = NoSnapshot
    Node <- ForkNodes
    Def <- ForkDef
    Root = "start"
    Owner <- NoOwner
    Boundary = {}
    Attached <- NoEvents
    Leads <- NoEvents
    Interrupting = {}
    Multi = {}
    Var = {}
    Value = {}
    Inputs <- NoInput
    MaxCardinality = 1
    MaxEvents = 12
    MaxCommands = 5
    Interval = 4
INVARIANT SnapshotsReadBack
CHECK_DEADLOCK FALSE
