CONSTANTS
    None = None
    Parts = {"intervals", "routing", "drawings", "bpmn", "cmmn", "dmn", "durable"}
INIT Init
NEXT Next
CHECK_DEADLOCK FALSE
INVARIANTS
    
    
    
    AcceptedModelsAreSound
    
    CaseFollowsItsSentries
    CommittedEventsReadBack
