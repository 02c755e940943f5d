CONSTANTS
    c1 = c1
    c2 = c2
    Plain = Plain
    Clients <- Both
    Configs <- AllConfigs
    Serial = FALSE
    MaxReqs = 2
    MaxReplies = 1
SPECIFICATION Spec
INVARIANTS
    TypeOK
    
    LockStepUp
    RequestIsAuthentic
    NoPlaintextWhenRequired
CHECK_DEADLOCK FALSE
