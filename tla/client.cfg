CONSTANTS
    Kinds = {"exec", "read", "download", "write", "upload", "edit",
             "stat", "list", "search", "capabilities"}
    Last = 3
    CallCap = 1
    Modes = {TRUE, FALSE}
SPECIFICATION FairSpec
INVARIANTS
    TypeOK
    OkIsComplete
PROPERTIES
    KeepsContract
    CallEnds
CHECK_DEADLOCK FALSE
