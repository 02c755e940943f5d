CONSTANTS
    Kinds = {"fg", "bg"}
    MaxBytes = 3
    StreamCap = 1
    RingCap = 2
    Killers = {"k1"}
    MaxPolls = 2
SPECIFICATION FairSpec
INVARIANTS
    TypeOK
    OutputIsComplete
    LogsFollow
    RecordIsSound
PROPERTY
    RunsEnd
CHECK_DEADLOCK FALSE
