CONSTANTS
    Files = {"f1"}
    Streams = {"s1"}
    Last = 3
    WriteCap = 1
    StreamCap = 1
    MayFail = TRUE
SPECIFICATION FairSpec
INVARIANTS
    TypeOK
    SlotHasGoroutine
    NothingLost
    FileIsAtomic
PROPERTIES
    KeepsPromise
    
CHECK_DEADLOCK FALSE
