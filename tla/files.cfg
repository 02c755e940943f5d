CONSTANTS
    Editors = {e1, e2}
    Readers = {r1}
    Tokens = {"a", "b"}
    Contents <- MCContents
    EditRequests <- MCEditRequests
    ReadRequests <- MCReadRequests
    MaxFile = 3
    ChunkLen = 2
    Keep = 1
    MaxStamp = 2
    MaxTime = 2
SPECIFICATION FilesSpec
INVARIANTS
    FilesTypeOK
    FileIsWhole
    UndoIsKept
    ReadIsSnapshot
CONSTRAINT ReadsApart
SYMMETRY Symmetry
CHECK_DEADLOCK FALSE
