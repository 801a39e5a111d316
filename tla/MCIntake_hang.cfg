\* Shutdown while a client keeps its connection open.
CONSTANTS
    c1 = c1  c2 = c2
    Valid = Valid  Malformed = Malformed  Empty = Empty  Oversized = Oversized
    Conn <- MCConn1
    LineKind <- MCLineKind
    MaxLines = 1
SPECIFICATION FairSpec
PROPERTIES ShutdownCompletes
CHECK_DEADLOCK FALSE
