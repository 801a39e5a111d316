\* Shutdown racing a connection that Accept has just returned.
CONSTANTS
    c1 = c1  c2 = c2
    Valid = Valid  Malformed = Malformed  Empty = Empty  Oversized = Oversized
    Conn <- MCConn1
    LineKind <- MCLineKind
    MaxLines = 1
SPECIFICATION Spec
INVARIANTS ExitDrainsHandlers
CHECK_DEADLOCK FALSE
