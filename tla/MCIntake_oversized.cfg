\* A request written after a line longer than the scanner's limit.
CONSTANTS
    c1 = c1  c2 = c2
    Valid = Valid  Malformed = Malformed  Empty = Empty  Oversized = Oversized
    Conn <- MCConn1
    LineKind <- MCLineKindLong
    MaxLines = 2
SPECIFICATION Spec
INVARIANTS AnsweredInOrder
CHECK_DEADLOCK FALSE
