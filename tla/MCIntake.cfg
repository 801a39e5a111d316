\* Two clients, up to two well-sized lines each, shutdown at any point, the
\* daemon's goroutines scheduled fairly: the WaitGroup counts the handlers,
\* every request is answered once and in order, and shutdown completes
\* whenever the clients hang up.  The process really stops (it exits).
CONSTANTS
    c1 = c1  c2 = c2
    Valid = Valid  Malformed = Malformed  Empty = Empty  Oversized = Oversized
    Conn <- MCConn
    LineKind <- MCLineKind
    MaxLines = 2
SPECIFICATION FairSpec
INVARIANTS TypeOK WaitGroupAccounting AnsweredInOrder
PROPERTIES ShutdownWhenClientsHangUp
CHECK_DEADLOCK FALSE
