CONSTANTS
    Workers = {k1}
    Fds = {fd1, fd2}
    MaxPending = 2
    MaxServed = 2
    Hasty = FALSE
SPECIFICATION Spec
INVARIANTS TypeOK ReadsOnlyReady HandlerFindsProxy
PROPERTIES RequestsServed DtorReturns
CHECK_DEADLOCK FALSE
