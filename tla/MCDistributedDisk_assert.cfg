CONSTANTS
    w1 = w1
    w2 = w2
    r1 = r1
    r2 = r2
    Commands = {r1, r2}
    Type <- MCType
    Key <- MCKey
    NumMinions = 2
    NumWorkers = 2
    InboxCap = 2
    MaxTasks = 2
    Faults <- MCNoFaults
    Garbage = Garbage
    Closed = Closed
    Empty = Empty
    Nobody = Nobody
    Unwritten = Unwritten
SPECIFICATION SafeSpec
INVARIANT WritesSucceed
CHECK_DEADLOCK FALSE
