CONSTANTS
    w1 = w1
    w2 = w2
    r1 = r1
    r2 = r2
    Commands = {w1, r1, r2}
    Type <- MCType
    Key <- MCKey
    NumMinions = 3
    NumWorkers = 2
    InboxCap = 1
    MaxTasks = 2
    Faults <- MCLoseCrash
    Garbage = Garbage
    Closed = Closed
    Empty = Empty
    Nobody = Nobody
    Unwritten = Unwritten
SPECIFICATION SafeSpec
INVARIANTS Placement ClientAskedHere
CHECK_DEADLOCK FALSE
