CONSTANTS
    Tasks = {t1}
    Priority <- MCPriority
    Threads = {w1}
    Angel = angel
    ThreadCount = 1
    Sizes = {1}
    MaxCalls = 1
SPECIFICATION Spec
PROPERTY
    AddedTasksDone
CHECK_DEADLOCK FALSE
