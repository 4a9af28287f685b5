CONSTANTS
    Tasks = {t1}
    Priority <- MCPriority
    Threads = {w1, w2, w3}
    Angel = angel
    ThreadCount = 1
    Sizes = {0, 1, 2}
    MaxCalls = 4
SPECIFICATION Spec
INVARIANTS TypeOK AngelFinds StopJoinsAll PoolSize
PROPERTIES PauseHolds StopReturns TasksRun
CHECK_DEADLOCK FALSE
