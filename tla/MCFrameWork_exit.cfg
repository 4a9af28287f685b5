CONSTANTS
    Workers <- MCWorkers
    Threads <- MCThreads
    Classes = {"ConfigManager", "Logger", "FrameWork", "MinionProxy", "Master", "StorageManager"}
    NoThread = NoThread
    Programs = {"framework_test"}
    MaxRequests = 2
SPECIFICATION Spec
PROPERTY TestEnds
CHECK_DEADLOCK FALSE
