CONSTANTS
    Workers <- MCWorkers
    Threads <- MCThreads
    Classes = {"ConfigManager", "Logger", "FrameWork", "MinionProxy", "Master", "StorageManager"}
    NoThread = NoThread
    Programs = {"framework_test", "minion_exe", "master_test"}
    MaxRequests = 1
SPECIFICATION Spec
INVARIANTS TypeOK OneInstance UsesLive UpMeansReady DiesOnlyOfBadFiles LogInOrder
PROPERTIES ComesUp ExitReturns LoggedIsWritten
CHECK_DEADLOCK FALSE
