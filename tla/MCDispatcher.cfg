CONSTANTS
    Callbacks = {c1, c2, c3}
    Dispatchers = {d1, d2}
    None = None
    End = End
SPECIFICATION Spec
INVARIANTS TypeOK CallsOnlyLive NoDeadDispatcher EveryoneHears
PROPERTY BroadcastEnds
