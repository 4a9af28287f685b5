CONSTANTS
    Items = {1, 2}
    Consumers = {c1, c2, c3}
    Ordered = TRUE
    Prio <- MCPrio
    MaxPushes = 4
SPECIFICATION Spec
INVARIANTS
    TypeOK
    NoLostWakeup
    ExactlyOnceInOrder
PROPERTY
    RefinesService
