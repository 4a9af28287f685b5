CONSTANTS
    Files = {f1, f2}
    MaxEvents = 3
    Calm = TRUE
SPECIFICATION Spec
PROPERTIES PlugInsLoaded StopMonitorReturns
CHECK_DEADLOCK FALSE
