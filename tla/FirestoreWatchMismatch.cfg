CONSTANTS
    Doc = {1, 2}
    MaxVersion = 2
    LimboTarget = {1, 2, 3}
    MaxWire = 2
    MaxConcurrentLimboResolutions = 2
    Refused = {}
    MaxCrossed = 0
    Filters = TRUE
    Lags = TRUE
    Leaves = TRUE
SPECIFICATION Spec
CHECK_DEADLOCK FALSE
INVARIANT SyncedViewIsServer
