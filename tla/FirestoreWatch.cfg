CONSTANTS
    Doc = {1, 2}
    MaxVersion = 2
    LimboTarget = {1, 2, 3, 4}
    MaxWire = 2
    MaxConcurrentLimboResolutions = 2
    Refused = {1, 2, 3, 4}
    MaxCrossed = 0
    Filters = FALSE
    Lags = TRUE
    Leaves = TRUE
SPECIFICATION Spec
CHECK_DEADLOCK FALSE
INVARIANT TypeOK
INVARIANT AssertionsHold
INVARIANT AcksMatchWire
INVARIANT SyncedViewIsServer
