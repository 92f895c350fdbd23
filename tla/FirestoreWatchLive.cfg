CONSTANTS
    Doc = {1, 2}
    MaxVersion = 3
    LimboTarget = {1, 2, 3, 4}
    MaxWire = 0
    MaxConcurrentLimboResolutions = 2
    Refused = {1, 2, 3, 4}
    MaxCrossed = 0
    Filters = TRUE
    Lags = FALSE
    Leaves = FALSE
SPECIFICATION Spec
CHECK_DEADLOCK FALSE
PROPERTY ViewCatchesUp
