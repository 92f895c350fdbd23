SPECIFICATION FairSpec
CONSTANTS
    User = {a, b}
    Message = {m1, m2}
    MaxPending = 1
PROPERTIES
    Delivered
