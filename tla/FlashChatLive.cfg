SPECIFICATION LiveSpec
CONSTANTS
    Email = {a}
    NoUser = nobody
    Message = {1, 2}
    Malformed = {}
    Cached = {}
    Form = {f}
    Screen = {s}
    NoScreen = none
    MaxRequests = 1
    MaxQueued = 1
    Rejections = FALSE
    Outages = FALSE
PROPERTIES
    SentIsShown
    ReceivedIsShown
