SPECIFICATION Spec
CONSTANTS
    Email = {a, b}
    NoUser = nobody
    Message = {1}
    Malformed = {}
    Cached = {}
    Form = {f}
    Screen = {s, t}
    NoScreen = none
    MaxRequests = 2
    MaxQueued = 1
    Rejections = TRUE
    Outages = TRUE
SYMMETRY Symmetry
INVARIANTS
    TypeOK
    ListIsView
    RowsMatchList
    ChatMeansSignedIn
    TopChatListens
    SenderOwnsQueue
PROPERTIES
    ClearedOnlyAfterSave
    CrashHasCause
