SPECIFICATION InboxLiveSpec
CONSTANTS
    a = a
    b = b
    c = c
    h1 = h1
    h2 = h2
    Ids = {a, c}
    Batches <- MCOne
    SocketIds = {c}
    Handlers = {h1, h2}
    Cli = Cli
    Sockets = {Cli, s2}
    NoSocket = NoSocket
    EmitCanFail = FALSE
    PageSize = 2
    MaxSeq = 2
PROPERTIES
    EveryMessageArrives
CHECK_DEADLOCK FALSE
