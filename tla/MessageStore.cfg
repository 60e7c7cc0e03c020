SPECIFICATION StoreSpec
CONSTANTS
    a = a
    b = b
    c = c
    Ids = {a, b, c}
    Batches <- MCBatches
    SocketIds = {c}
    Handlers = {h1, h2}
    Sockets = {s1, s2}
    NoSocket = NoSocket
    EmitCanFail = TRUE
    MaxSeq = 4
INVARIANTS
    StoreTypeOK
    OneRowPerMessage
    ReplyIsTrue
    UpdatesAreNews
PROPERTIES
    ImplementsLog
CHECK_DEADLOCK FALSE
