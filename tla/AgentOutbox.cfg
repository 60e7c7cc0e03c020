SPECIFICATION OutboxSpec
CONSTANTS
    a = a
    b = b
    c = c
    h1 = h1
    h2 = h2
    Ids = {a, b, c}
    AgentIds = {a, b, c}
    Batches = {}
    SocketIds = {}
    Handlers = {h1, h2}
    Sockets = {}
    NoSocket = NoSocket
    NoHandler = NoHandler
    BatchSize = 2
    MaxEnqueued = 3
    EmitCanFail = TRUE
    MaxSeq = 0
INVARIANTS
    OutboxTypeOK
    NothingLost
    StoredInOrder
PROPERTIES
    ImplementsOrderedLog
CHECK_DEADLOCK FALSE
