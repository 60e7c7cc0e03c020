SPECIFICATION SessionSpec
CONSTANTS
    a = a
    b = b
    u = u
    h1 = h1
    h2 = h2
    Ids = {a, b, u}
    AgentIds = {a}
    Batches <- MCBatches
    SocketIds = {}
    Handlers = {h1, h2}
    Cli = Cli
    Sockets = {Cli}
    NoSocket = NoSocket
    NoHandler = NoHandler
    EmitCanFail = TRUE
    BatchSize = 1
    MaxEnqueued = 1
    PageSize = 2
    MaxSeq = 0
INVARIANTS
    InboxTypeOK
    NothingSkipped
    NewsInOrder
CHECK_DEADLOCK FALSE
