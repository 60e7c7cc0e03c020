SPECIFICATION HalvesSpec
CONSTANTS
    a = a
    b = b
    u = u
    h1 = h1
    h2 = h2
    Ids = {a, b}
    AgentIds = {a, b}
    Batches <- MCSingles
    SocketIds = {}
    Handlers = {h1, h2}
    Cli = Cli
    Sockets = {Cli}
    NoSocket = NoSocket
    NoHandler = NoHandler
    EmitCanFail = FALSE
    BatchSize = 1
    MaxEnqueued = 2
    PageSize = 1
    MaxSeq = 0
PROPERTIES
    EveryMessageIsStored
    EveryMessageArrives
CHECK_DEADLOCK FALSE
