CONSTANTS
    x = x
    p = p
    q = q
    OwnIds = {x}
    OtherIds = {p, q}
    Hidden = {q}
    PageSize = 1
SPECIFICATION AppLiveSpec
INVARIANTS
    CursorCovers
    HistoryIsComplete
PROPERTIES
    QueueIsDrained
CHECK_DEADLOCK FALSE
