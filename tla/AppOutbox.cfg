CONSTANTS
    x = x
    y = y
    f = f
    g = g
    OwnIds = {x, y}
    FileIds = {f, g}
    Owner <- MCOwner
    Place <- MCPlace
SPECIFICATION OutboxLiveSpec
INVARIANTS
    OutboxTypeOK
    TypedIsAccountedFor
PROPERTY
    TypedIsSettled
CHECK_DEADLOCK FALSE
