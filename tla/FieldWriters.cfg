SPECIFICATION FairSpec
CONSTANTS
    a1 = a1
    p1 = p1
    c1 = c1
    c2 = c2
    c3 = c3
    NoWriter = NoWriter
    NoCall = NoCall
    Agents = {a1}
    Apps = {p1}
    Changes = {c1, c2, c3}
    Writers <- AllWriters
    Listeners = {a1}
    ChangeOf <- MakersOf
    Handlers = {h1, h2}
    MaxUpsets = 1
INVARIANTS
    WritersTypeOK
    AckedStays
PROPERTIES
    NoSilentOverwrite
    EveryCallEnds
CHECK_DEADLOCK FALSE
