SPECIFICATION Spec
CONSTANTS
    k1 = k1
    k2 = k2
    m = m
    n = n
    Calls = {k1}
    Methods = {m, n}
    MaxConns = 2
    MaxChanges = 2
    MaxFails = 2
INVARIANTS
    RegistrationsAgree
    CalmCallsAreAnswered
PROPERTIES
    EveryCallIsAnswered
CHECK_DEADLOCK FALSE
