SPECIFICATION LiveSpec
CONSTANTS
    Callers = {c1, c2}
    MaxAsked = 4
INVARIANTS
    TypeOK
    ServedMeansDone
    IdleMeansUpToDate
    NobodyStranded
PROPERTIES
    EveryInvalidationHonoured
    EveryCallerReturns
CHECK_DEADLOCK FALSE
