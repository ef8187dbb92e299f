SPECIFICATION MCSpec
CONSTANTS
    Callers = {c1, c2}
    Filters = {gv}
    Plain = plain
    NoCaller = nobody
    MaxVersion = 2
    Empty = {2}
INVARIANTS
    TypeOK
PROPERTIES
    KeepsPromise
    CancelledCallReturns
    EveryCallReturns
