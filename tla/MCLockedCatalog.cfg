SPECIFICATION MCSpec
CONSTANTS
    Callers = {c1, c2}
    NoCaller = nobody
    MaxVersion = 3
    Empty = {2}
INVARIANTS
    NoFetchWhileFresh
PROPERTIES
    KeepsPromise
    EveryCallReturns
