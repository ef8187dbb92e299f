SPECIFICATION Spec
CONSTANTS
    Totals = {0, 1, 4}
    Queries <- MCQueries
    DefaultSize = 2
    MaxSize = 4
    MaxInt = 15
    Pool = {w1, w2}
INVARIANT
    EnrichmentKeepsItems
