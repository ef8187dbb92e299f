SPECIFICATION MCSpec
CONSTANTS
    one = one
    two = two
    old = old
    new = new
    Callers = {c1, c2}
    patient = c1
    Ids <- MCIds
    Slugs <- MCSlugs
    NoSlug = NoSlug
    Absent = Absent
    NoMod = NoMod
    Blank = Blank
    Asked = {one, old, Blank}
    MaxVersion = 2
    SlugOf <- MCSlugOf
INVARIANTS
    TypeOK
    RightMod
    CancelIsolated
PROPERTY
    EveryCallReturns
