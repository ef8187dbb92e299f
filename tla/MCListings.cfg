SPECIFICATION Spec
CONSTANTS
    MaxInt = 8
    Payloads <- MCPayloads
INVARIANTS
    TypeOK
    Ordered
    BadEntriesCostThemselves
    HeadingNames
