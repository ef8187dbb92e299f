SPECIFICATION Spec
CONSTANTS
    Archives <- MCArchives
    MaxBytes = 2
    Names = {"lib", "game"}
INVARIANTS
    TypeOK
    OwnEntryParsed
    FallbackKeepsExact
