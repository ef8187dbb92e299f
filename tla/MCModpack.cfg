SPECIFICATION Spec
CONSTANTS
    Builds <- MCBuilds
    Infos <- MCInfos
    Final = 3
    BuiltIn = {"game"}
INVARIANTS
    TypeOK
    OffersAreUpgrades
    NothingMissed
    BestOffered
    DiffSuffices
    WholeReport
