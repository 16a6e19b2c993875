SPECIFICATION Spec
CONSTANTS
    CasAttempts = 3
    Straddle = FALSE
    MaxAttempts = 3
    MaxHead = 3
    MaxKills = 2
INVARIANTS
    TypeOK
    AbsentMeansNoEffect
    NothingLandsUnknown
PROPERTIES
    OutcomePromised
    FenceIsFreed
    FenceShortens
