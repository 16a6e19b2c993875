SPECIFICATION Spec
CONSTANTS
    CasAttempts = 3
    Straddle = TRUE
    MaxAttempts = 2
    MaxHead = 3
    MaxKills = 0
INVARIANTS
    AbsentMeansNoEffect
