SPECIFICATION SafetySpec
CONSTANTS
    w1 = w1
    r1 = r1
    r2 = r2
    good = good
    bad = bad
    None = None
    Worktree = {w1}
    Run = {r1, r2}
    Tree = {good, bad}
    Green = {good}
    MaxPolls = 1
    MaxMoves = 2
    Private = {w1}
    LostCreate = FALSE
    Slip = FALSE
    WriteFails = TRUE
SYMMETRY Symmetry
INVARIANTS
    TypeOK
    PublishedByItsOwnRun
    TokenIsEarned
    FailedIsTheJobsAnswer
PROPERTIES
    RefsOnlyShrink
    NoCollectionUnderALiveJob
