SPECIFICATION SafetySpec
CONSTANTS
    w1 = w1
    r1 = r1
    r2 = r2
    good = good
    bad = bad
    None = None
    Worktree = {w1}
    Run = {r1}
    Tree = {good, bad}
    Green = {good}
    MaxPolls = 1
    MaxMoves = 1
    Private = {}
    LostCreate = FALSE
    Slip = TRUE
    WriteFails = FALSE
INVARIANTS
    TokenIsEarned
