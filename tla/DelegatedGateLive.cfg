SPECIFICATION Spec
CONSTANTS
    w1 = w1
    r1 = r1
    r2 = r2
    good = good
    bad = bad
    None = None
    Worktree = {w1}
    Run = {r1}
    Tree = {good, bad}
    Green = {good}
    MaxPolls = 2
    MaxMoves = 2
    Private = {w1}
    LostCreate = TRUE
    Slip = FALSE
    WriteFails = TRUE

    
PROPERTIES
    AnswerNears
    GatePromised
    MirrorDrains
