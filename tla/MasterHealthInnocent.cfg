SPECIFICATION SafetySpec
CONSTANTS
    unit = unit
    net = net
    p = p
    q = q
    None = None
    MaxCommits = 5
    MaxFlakes = 1
    MaxMeddling = 0
    Window = 5
    Lookback = 1
    Path = {p, q}
    Check = {unit, net}
    OutageCheck = {net}
    Marked = {net}
    Shape <- SomeShapes
    TornRead = FALSE
INVARIANTS
    NoInnocentReverted
