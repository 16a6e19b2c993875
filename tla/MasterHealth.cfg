SPECIFICATION SafetySpec
CONSTANTS
    unit = unit
    net = net
    p = p
    q = q
    None = None
    MaxCommits = 5
    MaxFlakes = 0
    MaxMeddling = 1
    Window = 4
    Lookback = 1
    Path = {p, q}
    Check = {unit, net}
    OutageCheck = {net}
    Marked = {net}
    Shape <- SomeShapes
    TornRead = FALSE
INVARIANTS
    TypeOK
    
    OneRevertPerCulprit
