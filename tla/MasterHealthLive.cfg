SPECIFICATION Spec
CONSTANTS
    unit = unit
    net = net
    p = p
    q = q
    None = None
    MaxCommits = 4
    MaxFlakes = 1
    MaxMeddling = 0
    Window = 4
    Lookback = 1
    Path = {p, q}
    Check = {unit, net}
    OutageCheck = {net}
    Marked = {net}
    Shape <- HardShapes
    TornRead = TRUE

    
PROPERTIES
    ClosedOnlyWhenGreen
    
