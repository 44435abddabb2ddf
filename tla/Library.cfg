CONSTANTS
    s = s
    t = t
    n = n
    m = m
    x = x
    y = y
    None = None
    Setups = {s, t}
    Keys = {x, y}
    Names = {n, m}
    Requests <- MCRequests
    Plans <- MCPlans
    Size <- MCSize
    MaxHeavy = 1
    ImportLimit = 2
    MaxFaults = 1
    MaxStops = 1
    MaxOutside = 1
SPECIFICATION FairSpec
INVARIANTS ObjectsKept ImportsWhole
PROPERTIES SolePrimary AllEnds
CHECK_DEADLOCK FALSE
