CONSTANTS
    a = a
    b = b
    c = c
    A = A
    f = f
    g = g
    h = h
    s = s
    t = t
    None = None
    Names = {a, b, c, A}
    Fold <- MCFold
    FolderIds = {f, g, h}
    SetupIds = {s, t}
    Plans <- MCPlans
SPECIFICATION FairSpec
INVARIANTS PlacesAgree TreeLabel
PROPERTIES FailedChangesNothing StartsEnd
CHECK_DEADLOCK FALSE
