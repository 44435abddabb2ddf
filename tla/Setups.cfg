CONSTANTS
    SetupIds = {a, b}
    Objects = {o, p}
    Clients = {c}
    None = None
    Plans <- MCPlans
    RecentLimit = 1
    MaxRevision = 3
    MaxTouches = 2
    MaxTokens = 1
    MaxStops = 1
SPECIFICATION FairSpec
INVARIANTS SelectionsKept
PROPERTIES ConfirmationsHold StatusByEvidence ChangesNoticed
CHECK_DEADLOCK FALSE
