SPECIFICATION FairSpec
CONSTANTS
    Handlers = {h1, h2}
    Tokens = {t1, t2, t3}
    Conns = {c1, c2}
    Users = {operator, other}
    AllowedUser = operator
    Address = address
    Capacity = 2
    Idle = 2
    Absolute = 3
    Remember = 3
    Limit = 1
    Window = 2
    AuthConcurrency = 1
    MaxKeys = 2
    KeepKeys = 1
    Plans <- MCPlans
    None = None
INVARIANTS ConnectionsFollow PromisesKept FailuresBounded
PROPERTIES EndedCloses
CHECK_DEADLOCK FALSE
