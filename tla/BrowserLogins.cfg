SPECIFICATION FairSpec
CONSTANTS
    Tabs = {b1, b2}
    Tokens = {t1, t2, t3}
    Capacity = 2
    Plans <- MCPlans
    None = None
INVARIANTS SessionsMirrored LoginsGuarded
PROPERTIES AdoptsFinished LoadingEnds
CHECK_DEADLOCK FALSE
