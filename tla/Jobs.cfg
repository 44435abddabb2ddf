SPECIFICATION FairSpec
CONSTANTS
    Setups = {s1}
    j1 = j1
    j2 = j2
    r1 = r1
    JobIds = {j1, j2}
    Repeats = {r1}
    RepeatOf <- MCRepeatOf
    Plans <- MCPlans
    Keys = {k1, k2}
    Bodies = {b1, b2}
    MaxCancels = 1
    MaxEdits = 1
    MaxSends = 2
    MaxCrashes = 1
    None = None
INVARIANTS RowsAgree WorkersKept
PROPERTIES TerminalStable ReplaySameBytes JobsEnd
CHECK_DEADLOCK FALSE
