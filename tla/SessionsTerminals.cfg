\* One session, two ttyd processes one after the other, one failing command, one crash.
CONSTANTS
    Ids = {a}
    Names = {n1}
    Procs = {p1, p2}
    MaxSessions = 1
    MaxSelections = 0
    MaxFaults = 1
    MaxRestarts = 1
    None = None
SPECIFICATION FairSpec
INVARIANTS
    TerminalsTracked
PROPERTIES
    ChildrenReaped
