\* Three ids for two places, one terminal, two selections, one failing command.
CONSTANTS
    Ids = {a, b, c}
    Names = {n1, n2, n3}
    Procs = {p1}
    MaxSessions = 2
    MaxSelections = 2
    MaxFaults = 1
    MaxRestarts = 0
    None = None
SYMMETRY Symmetry
SPECIFICATION Spec
INVARIANTS
    SessionsListed
    SelectionsGuarded
