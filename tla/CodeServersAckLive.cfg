\* Violated: a launch and two Deletes of it, no failing command.
CONSTANTS
    Workers = {w1, w2}
    Ids = {a}
    Folders = {f}
    Gens <- MCGens
    MaxServers = 1
    MaxFaults = 0
    MaxCrashes = 0
    Nobody = Nobody
SYMMETRY Symmetry
SPECIFICATION Spec
INVARIANTS
    AckedDeleteStopped
CHECK_DEADLOCK FALSE
