\* Two requests, two ids; one command fails or the daemon dies once.
CONSTANTS
    Workers = {w1, w2}
    Ids = {a, b}
    Folders = {f, g}
    Gens <- MCGens
    MaxServers = 1
    MaxFaults = 1
    MaxCrashes = 1
    Nobody = Nobody
SYMMETRY Symmetry
CONSTRAINT OneMishap
SPECIFICATION Spec
INVARIANTS LiveKept LimitKept ShutdownIsFinal
CHECK_DEADLOCK FALSE
