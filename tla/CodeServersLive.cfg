\* One instance: no symmetry, and nobody is forced to call, to give up or to exit.
CONSTANTS
    Workers = {w1, w2}
    Ids = {a}
    Folders = {f}
    Gens <- MCGens
    MaxServers = 1
    MaxFaults = 1
    MaxCrashes = 0
    Nobody = Nobody
SPECIFICATION FairSpec
INVARIANTS TypeOK ProxiesOnlyActive TransitionsOwned
PROPERTIES RequestsEnd
CHECK_DEADLOCK FALSE
