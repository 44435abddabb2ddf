SPECIFICATION Spec
CONSTANTS
    Setups = {s1, s2}
    Paths = {a, b}
    Keys = {k1, k2, k3}
    MaxOps = 5
    MaxWaiting = 1
    SameBytes = FALSE
    MaxFaults = 2
    MaxCrashes = 2
    None = None
CONSTRAINT TwoMishaps
SYMMETRY Symmetry
INVARIANTS RecoveryRestores RetryAccepted FilesKept
PROPERTY ImplementsAtomic
CHECK_DEADLOCK FALSE
