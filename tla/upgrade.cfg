SPECIFICATION Spec
CONSTANTS
    Workloads = {w1, w2}
    MountpointPods = {m1, m2}
    S3PAs = {s1, s2}
    Versions = {v1, v2}
    Nil = Nil
    Legacy = {w2}
    Mortal = {w1}
    PodsFirst = FALSE
    MaxLag = 2
    MaxFaults = 1
    MaxRestarts = 1
    MaxDisturbances = 0
    CleanerRuns = FALSE
SYMMETRY Names
INVARIANTS PendingIsBacked
PROPERTIES SameVersionOnly ActiveStaysAttached
CHECK_DEADLOCK FALSE
