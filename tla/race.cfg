SPECIFICATION Spec
CONSTANTS
    Workloads = {w1, w2}
    MountpointPods = {m1, m2}
    S3PAs = {s1, s2}
    Versions = {v1}
    Nil = Nil
    Legacy = {}
    Mortal = {w1}
    PodsFirst = TRUE
    MaxLag = 3
    MaxFaults = 0
    MaxRestarts = 0
    MaxDisturbances = 0
    CleanerRuns = TRUE
SYMMETRY Names
INVARIANTS TypeOK AtMostOneS3PA AttachedOnce
PROPERTIES ImplementsAttachments
