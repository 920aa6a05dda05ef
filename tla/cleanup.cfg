SPECIFICATION FairSpec
CONSTANTS
    Workloads = {w1}
    MountpointPods = {m1, m2}
    S3PAs = {s1}
    Versions = {v1}
    Nil = Nil
    Legacy = {}
    Mortal = {w1}
    PodsFirst = TRUE
    MaxLag = 2
    MaxFaults = 1
    MaxRestarts = 0
    MaxDisturbances = 0
    CleanerRuns = TRUE
PROPERTIES GoneIsDetached RetiredMPIsAnnotated
