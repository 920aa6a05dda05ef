SPECIFICATION Spec
CONSTANTS
    MountpointPods = {p1}
    Targets = {t1, t2}
    Calls = {c1, c2}
    Nil = Nil
    MaxCrashes = 1
    ErrorsAreWritten = FALSE
    MaxDeletions = 1
    MaxExpiries = 1
    MaxRestarts = 0
SYMMETRY Symmetry
INVARIANTS MountsAccountedFor BareOnlyOfDeleted WorkloadHasCredentials
PROPERTIES UnmountSparesWorkloads
CHECK_DEADLOCK FALSE
