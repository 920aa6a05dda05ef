SPECIFICATION FairSpec
CONSTANTS
    MountpointPods = {p1}
    Targets = {t1}
    Calls = {c1}
    Nil = Nil
    MaxCrashes = 2
    ErrorsAreWritten = TRUE
    MaxDeletions = 0
    MaxExpiries = 0
    MaxRestarts = 1
INVARIANTS NoAbandonedMount
PROPERTIES AnnotatedCompletes VolumeIsServed
CHECK_DEADLOCK FALSE
