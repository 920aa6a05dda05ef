SPECIFICATION Spec
CONSTANTS
    Configurations <- MCConfigurations
    a = a
    b = b
    Pod = p
    Shared = shared
    Calls = {c1, c2}
    MaxRotations = 1
    MaxDisturbances = 1
INVARIANTS NoLostWakeup EnvFilesExist CacheFitsVolume
PROPERTIES RefreshIsSeen CleanedIsEmpty TokenReachesProcess
CHECK_DEADLOCK FALSE
