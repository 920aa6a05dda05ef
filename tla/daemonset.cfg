SPECIFICATION FairSpec
CONSTANTS
    Requests = {r1, r2, r3}
    MountIds = {m1, m2}
    Invalid = Invalid
    Malformed = Malformed
    Nil = Nil
CHECK_DEADLOCK FALSE
INVARIANTS TypeOK EveryProcessIsTracked NoDescriptorLeak ShutdownIsComplete
PROPERTIES ShutdownEnds
