SPECIFICATION FairSpec
CONSTANTS
    OtherTaints = {other}
    NotReady = NotReady
    Steps = 2
    MaxQueue = 2
    MaxChanges = 3
    MaxFaults = 1
CHECK_DEADLOCK FALSE
PROPERTIES OnlyOwnTaint OpensWhenRegistered TaintIsRemoved
