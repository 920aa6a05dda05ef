SPECIFICATION FairSpec
CONSTANTS
    Volumes = {v1, v2}
    MaxLag = 1
    MaxDisruptions = 1
CHECK_DEADLOCK FALSE
INVARIANTS UngatedWithHeadroom HeadroomCanFollow
PROPERTIES HeadroomIsKept OtherGatesAreKept HeadroomIsReclaimed GateIsRemoved
