\* nothing fails and no signal is sent
SPECIFICATION FairSpec
CONSTANTS
    HeaderSize = 2
    BodySize = 1
    MaxMsgSize = 4
    PipeSize = 6
    Rotations = 2
    Signals = {}
    ExpandMayFail = FALSE
    MayCrash = FALSE
INVARIANTS
    CommandForEveryInterval
