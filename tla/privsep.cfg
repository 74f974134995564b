\* four messages through a buffer that holds one and a third of them; signals
\* and the death of the collector at any time
SPECIFICATION FairSpec
CONSTANTS
    HeaderSize = 2
    BodySize = 1
    MaxMsgSize = 4
    PipeSize = 6
    Rotations = 3
    Signals = {"TERM", "INT"}
    ExpandMayFail = TRUE
    MayCrash = TRUE
INVARIANTS
    IInv
    FramingKept
    CommandsInOrder
PROPERTIES
    CommandsRun
    ChildEnds
