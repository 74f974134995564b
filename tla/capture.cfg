\* files, live capture and the ring; two slots, one failing call
SPECIFICATION FairSpec
CONSTANTS
    Setups <- MCSetups
    Buffers = {b1, b2}
    BufferSize = 1
    MaxNodes = 4
    Keys = {1}
    Twin = 2
    MinTime = 3
    MaxTime = 6
    CheckInterval = 0
    ExpireInterval = 0
    Active = 2
    Inactive = 1
    FragTimeout = 1
    Failing = {"read", "open", "write", "rename", "append", "openflow", "renameflow"}
    MaxFaults = 1
    None = None
INVARIANTS
    IInv
    PacketsDumped
    PacketsCounted
PROPERTIES
    CaptureEnds
CHECK_DEADLOCK FALSE
