\* two routers, seven streams of packets, four seconds of one-second slots
SPECIFICATION FairSpec
CONSTANTS
    r1 = r1
    r2 = r2
    d1 = d1
    AnySource = any
    None = None
    Addresses <- MCAddresses
    Domains <- MCDomains
    TemplateIds = {256, 257}
    Layouts = {"a", "b"}
    SamplerIds = {1}
    Intervals = {10, 20}
    SeqModulus = 4
    MaxSysId = 2
    Setups <- MCSetups
    Twin = 1
    SocketSize = 1
    MaxTime = 3
    MaxFaults = 1
INVARIANTS
    IInv
    FlowsStored
    FilesSelfContained
    TemplatesAsAnnounced
PROPERTIES
    SignalsServed
CHECK_DEADLOCK FALSE
