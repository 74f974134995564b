\* three slots; three starts of the collector, runs of nfexpire or deaths
SPECIFICATION FairSpec
CONSTANTS
    MaxSlot = 3
    SizeModulus = 16
    LowWater = 67
    Limits <- MCLimits
    Modes = {"list", "rescan", "expire", "update"}
    AutoExpire = {TRUE, FALSE}
    MaxEvents = 3
    MaxDeaths = 1
INVARIANTS
    IInv
    StatAccounts
PROPERTIES
    RunsEnd
CHECK_DEADLOCK FALSE
