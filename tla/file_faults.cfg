\* three files of up to two blocks, compressed or not; any two calls may fail
\* and the process may die
SPECIFICATION FairSpec
CONSTANTS
    NumWorkers = 2
    Compressions = {TRUE, FALSE}
    QueueSize = 1
    Modulus = 16
    Quota = 2
    Sessions = 3
    Failing = {"data", "appendix", "header"}
    MaxFaults = 2
    MaxCrashes = 1
INVARIANTS
    IInv
    PendingBlocksOnDisk
    ReadersGetCollectedBlocks
    ArchiveOnlyGrows
PROPERTIES
    ImplementsArchive
    RotationEnds
