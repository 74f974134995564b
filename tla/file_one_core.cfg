\* one worker, uncompressed: OpenNewFile starts a second writer
SPECIFICATION Spec
CONSTANTS
    NumWorkers = 1
    Compressions = {FALSE}
    QueueSize = 1
    Modulus = 16
    Quota = 2
    Sessions = 1
    Failing = {}
    MaxFaults = 0
    MaxCrashes = 0
INVARIANTS
    PendingBlocksOnDisk
