\* three blocks in two files; any file may fail to open, and any wakeup may be
\* spurious once.  The process hangs after a failure, and it may crash.
SPECIFICATION FairSpec
CONSTANTS
    Workers = {w1, w2, w3}
    NumWorkers = 3
    MaxBlocks = 3
    MaxFiles = 2
    MaxSpurious = 1
CHECK_DEADLOCK FALSE
INVARIANTS
    IInv
    EveryShareOnce
    InOrder
    BlockStable
PROPERTIES
    WorkersEndIfSignalled
