\* the output file cannot be opened: the workers are never released
SPECIFICATION FairSpec
CONSTANTS
    Workers = {w1, w2}
    NumWorkers = 2
    MaxBlocks = 1
    MaxFiles = 2
    MaxSpurious = 0
CHECK_DEADLOCK FALSE
PROPERTIES
    WorkersJoined
