\* five lists of input files, one or two filter threads, queues of two blocks
SPECIFICATION FairSpec
CONSTANTS
    Inputs <- MCInputs
    Limits = {0, 2}
    Workers = {w1, w2}
    QueueLength = 2
    A = A
    B = B
    Exporters = {A, B}
    MaxExporters = 3
    None = None
INVARIANTS
    IInv
    EachMatchOnce
    OutputNamesExporters
PROPERTIES
    PipelineEnds
