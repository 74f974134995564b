\* one reader thread, two consumers, one of which may give up, and the queue
\* opened for a second file
SPECIFICATION FairSpec
CONSTANTS
    Producers = {p1}
    Consumers = {c1, c2}
    Terminators = {c1}
    Capacity = 2
    NumProducers = 1
    Quota = 4
    Rounds = 2
    Spurious = FALSE
    NoData = NoData
    NoThread = NoThread
INVARIANTS
    NothingLeftBehind
PROPERTIES
    ImplementsChannel
    EveryThreadReturns
    SyncReturns
