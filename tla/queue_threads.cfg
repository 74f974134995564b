\* two producers and three consumers on a ring of two, spurious wakeups allowed
SPECIFICATION Spec
CONSTANTS
    Producers = {p1, p2}
    Consumers = {c1, c2, c3}
    Terminators = {}
    Capacity = 2
    NumProducers = 2
    Quota = 2
    Rounds = 1
    Spurious = TRUE
    NoData = NoData
    NoThread = NoThread
SYMMETRY Symmetry
INVARIANTS
    IInv
    ProducerBlockedOnlyWhenFull
    NoLostWakeup
    SyncedMeansReleased
