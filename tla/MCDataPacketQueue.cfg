SPECIFICATION FairSpec
CONSTANTS
    p1 = p1
    p2 = p2
    c1 = c1
    c2 = c2
    Producers = {p1, p2}
    Consumers = {c1, c2}
    Item = {"a", "b"}
    Zero = "zero"
    Capacity = 2
    MaxBatch = 2
    PopLimits = {0, 1}
INVARIANTS
    TypeOK
    NoSendOnClosedChannel
    NoLostWakeup
    BlockedOnlyWhenFull
PROPERTIES
    ImplementsFifo
    FrontLeaves
