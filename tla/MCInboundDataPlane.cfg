SPECIFICATION Spec
CONSTANTS
    w1 = w1
    w2 = w2
    r1 = r1
    Workers = {w1, w2}
    Readers = {r1}
    ReadLimits = {0}
    Capacity = 2
    MaxBurst = 2
    MaxPackets = 3
    MaxSessions = 2
    MaxRevisions = 2
SYMMETRY Symmetry
INVARIANTS
    TypeOK
    BatchHasOneRevision
    PerWorkerOrder
    PacketsAccountedFor
    NoMissedStateChange
