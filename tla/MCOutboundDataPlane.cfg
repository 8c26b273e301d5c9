SPECIFICATION Spec
CONSTANTS
    a = a
    b = b
    x = x
    y = y
    Callers = {a, b}
    Completions = {x, y}
    QueueLength = 2
    MaxBatch = 2
    MaxCalls = 2
    MaxSessions = 2
    MaxRevisions = 2
SYMMETRY Symmetry
INVARIANTS
    TypeOK
    WriteIsCurrent
    ResultIsHonest
    CompletionCountsPackets
    SlotsBoundQueue
