SPECIFICATION FairSpec
CONSTANTS
    a = a
    b = b
    x = x
    y = y
    Callers = {a}
    Completions = {x}
    QueueLength = 1
    MaxBatch = 1
    MaxCalls = 1
    MaxSessions = 1
    MaxRevisions = 1
PROPERTIES
    WriteReturns
