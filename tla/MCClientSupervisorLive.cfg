SPECIFICATION FairSpec
CONSTANTS
    ReconnectTimeout = 1
    InitialBackoff = 1
    MaximumBackoff = 1
    Failures = {"retry"}
    Subscribed = TRUE
    MaxSessions = 2
    MaxObtained = 1
    MaxSuspends = 2
    MaxReconfigured = 0
INVARIANTS
    SuspendedMeansFailing
PROPERTIES
    CloseCompletes
    SuspendTakesEffect
