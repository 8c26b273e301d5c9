SPECIFICATION Spec
CONSTANTS
    ReconnectTimeout = 1
    InitialBackoff = 1
    MaximumBackoff = 1
    Failures = {"retry"}
    Subscribed = FALSE
    MaxSessions = 1
    MaxObtained = 1
    MaxSuspends = 0
    MaxReconfigured = 1
INVARIANTS
    ClosedOnlyOnRequest
