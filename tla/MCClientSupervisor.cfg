SPECIFICATION Spec
CONSTANTS
    ReconnectTimeout = 2
    InitialBackoff = 1
    MaximumBackoff = 2
    Failures = {"retry", "rejected", "rekey", "retryAuth", "terminal"}
    Subscribed = FALSE
    MaxSessions = 2
    MaxObtained = 2
    MaxSuspends = 0
    MaxReconfigured = 1
INVARIANTS
    NothingLeaks
    TransportIsLive
    PublishedRevisionIsOwn
    ReconnectBudget
    RekeyKeepsAuthentication
