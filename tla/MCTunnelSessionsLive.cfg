SPECIFICATION Spec
CONSTANTS
    Flavors = {"anyconnect", "gp", "nc", "pulse", "ppp"}
    MaxChannels = 2
    MaxEvents <- LiveMaxEvents
    Networks = {"ipcp"}
    MaxTries = 2
    BatchSize = 1
PROPERTIES
    DeadTransportIsWithdrawn
    CloseReturns
CHECK_DEADLOCK FALSE
