SPECIFICATION Spec
CONSTANTS
    Flavors = {"anyconnect", "gp", "nc", "pulse", "ppp"}
    MaxChannels = 2
    MaxEvents <- MCMaxEvents
    Networks = {"ipcp", "ip6cp"}
    MaxTries = 1
    BatchSize = 2
INVARIANTS
    NegotiatedFirst
    AddressKept
    CloseLeavesNothing
    NoPacketTwice
PROPERTIES
    IsClientSession
VIEW SessionView
CHECK_DEADLOCK FALSE
