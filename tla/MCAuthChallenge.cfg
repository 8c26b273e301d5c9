SPECIFICATION FairSpec
CONSTANTS
    a = a
    b = b
    Callers = {a, b}
    MaxChallenges = 3
    MaxAttempts = 2
INVARIANTS
    SettledOnce
    PendingIsAwaited
    AdvancedIsOpen
    RejectedIsForgotten
PROPERTIES
    ClaimReleasesSupervisor
    CloseCompletes
