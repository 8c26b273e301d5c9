SPECIFICATION Spec
CONSTANTS
    AuthFlavors = {"anyconnect", "gp", "nc", "fortinet", "f5", "pulse"}
    Endpoints <- MCEndpoints
    Server <- Server1
    MaxRequests = 4
    MaxRedirects = 2
INVARIANTS
    SessionBelongsToOneServer
    ClosedHoldsNothing

    
