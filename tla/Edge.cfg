SPECIFICATION EdgeSpec
CONSTANTS
    MaxTime = 4
    Clients <- MCClients
    Window = 2
    IdleAge = 2
    RPM = 2
    Burst = 1
    Minute = 2
    Hour = 3
    MinuteLimit = 1
    HourLimit = 2
    MaxDelay = 1
    MaxTokens = 1
    SessionTTL = 2
    Requests = {r1, r2}
    KeyLimits <- MCKeyLimits
    MaxRequests = 4
    MaxChanges = 1
SYMMETRY Symmetry
CHECK_DEADLOCK FALSE
INVARIANTS
    
    LoginsBounded
    
PROPERTIES
    RefusedForCause
