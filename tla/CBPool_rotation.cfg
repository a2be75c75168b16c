SPECIFICATION Spec
CONSTANTS
    Keys = {k1, k2}
    MaxGen = 1
    Requests = {q1}
    Admins = {a1}
    BootKeys = {k1, k2}
    CB_CREDIT_LIMIT = 1
    CreditCap = 1
    RedisFails = TRUE
PROPERTIES
    PickBringsOthersCloser
    CooldownEnds
