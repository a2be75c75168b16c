SPECIFICATION Spec
CONSTANTS
    Keys = {k1}
    MaxGen = 2
    Requests = {q1, q2}
    Admins = {a1}
    BootKeys = {k1}
    CB_CREDIT_LIMIT = 2
    CreditCap = 2
    RedisFails = FALSE
SYMMETRY Symmetry
INVARIANTS
    
    PoolPersisted
