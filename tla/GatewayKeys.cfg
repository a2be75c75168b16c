SPECIFICATION Spec
CONSTANTS
    Keys = {k1, k2}
    BootKeys = {k1}
    Requests = {q1, q2}
    Admins = {a1}
    Quotas = {1}
    UsedCap = 3
    MaxEdited = 1
SYMMETRY Symmetry
INVARIANTS
    QuotaStops
    OverrunBounded
    
    SoleAdminKeepsOne
    GhostsAreDisabled
