SPECIFICATION Spec
CONSTANTS
    Ids = {i1}
    Configs = {c1, c2}
    Requests = {q1, q2}
    Admins = {a1}
    PROXY_FAIL_THRESHOLD = 2
SYMMETRY Symmetry
INVARIANTS
    TransportsCurrent
    
PROPERTIES
    ThresholdDisables
