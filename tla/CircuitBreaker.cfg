SPECIFICATION Spec
CONSTANTS
    Requests = {r1, r2}
    MaxAttempts = 2
    CB_OPEN_THRESHOLD = 2
    CB_HALF_OPEN_PROBES = 1
    ErrCap = 3
INVARIANTS
    ClosedIffBelowThreshold
    
    GaugeNeverAhead
    PhantomErrorsBounded
PROPERTIES
    OpenOnlyLeavesToHalfOpen
    HalfOpenRecovers
