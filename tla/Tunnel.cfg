SPECIFICATION Spec
CONSTANTS
    Ops = {o1, o2}
    Boot = o1
    Modes = {"none", "quick", "named", "hybrid"}
    MaxProcs = 2
    MaxRequests = 2
INVARIANTS
    NoOrphan
    DisabledIsOff
    CleanExit
