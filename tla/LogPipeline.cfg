SPECIFICATION Spec
CONSTANTS
    LOG_BUFFER_SIZE = 2
    BatchSize = 2
    MaxEntries = 6
    InsertFails = TRUE
CHECK_DEADLOCK FALSE
INVARIANTS
    InOrder
PROPERTIES
    
    CloseEnds
    
