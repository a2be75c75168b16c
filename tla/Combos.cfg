SPECIFICATION Spec
CONSTANTS
    Models <- Catalogue
    Target <- TargetTable
    Effort <- EffortTable
    Custom <- CustomName
    Bindings <- SomeBindings
    Inputs <- SomeInputs
    MAX_COMBO_MODELS = 3
    Whitelists <- GrokOnly
    Requests = {q1, q2}
    Admins = {a1}
    RedisFails = TRUE
    Cycle = 2
SYMMETRY Symmetry
INVARIANTS
    
    RotationExact
    RegistryPersisted
