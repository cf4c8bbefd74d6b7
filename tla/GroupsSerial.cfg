CONSTANTS
    Plans <- MixedPlans
    InitGroup = "default"
    SubIds = {1, 2, 3}
    Handlers = {w1}
    Serialized = TRUE
    MaxTime = 3
CHECK_DEADLOCK FALSE
SPECIFICATION GroupSpec
INVARIANTS
    GroupInvariant
