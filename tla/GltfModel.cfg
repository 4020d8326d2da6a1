SPECIFICATION Spec
CONSTANTS
    Models <- MCModels
    Nothing = Nothing
    MaxWrites = 3
INVARIANTS
    ModelKept
    ThrowKeepsRest
    GlbComplete
    NodesPlaced
CHECK_DEADLOCK FALSE
