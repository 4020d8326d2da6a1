SPECIFICATION Spec
CONSTANTS
    Overlays = {v1}
    MaxAdded = 2
    OptionValues <- MCOptionValues
    Tiles = {t1, t2, t3}
    WithModel <- MCWithModel
    Tables <- MCTables
    DefaultOptions <- MCDefaultOptions
    Null = Null
INVARIANTS
    ResourcesHeld
    OverlayHeld
    OptionsKept
PROPERTIES
    NoneLost
CHECK_DEADLOCK FALSE
