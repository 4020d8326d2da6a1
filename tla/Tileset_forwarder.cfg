SPECIFICATION Spec
CONSTANTS
    NoOptions = NoOptions
    NoCallback = NoCallback
    Credits = {c1, c2}
    OnScreen = {c1}
    NoString = NoString
    Callbacks = {f, g}
    HostWaits = FALSE
    Requests = {r1, r2}
    r1 = r1
    r2 = r2
    view = view
    t1 = t1
    t2 = t2
    NoView = NoView
    Positions <- MCPositions
    Values <- MCValues
    SetFields <- MCSetFields
    NativeDefaults <- MCNativeDefaults
    ViewLists <- MCViewLists
    RenderedIn <- MCRenderedIn
    FadingIn <- MCFadingIn
    MaxParts = 1
INVARIANTS
    ForwarderFindsWrapper
CHECK_DEADLOCK FALSE
