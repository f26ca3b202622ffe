\* Two forms filled in, two visits, two goroutines that save or delete.
CONSTANTS
    bid = bid
    ask = ask
    other = other
    Source = {bid, ask, other}
    NoSource = NoSource
    Title <- MCTitle
    NoTitle = "none"
    Pair <- MCPair
    Job = {j1, j2}
    PageSize = 1
    MaxRows = 2
    MaxFills = 2
    MaxMounts = 2
SPECIFICATION Spec
SYMMETRY Interchangeable
INVARIANTS
    PickedAsShown
    ListFresh
    OnePerForm
CHECK_DEADLOCK FALSE
