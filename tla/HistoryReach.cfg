\* The same screens: is every stored rate on a page that Next leads to?
CONSTANTS
    aBid = aBid
    bBid = bBid
    aAsk = aAsk
    aOther = aOther
    Source = {aBid, bBid, aAsk, aOther}
    Title <- MCTitle
    Kind <- MCKind
    PairOf <- MCPairOf
    PairOrder <- MCPairOrder
    AllTitles = "all"
    HistoryLimit = 2
    PublicLimit = 1
    Job = {j1, j2}
    Period = {7, 30}
    DefaultPeriod = 7
    NoPair = "none"
    NoList = NoList
    AllRows <- MCAllRows
    Stocks <- MCStocks
    BucketCount = 3
    Tick = 4
    RowsPerKey = 9
    HourTicks = 5
    DayTicks = 8
    Nows = {12, 15}
    Lengths = {5, 8, 40}
    MaxAsks = 3
    MaxCollects = 1
SPECIFICATION Spec
INVARIANT NothingOutOfReach
CHECK_DEADLOCK FALSE
