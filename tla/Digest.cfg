\* Five subscriptions over five sources and three rows; parts of one to three.
CONSTANTS
    bank1 = bank1
    bank2 = bank2
    bank3 = bank3
    bank1ask = bank1ask
    bank2ask = bank2ask
    usdBid = usdBid
    usdAsk = usdAsk
    eurBid = eurBid
    Snap = {1, 2, 3, 4, 5}
    Source <- MCSource
    NoSource = NoSource
    Key = {usdBid, usdAsk, eurBid}
    SourceOf <- MCSourceOf
    KeyOf <- MCKeyOf
    Bid = {usdBid, eurBid}
    Label <- MCLabel
    Trigger = {"delta", "daily", "cron"}
    TriggerOf <- MCTriggerOf
    PairWidth <- MCPairWidth
    ValueWidth <- MCValueWidth
    DeltaWidth <- MCDeltaWidth
    Header = 4
    Tag = 2
    MaxLen = 20
    MaxPrice = 2
SPECIFICATION Spec
INVARIANTS Coherent Extremal EveryTriggerHeard FewestParts
CHECK_DEADLOCK FALSE
