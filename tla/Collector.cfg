\* One run at a time; a page scraped for two rates and rendered for a third.
CONSTANTS
    bid = bid
    ask = ask
    rendered = rendered
    page1 = page1
    Source = {bid, ask, rendered}
    NoSource = NoSource
    Url = {page1}
    UrlOf <- MCUrlOf
    KindOf <- MCKindOf
    Unparsable = {}
    Interval <- MCInterval
    MinGrace = 1
    MaxGrace = 2
    Collector = {n1}
    MaxRun = 1
    MaxAge = 3
    MaxPages = 2
    MaxToggles = 1
    MaxFaults = 1
SPECIFICATION FairSpec
INVARIANTS TypeOK SuccessBacked AskedOnce OneVersion
PROPERTIES Spaced EventuallyCurrent
