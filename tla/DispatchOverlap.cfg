\* Two overlapping notifier runs.
CONSTANTS
    Event = {e1}
    NoEvent = NoEvent
    Notifier = {n1, n2}
    Reachable = {e1}
    TTL = 1
    Retention = 2
    MaxClock = 4
    MaxCopies = 3
    MaxFaults = 1
SPECIFICATION FairSpec
INVARIANTS SentMeansDelivered CanceledOnlyAfterTTL
PROPERTIES EventuallySettled
