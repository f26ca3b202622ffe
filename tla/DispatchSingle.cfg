\* One notifier run at a time; e2's user id does not parse.
CONSTANTS
    Event = {e1, e2}
    NoEvent = NoEvent
    Notifier = {n1}
    Reachable = {e1}
    TTL = 1
    Retention = 3
    MaxClock = 5
    MaxCopies = 4
    MaxFaults = 2
SPECIFICATION FairSpec
INVARIANTS TypeOK DuplicateOnlyByLoss
PROPERTIES KeepsPromise VacuumedStaysGone
