\* One update or delete request against one run, no faults.
CONSTANTS
    s1 = s1
    s2 = s2
    x1 = x1
    alice = alice
    Sub = {s1}
    Source = {x1}
    NoSource = NoSource
    SourceOf <- MCSourceOf
    OwnerOf <- MCOwnerOf
    Threshold = {2}
    Run = {n1}
    Request = {r1}
    MaxPrice = 3
    MaxRates = 2
    MaxEdits = 1
    MaxFaults = 0
SPECIFICATION Spec
INVARIANT AckedSticks
