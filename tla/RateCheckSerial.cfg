\* One run at a time, two subscriptions of one source, one edit, one fault.
CONSTANTS
    s1 = s1
    s2 = s2
    x1 = x1
    alice = alice
    Sub = {s1, s2}
    Source = {x1}
    NoSource = NoSource
    SourceOf <- MCSourceOf
    OwnerOf <- MCOwnerOf
    Threshold = {2}
    Run = {n1}
    Request = {r1}
    MaxPrice = 3
    MaxRates = 2
    MaxEdits = 1
    MaxFaults = 1
SPECIFICATION Spec
INVARIANT TypeOK
PROPERTY NoRefire
