SPECIFICATION SpecAll
CONSTANTS
    n1 = n1
    n2 = n2
    n3 = n3
    a0 = a0
    a1 = a1
    a2 = a2
    c1 = c1
    c2 = c2
    Names = {n1, n2}
    First = n1
    FirstAddr = a0
    Addrs = {a0, a1, a2}
    Calls = {c1}
    TargetOf <- OneTarget
    AnaEnabled = TRUE
    CacheBatch = 2
    MaxBreaks = 2
    MaxLosses = 1
    MaxFaults = 1
INVARIANTS PlacedApart  RecordIsTrue 
 
\* Every path may be gone, and every request over.
CHECK_DEADLOCK FALSE
