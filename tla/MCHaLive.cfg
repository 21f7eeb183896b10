SPECIFICATION LiveSpec
CONSTANTS
    WorkerNum = 2
    DeadlineRetries = 1
    StoreFaults = FALSE
    MaxReqs = 3
    MaxTargets = 2
    MaxFails = 2
    MaxFaults = 1
    MaxCrashes = 1
    n1 = n1
    n2 = n2
    a0 = a0
    a1 = a1
    a2 = a2
    c1 = c1
INVARIANTS
    OneSwitchover
PROPERTIES
    
    RequestsComplete
\* Every path may be gone, every call answered and every request over.
CHECK_DEADLOCK FALSE
