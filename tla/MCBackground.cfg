SPECIFICATION FairSpecAll
CONSTANTS
    Instances = {i1, i2}
    NoOwner = NoOwner
    MaxExpiries = 2
    MaxFaults = 1
    t1 = t1  t2 = t2  other = other
    MaxRevision = 3
    MaxBreaks = 2
    LoopEvents = 2
    LoopFaults = 1
    WatchFaults = 1
INVARIANTS OneKeeper CalledOnceMore
PROPERTIES ImplementsLock ReplacedStops  HealthForward 
\* Every instance of a service may have exited, and every task may be idle.
CHECK_DEADLOCK FALSE
