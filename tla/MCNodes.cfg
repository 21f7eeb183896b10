SPECIFICATION FairSpecAll
CONSTANTS
    Labels = {"a", "b"}
    Values = {"x"}
    Volumes = {"v1"}
    Local = {}
    MaxEvents = 3
    MaxPublish = 1
    r1 = r1
    poller = poller
    d1 = d1
    d2 = d2
    d3 = d3
    n1 = n1
    None = None
    LiveFaults = 1
INVARIANTS NodeSpecIsTrue
PROPERTIES StatusFollows DrainWaits DrainCompletes
\* A node may stay down and every task idle.
CHECK_DEADLOCK FALSE
