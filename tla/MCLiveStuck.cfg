SPECIFICATION FairSpec
CONSTANTS
    Regs = {r1, r2}
    Ops = {}
    Poller = poller
    Dogs = {d1, d2, d3}
    Nexuses = {n1}
    None = None
    Prompt = TRUE
    MaxRebuilds = 1
    MaxStops = 1
    MaxFaults = 0
    MaxOps = 0
PROPERTIES
    DeadIsNoticed
\* A node may stay down and every task idle.
CHECK_DEADLOCK FALSE
