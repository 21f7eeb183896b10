SPECIFICATION SpecAll
CONSTANTS
    Regs = {r1, r2}
    Ops = {o1}
    Poller = poller
    Dogs = {d1, d2}
    Nexuses = {n1}
    None = None
    Prompt = FALSE
    MaxRebuilds = 1
    MaxStops = 1
    MaxFaults = 1
    MaxOps = 1
SYMMETRY TaskSymmetry
INVARIANTS AckedIsCached EngineIsKnown
\* A node may stay down and every task idle, and every call may be answered.
CHECK_DEADLOCK FALSE
