CONSTANTS
    Tasks = {t1, t2}
    Poller = poller
    Arcs = {a1, a2, a3}
    Vals = {v0, v1}
    InitVal = v0
    OnFail = {"SetDeleting"}
    LogModes = {"TT", "FT", "FF"}
    NoTask = NoTask  NoArc = NoArc  NoVal = NoVal  NoRec = NoRec  Gone = Gone
    MaxReqs = 3
    MaxFaults = 2
    MaxCrashes = 1
SYMMETRY Symmetry
SPECIFICATION Spec
INVARIANT
    OneAtATime
CHECK_DEADLOCK FALSE
