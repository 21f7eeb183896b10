SPECIFICATION FairSpecAll
CONSTANTS
  Pools = {p1, p2, p3}
  First = {p1, p2}
  MaxReqs = 1
  MaxFaults = 2
  Reps = {r1, r2}
  TxnLimit = 5
  MaxTxn = 2
  MaxIncs = 1
  SnapReqs = 4
  SnapFaults = 1
  MaxCrashes = 1
  Poller = poller
  a1 = a1  a2 = a2  v0 = v0  v1 = v1
  NoTask = NoTask  NoArc = NoArc  NoVal = NoVal  NoRec = NoRec  Gone = Gone
  OpsFaults = 2
  t1 = t1
INVARIANTS DataIsKept UsedIsOwned SnapshotsWhole
PROPERTIES OperationsFinish VolumeSettles SnapshotsSettle
CHECK_DEADLOCK FALSE
