SPECIFICATION FairSpec
CONSTANTS
  Ids = {i1, i2}
  First = i1
  NoNode = NoNode
  Clones = {i1}
  NoThin = {i2}
INVARIANTS MountsAreRight  GoneWithPool
PROPERTIES CallsKeepApart WorkloadsServed ResourcesFollow
CHECK_DEADLOCK FALSE
