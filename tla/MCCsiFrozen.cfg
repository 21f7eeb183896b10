SPECIFICATION FairSpec
CONSTANTS
  Snaps = {s1, s2}
  MaxFaults = 0
  MaxTimeouts = 1
  MaxBreaks = 0
PROPERTY AlwaysUnfrozen
CHECK_DEADLOCK FALSE
