SPECIFICATION SpecAll
CONSTANTS
  n1 = n1
  n2 = n2
  r1 = r1
  r2 = r2
  Nodes = {n1, n2}
  Replicas = {r1, r2}
  Home <- HomeOf
  MaxNexus = 2
  MaxWrites = 1
  MaxFaults = 1
  MaxOps = 3
INVARIANTS WritesAreKept OneWriter 
\* Every bounded event may have happened.
CHECK_DEADLOCK FALSE
