CONSTANTS
  Reqs = {q1, q2}
  Tracks = {k1, k2}
  NumSites = 1
  MaxRows = 2
  MaxConns = 3
  MaxCrashes = 1
SPECIFICATION Spec
CHECK_DEADLOCK FALSE
INVARIANT ConnectionPerServer
