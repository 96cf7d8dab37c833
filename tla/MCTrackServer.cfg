CONSTANTS
  Reqs = {q1, q2, q3}
  Tracks = {k1, k2}
  NumSites = 1
  MaxRows = 2
  MaxConns = 3
  MaxCrashes = 1
SYMMETRY Symmetry
SPECIFICATION Spec
CHECK_DEADLOCK FALSE
INVARIANTS AlwaysAConnection PushesArePrefixes StaleOnlyIfRaced
