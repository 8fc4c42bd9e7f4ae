SPECIFICATION Spec
CONSTANTS
  Procs = {p1, p2}
  NReleases = 2
  MaxRuns = 4
INVARIANT ActivatesAtomically
CHECK_DEADLOCK FALSE
