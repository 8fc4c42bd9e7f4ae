SPECIFICATION Spec
CONSTANTS
  Procs = {p1, p2}
  NReleases = 2
  MaxRuns = 4
SYMMETRY Symmetry
INVARIANTS CurrentIsWhole FailedChangesNothing SuccessIsComplete
PROPERTY OnlyUninstallStops
CHECK_DEADLOCK FALSE
