SPECIFICATION Spec
CONSTANTS
  Procs = {p1, p2}
  Accounts = {ann, bob}
  Hosts = {"h"}
  Profiles = {"f"}
  MaxRuns = 4
  MaxBeside = 2
  Builds = {1, 2, 3, 4}
  MaxEdits = 2
  MaxTurns = 3
  Historic = TRUE
PROPERTIES InstalledWasThere RemovedWasGone RevokesFirst SparesForeign
CHECK_DEADLOCK FALSE
SYMMETRY MCSymmetry
