SPECIFICATION Spec
CONSTANTS
  Procs = {p1}
  Accounts = {ann, bob}
  Hosts = {"h"}
  Profiles = {"f"}
  MaxRuns = 3
  MaxBeside = 0
  Builds = {1, 2, 3}
  MaxEdits = 0
  MaxTurns = 3
  Historic = TRUE
INVARIANT RemovalStaysAvailable
CHECK_DEADLOCK FALSE
