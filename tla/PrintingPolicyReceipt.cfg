SPECIFICATION Spec
CONSTANTS
  Procs = {p1}
  Accounts = {ann, bob}
  Hosts = {"h"}
  Profiles = {"f"}
  MaxRuns = 4
  MaxBeside = 0
  Builds = {1, 2, 3, 4}
  MaxEdits = 0
  MaxTurns = 4
  Historic = TRUE
PROPERTY RemovedForgot
CHECK_DEADLOCK FALSE
