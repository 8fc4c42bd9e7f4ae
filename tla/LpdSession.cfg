SPECIFICATION Spec
CONSTANTS
  j1 = j1
  j2 = j2
  Jobs = {j1, j2}
  NPorts = 2
  Offset <- MCOffset
INVARIANTS QueuedAtMostOnce VerdictIsTrue EveryPortTried
PROPERTY EndsUnlessStalled
CHECK_DEADLOCK FALSE
