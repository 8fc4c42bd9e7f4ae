SPECIFICATION Spec
CONSTANTS
  N = 2
  Resets <- MCResets
  NPorts = 2
  TailValues = {"paper_ok"}
  StrayValues = {"asb_header"}
  MaxAsb = 2
  MaxStray = 1
INVARIANT EveryFailureIsAccounted
CHECK_DEADLOCK FALSE
