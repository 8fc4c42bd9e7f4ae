SPECIFICATION Spec
CONSTANTS
  N = 2
  Resets <- MCResets
  NPorts = 2
  TailValues = {"paper_ok"}
  StrayValues = {"other"}
  MaxAsb = 2
  MaxStray = 1
PROPERTY CancelSendsNothingMore
CHECK_DEADLOCK FALSE
