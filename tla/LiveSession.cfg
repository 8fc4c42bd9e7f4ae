SPECIFICATION Spec
CONSTANTS
  N = 3
  Resets <- MCResets
  NPorts = 2
  TailValues = {"paper_ok"}
  StrayValues = {"other"}
  MaxAsb = 2
  MaxStray = 1
INVARIANT ResultTellsTruth
PROPERTIES CheckpointAnswerIsOwn CancelStopsRelease Termination ImplementsDelivery
CHECK_DEADLOCK FALSE
