SPECIFICATION Spec
CONSTANTS
  None = none
  MaxChanges = 3
INVARIANTS PassedIsRight OpenedWasReviewed OutcomeIsTrue
CHECK_DEADLOCK FALSE
