SPECIFICATION Spec
CONSTANTS
  Pages = {p1, p2}
  Keyword = auto
  Numbers = {n1, n2}
  Default = n1
  Unusable = unusable
  None = none
  MaxSteps = 4
  MaxOutside = 1
INVARIANTS BaseConfirmed ReportedWasStored
PROPERTY NewerEditsKept
CHECK_DEADLOCK FALSE
