SPECIFICATION Spec
CONSTANTS
  Pages = {p1}
  Keyword = auto
  Numbers = {n1, n2}
  Default = n1
  Unusable = unusable
  None = none
  MaxSteps = 3
  MaxOutside = 1
PROPERTY OnlyOverBase
CHECK_DEADLOCK FALSE
