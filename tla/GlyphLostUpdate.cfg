SPECIFICATION Spec
CONSTANTS
  Pages = {p1}
  Bytes = {1, 3, 4}
  FirstBase = 1
  LastBase = 1
  Masks = {blank, full}
  Blank = blank
  None = none
  MaxSteps = 2
  MaxOutside = 1
PROPERTY OnlySelected
CHECK_DEADLOCK FALSE
