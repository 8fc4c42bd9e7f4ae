SPECIFICATION Spec
CONSTANTS
  Pages = {p1, p2}
  Bytes = {1, 3, 4}
  FirstBase = 1
  LastBase = 1
  Masks = {blank, full}
  Blank = blank
  None = none
  MaxSteps = 3
  MaxOutside = 1
INVARIANT StaysReadable
PROPERTIES DotsStay OnlySelectedAlone
CHECK_DEADLOCK FALSE
