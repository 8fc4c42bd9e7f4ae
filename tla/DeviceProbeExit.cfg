SPECIFICATION ProbeSpec
CONSTANTS
  Limit = 4
  AsbFrames <- MCAsbFrames
  MaxAsb = 0
INVARIANTS IdentitySurvives
CHECK_DEADLOCK FALSE
