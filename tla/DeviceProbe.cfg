SPECIFICATION ProbeSpec
CONSTANTS
  Limit = 6
  AsbFrames <- MCAsbFrames
  MaxAsb = 2
INVARIANTS VerifiedIsGenuine HealthyIsReady
PROPERTY ProbeEnds
CHECK_DEADLOCK FALSE
