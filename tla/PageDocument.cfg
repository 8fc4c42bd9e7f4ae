SPECIFICATION DocumentSpec
CONSTANTS
  Files = {"f", "g"}
  Null = Null
  MaxSteps = 4
INVARIANTS OwnContent CleanWasStored
CHECK_DEADLOCK FALSE
