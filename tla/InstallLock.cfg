SPECIFICATION LockSpec
CONSTANTS
  Runs = {p1, p2, p3, p4}
SYMMETRY Symmetry
INVARIANTS RecoveryIsAttended NothingLeftBehind
PROPERTY ImplementsLock
CHECK_DEADLOCK FALSE
