SPECIFICATION Spec
CONSTANTS
  Texts = {good, better, wrong}
  Wrong = {wrong}
  None = None
  NoRequest = NoRequest
  MaxEdits = 3
  InOrder = TRUE
  Requests = {1, 2, 3}
INVARIANTS LinkedIsCurrent VerdictIsCurrent OwnPreview CurrentIsServed
PROPERTIES VerdictFollows ImplementsService
CHECK_DEADLOCK FALSE
