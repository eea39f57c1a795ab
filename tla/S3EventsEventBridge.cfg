SPECIFICATION Spec
CONSTANTS
  NoObject = NoObject
  NoId = NoId
  Tokens = {"x", "+"}
  MaxKey = 1
  BodyShapes = {"testEvent", "notification", "eventBridge"}
  MaxRecords = 2
  MaxNamed = 1
INVARIANT NothingDropped
CHECK_DEADLOCK FALSE
