SPECIFICATION Spec
CONSTANTS
  NoObject = NoObject
  NoId = NoId
  Tokens = {"+", "%2B", "%"}
  MaxKey = 1
  BodyShapes = {"notString", "notJson", "notObject", "testEvent", "notification"}
  MaxRecords = 3
  MaxNamed = 2
INVARIANTS
  NothingDropped
  NothingInvented
  RuntimesAgree
CHECK_DEADLOCK FALSE
