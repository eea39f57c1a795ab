SPECIFICATION FairSpec
CONSTANTS
  pair = pair
  poison = poison
  stray = stray
  NoObject = NoObject
  NoId = NoId
  NoMessage = NoMessage
  Objects <- MCObjects
  Chunks <- MCChunks
  Kind <- MCKind
  ObjectsOf <- MCObjectsOf
  Workers = {w1, w2}
  Messages = {pair, poison, stray}
  Direct = {stray}
  BatchSize = 2
  MaxReceives = 2
  Timeout = 3
  BatchWindow = 1
  TimeBudget = 2
  StepMax = 2
  PushCopies = 1
INVARIANTS
  DeletedMeansShipped
  NoRacingRedelivery
  FailureIsolated
  DuplicatesBounded
PROPERTIES
  KeepsPromise
  EventuallySettled
CHECK_DEADLOCK FALSE
