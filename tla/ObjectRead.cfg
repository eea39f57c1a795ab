SPECIFICATION Spec
CONSTANTS
  MaxItems = 3
  MaxJson = 3
  ExtractStamp = TRUE
  LimitAge = TRUE
INVARIANTS
  RecordsExact
  OutcomeHonest
CHECK_DEADLOCK FALSE
