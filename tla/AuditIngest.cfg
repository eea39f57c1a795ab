SPECIFICATION FairSpec
CONSTANTS
  Sockets = {s1, s2}
  Overlap = 1
  Backfill = 2
  MaxLag = 1
  Delays = {0, 2}
  Timeout = 4
  Reserve = 3
  WriteCost = 2
  MaxClock = 3
  MaxEvents = 2
  MaxFaults = 1
  None = None
INVARIANTS
  NoneSkipped
  ResumeSkipsNothing
  StoreTruthful
PROPERTIES
  NeverBackwards
  EventuallyKnown
  BackfillProgresses
CHECK_DEADLOCK FALSE
