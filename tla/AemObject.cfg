SPECIFICATION AemSpec
CONSTANTS
  Nodes = {n1, n2, n3}
  NoKey = NoKey
  Keys <- MCKeys
  MaxPending = 2
  MaxLines = 6
  StaticLabels <- MCStatic
  MaxBatchLines = 3
  MaxBatchBytes = 4
  Jobs <- MCJobs
  Content <- MCContent
  Longest <- MCLongest
  MaxSpan = 1
  OldestTaken = 4
INVARIANTS
  NoLineLost
  BuffersSound
  PairsSound
  StatsAddUp
  Complete
  NearestPartner
  NothingLost
  Bounded
  LibrariesShipAlike
  PayloadSound
  ShippedWhole
  CountersMatchLoki
  StreamsBounded
PROPERTIES
  NeverTooOld
SYMMETRY NodeSymmetry
CHECK_DEADLOCK FALSE
