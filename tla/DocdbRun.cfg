SPECIFICATION RunSpec
CONSTANTS
  Instances = {i1, i2}
  Clients <- OneClient
  Users = {ann, bob}
  Ttl = 2
  Outage = 1
  MaxClock = 3
  MaxOpens = 2
  None = None
  Deployment <- MetricsEndpoint
  DocdbSecret <- OwnUser
  Download <- FirstStart
  UsersInfo <- AllUsers
INVARIANTS
  OthersStillShown
  KnownKeepsName
  SnapshotWhole
PROPERTY KeepsMapping
SYMMETRY Symm
CHECK_DEADLOCK FALSE
