SPECIFICATION PushSpec
CONSTANTS
  MaxRetries = 3
  Ttl = 2
  BackoffCap = 3
  RetryAfters = {0, 5}
  MaxRotations = 2
  MaxClock = 6
  NoToken = NoToken
INVARIANT RotationRecovers
CHECK_DEADLOCK FALSE
