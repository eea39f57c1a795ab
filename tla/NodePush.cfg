SPECIFICATION Spec
CONSTANTS
  Pushers = {p1, p2}
  MaxRetries = 2
  Ttl = 2
  MaxRotations = 1
  MaxClock = 3
  NoToken = NoToken
INVARIANTS
  GivesUpOnlyDuringRotation
  PushContract
CHECK_DEADLOCK FALSE
