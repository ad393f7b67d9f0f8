\* Three blocks that may fail, two voters, fair scheduling.
CONSTANTS
  Genesis = g
  NULL = NULL
  b1 = b1
  u1 = u1
  Block = {g, b1, b2, b3}
  BlockWork = {2, 3}
  nInterval = 2
  MapCheckpoints <- NoCheckpoints
  MaxCrashes = 0
  User = {u1, u2}
  uniqueUsersList = {u1, u2}
  upcomingUsersList = {}
  Signer = u1
  SOFT_CHECKPOINT_PERIOD = 1
  MaxVotes = 2
  BlocksMayFail = TRUE
SPECIFICATION SoftFairSpec
PROPERTY SoftHandlersReturn
