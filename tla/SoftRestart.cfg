\* A hard checkpoint at height 1, an upcoming user, one unclean stop.
CONSTANTS
  Genesis = g
  NULL = NULL
  b1 = b1
  u1 = u1
  Block = {g, b1, b2, b3, b4}
  BlockWork = {1}
  nInterval = 2
  MapCheckpoints <- CheckpointAt1
  MaxCrashes = 1
  User = {u1, u2, u3}
  uniqueUsersList = {u1, u2}
  upcomingUsersList = {u3}
  Signer = u1
  SOFT_CHECKPOINT_PERIOD = 1
  MaxVotes = 2
  BlocksMayFail = FALSE
SPECIFICATION SoftSpec
SYMMETRY HardSymmetry
INVARIANTS
  CandidatesArePending
  
  
