\* Five votes of listed and other users for few blocks.
CONSTANTS
  Genesis = g
  NULL = NULL
  b1 = b1
  u1 = u1
  Block = {g, b1, b2}
  BlockWork = {1}
  nInterval = 2
  MapCheckpoints <- NoCheckpoints
  MaxCrashes = 0
  User = {u1, u2, u3, u4}
  uniqueUsersList = {u1, u2}
  upcomingUsersList = {u3}
  Signer = u1
  SOFT_CHECKPOINT_PERIOD = 1
  MaxVotes = 5
  BlocksMayFail = FALSE
SPECIFICATION SoftSpec
SYMMETRY SoftSymmetry
INVARIANTS
  SoftTypeOK
  CandidatesArePending
PROPERTY CheckpointNeverMovesBack
