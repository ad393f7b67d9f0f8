\* Four valid blocks of two difficulties; three voters, one of them here.
CONSTANTS
  Genesis = g
  NULL = NULL
  b1 = b1
  u1 = u1
  Block = {g, b1, b2, b3, b4}
  BlockWork = {2, 3}
  nInterval = 2
  MapCheckpoints <- NoCheckpoints
  MaxCrashes = 0
  User = {u1, u2, u3}
  uniqueUsersList = {u1, u2, u3}
  upcomingUsersList = {}
  Signer = u1
  SOFT_CHECKPOINT_PERIOD = 1
  MaxVotes = 2
  BlocksMayFail = FALSE
SPECIFICATION SoftSpec
SYMMETRY SoftSymmetry
INVARIANTS
  
  VotesForKnownBlock
  MainChainIsBestBranch
PROPERTIES
  WorkDropsOnlyForCheckpoint
