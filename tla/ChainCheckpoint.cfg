\* A hard checkpoint at height 2, one unclean stop.
CONSTANTS
  Genesis = g
  NULL = NULL
  b1 = b1
  b2 = b2
  b3 = b3
  b4 = b4
  b5 = b5
  Block = {g, b1, b2, b3, b4, b5}
  BlockWork = {1}
  nInterval = 2
  MapCheckpoints <- CheckpointAt2
  MaxCrashes = 1
SPECIFICATION Spec
SYMMETRY CheckpointSymmetry
INVARIANT CheckpointsOnMainChain
