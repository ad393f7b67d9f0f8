\* Difficulty changes every second block; fewer blocks may have more work.
CONSTANTS
  Genesis = g
  NULL = NULL
  b1 = b1
  b2 = b2
  b3 = b3
  b4 = b4
  b5 = b5
  Block = {g, b1, b2, b3, b4, b5}
  BlockWork = {2, 3}
  nInterval = 2
  MapCheckpoints <- NoCheckpoints
  MaxCrashes = 1
SPECIFICATION Spec
SYMMETRY Symmetry
INVARIANT IndInv
PROPERTY BestWorkNeverDrops
