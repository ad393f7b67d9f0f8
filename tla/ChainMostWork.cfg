\* The difficulty changes every second block: a branch with fewer blocks may
\* have more work.
CONSTANTS
  Genesis = g
  NULL = NULL
  b1 = b1
  b2 = b2
  b3 = b3
  b4 = b4
  b5 = b5
  Block = {g, b1, b2, b3, b4, b5}
  BlockWork = {1, 3}
  nInterval = 2
  MapCheckpoints <- NoCheckpoints
  MaxCrashes = 0
SPECIFICATION Spec
SYMMETRY Symmetry
INVARIANT BestIsMostWork
