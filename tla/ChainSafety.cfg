\* Constant difficulty, five blocks, one unclean stop.
CONSTANTS
  Genesis = g
  NULL = NULL
  b1 = b1
  b2 = b2
  b3 = b3
  b4 = b4
  b5 = b5
  Block = {g, b1, b2, b3, b4, b5}
  BlockWork = {1}
  nInterval = 2
  MapCheckpoints <- NoCheckpoints
  MaxCrashes = 1
SPECIFICATION Spec
SYMMETRY Symmetry
INVARIANTS
  TypeOK
  MainChainIsBestBranch
  NoFailedOnMainChain
  CandidatesAreUnfailed
  ConnectsOnTop
  BestIsMostWork
