----------------------------- MODULE MCBlockChain -----------------------------
(* Instances of BlockChain for TLC. *)
EXTENDS BlockChain, TLC

CONSTANTS b1, b2, b3, b4, b5

NoCheckpoints == {}
CheckpointAt2 == {<<2, b1>>}

\* Hashes are interchangeable, but for the genesis block and the checkpoint.
Symmetry == Permutations(Block \ {Genesis})
CheckpointSymmetry == Permutations(Block \ {Genesis, b1})
=============================================================================
