--------------------------- MODULE MCSoftCheckpoint ---------------------------
(* Instances of SoftCheckpoint for TLC. *)
EXTENDS SoftCheckpoint, TLC

CONSTANTS b1, u1

NoCheckpoints == {}
CheckpointAt1 == {<<1, b1>>}

\* Hashes but the genesis block's, and users but the signer, are interchangeable.
UserSymmetry == Permutations(uniqueUsersList \ {Signer})
SoftSymmetry == Permutations(Block \ {Genesis}) \cup UserSymmetry
HardSymmetry == Permutations(Block \ {Genesis, b1}) \cup UserSymmetry
=============================================================================
