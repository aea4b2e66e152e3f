----------------------------- MODULE MC_MerkleTree -----------------------------
(* Small instances of MerkleTree for TLC.  Two hashes per block: files of *)
(* 1 to 6 cells have 1 to 3 blocks, so one level or two, full and partial *)
(* data blocks, full and partial leaf blocks, a cascade and a flush above *)
(* the leaves.                                                             *)
EXTENDS MerkleTree

MC_K == 2
MC_Vals == {"a", "b"}
MC_Sizes == 1..6
====
