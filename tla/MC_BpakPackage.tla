---------------------------- MODULE MC_BpakPackage ----------------------------
(* Small instances of BpakPackage for TLC.  A cell is 2048 bytes, so the  *)
(* header and the part alignment are two cells: a 1-cell file needs one   *)
(* cell of padding, a 2-cell file none.                                    *)
EXTENDS BpakPackage

MC_ALIGN == 2
MC_PartNames == {"a", "b"}
MC_FileSizes == {1, 2}
MC_KeyLen == 1
\* one 4096-byte block of leaf hashes covers files of up to 128 blocks
MC_MerkleLen == 2
MC_N_PARTS == 3
MC_N_META == 2
=============================================================================
