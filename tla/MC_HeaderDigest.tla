--------------------------- MODULE MC_HeaderDigest ---------------------------
(* A signed and an unsigned header of every hash kind, and output buffers  *)
(* of each digest length.                                                   *)
EXTENDS HeaderDigest

MC_Sigs == {NoSig, "s1"}
MC_BufSizes == {32, 48, 64}
=============================================================================
