-------------------------- MODULE MC_TransportDecode --------------------------
(* Small instances of TransportDecode for TLC.  A cell is 2048 bytes, so   *)
(* the header, the part alignment and the 4096-byte chunk are two cells.   *)
EXTENDS TransportDecode

MC_ALIGN == 2
MC_PartNames == {"a", "b"}
\* a 1-cell part is followed by a cell of padding, a 2-cell one is not
MC_Sizes == {1, 2}
\* block-aligned parts only; 4 cells is two chunks
MC_AlignedSizes == {2, 4}
=============================================================================
