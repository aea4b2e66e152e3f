---------------------------- MODULE MC_AddFileCopy ----------------------------
(* Small instances of AddFileCopy for TLC.  A unit is 256 bytes: the       *)
(* 512-byte chunk buffer is 2 units; the part alignment is shrunk to 4     *)
(* units so that sizes below, at and above it all occur.                   *)
EXTENDS AddFileCopy

MC_ALIGN == 4
MC_CHUNK == 2
\* empty, one chunk, a partial chunk, several chunks, aligned and not
MC_Sizes == 0..9
MC_MaxLen == 10
\* sizes stay below 16, so an underflow shows as a wrap to 15 or 14
MC_W == 4
\* a few sizes for the runs where the input changes
MC_SmallSizes == 1..3
=============================================================================
