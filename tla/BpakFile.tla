------------------------------- MODULE BpakFile -------------------------------
(***************************************************************************)
(* An archive file as the bpak_io / stdio layer of src/lib sees it, shared *)
(* by the package commands (BpakPackage) and the transport decoder         *)
(* (TransportDecode).                                                      *)
(*                                                                         *)
(* The file is a sequence of cells; one cell stands for 4096 / ALIGN      *)
(* bytes, so the 4096-byte header and the 4096-byte part alignment are    *)
(* both ALIGN cells.  A data cell carries the value of the bytes it holds *)
(* (the id of the part they belong to, "0" for zero padding and holes);   *)
(* a header cell carries the whole header image it is a slice of and its  *)
(* index in it, so that a torn or misplaced header image is visible.       *)
(***************************************************************************)
EXTENDS Naturals, Sequences, SequencesExt

CONSTANT ALIGN    \* BPAK_PART_ALIGN = sizeof(struct bpak_header), in cells

ASSUME ALIGN \in Nat \ {0}

HeaderSize == ALIGN

Data(v) == [hd |-> <<>>, ix |-> 0, v |-> v]
HeaderCell(h, k) == [hd |-> <<h>>, ix |-> k, v |-> "h"]
HeaderCells(h) == [k \in 1..HeaderSize |-> HeaderCell(h, k)]

\* The value of the byte at offset pos; a read past the end leaves the
\* caller's buffer as it was ("u").
CellVal(f, pos) == IF pos < Len(f) THEN f[pos + 1].v ELSE "u"

\* One fwrite of a cell at offset pos; a write past the end first fills
\* the hole with zeros.
WriteCell(f, pos, c) ==
    IF pos < Len(f) THEN [f EXCEPT ![pos + 1] = c]
    ELSE f \o [k \in 1..(pos - Len(f)) |-> Data("0")] \o <<c>>

\* A list of <<offset, cell>> writes issued in order.
Apply(f, w) == FoldLeft(LAMBDA g, x : WriteCell(g, x[1], x[2]), f, w)

DataWrites(pos, v, n) == [k \in 1..n |-> <<pos + k - 1, Data(v)>>]

\* fread + bpak_valid_header at offset pos: a short read or a slice that is
\* not one whole header image is rejected (<<>>).
ReadHeader(f, pos) ==
    IF /\ pos >= 0
       /\ pos + HeaderSize <= Len(f)
       /\ f[pos + 1].hd # <<>>
       /\ \A k \in 1..HeaderSize : f[pos + k] = HeaderCell(f[pos + 1].hd[1], k)
    THEN f[pos + 1].hd
    ELSE <<>>

\* Mutant: pad a whole block when the size is already aligned.
PadForAligned(sz) == ALIGN - (sz % ALIGN)

\* The zero padding that brings a part of sz cells to the alignment.
PadFor(sz) == IF sz % ALIGN # 0 THEN ALIGN - (sz % ALIGN) ELSE 0

=============================================================================
