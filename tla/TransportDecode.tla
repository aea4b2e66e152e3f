---------------------------- MODULE TransportDecode ----------------------------
(***************************************************************************)
(* bpak_pkg_transport_decode (src/lib/pkg.c) step by step: the driver     *)
(* loop over the input's parts, the transport decoder it drives (start,   *)
(* write_chunk, finish, free: transport.c, outside src/, taken from the   *)
(* spec, section 4.7) and the I/O callbacks through which the decoder     *)
(* writes the output archive and reads the origin archive.                 *)
(*                                                                         *)
(* The input is a transport-encoded archive as `bpak transport --encode`  *)
(* leaves it: front header, parts at aligned offsets.  A part without the *)
(* TRANSPORT flag holds its own bytes (the id) and is copied verbatim; a  *)
(* part with it holds a bsdiff delta ("z" cells) that rebuilds the part    *)
(* from the same-id part of the origin archive.  Encodings that change a  *)
(* part's on-disk size are left out (see README).                          *)
(***************************************************************************)
EXTENDS BpakFile, FiniteSets

CONSTANTS
    PartNames,    \* ids of the parts of the input archive
    Sizes,        \* part sizes, in cells
    ORIGIN,       \* the origin archives given: "none", "complete" (every
                  \* input part), "any" (at least the parts a delta needs)
    TRUNCATE      \* TRUE: the input file may be cut short (a broken download)

ASSUME Sizes \subseteq Nat \ {0}
ASSUME ORIGIN \subseteq {"none", "complete", "any"} /\ TRUNCATE \in BOOLEAN

VARIABLES
    in,       \* the input archive file
    org,      \* the origin archive file, <<>> when origin == NULL
    out,      \* the output archive file
    pc,       \* where bpak_pkg_transport_decode is
    i,        \* the index of the part bpak_foreach_part is at
    rd,       \* the input stream position
    left,     \* bytes_to_process
    outOff,   \* decode_private.output_offset
    orgOff,   \* decode_private.origin_offset
    dec,      \* the decoder context decode_ctx
    rc        \* rc

vars == <<in, org, out, pc, i, rd, left, outOff, orgOff, dec, rc>>

\* sizeof(chunk_buffer): 4096 bytes.
CHUNK == HeaderSize

Vals == PartNames \cup {"0", "z", "h", "u", "x"}

(***************************************************************************)
(* The archives (spec_modelled: the encoder and the header tables).       *)
(***************************************************************************)

\* The header parts of an archive whose parts ps = <<[id, delta, size]>>
\* follow the header back to back, each padded to the alignment.
Layout(ps) ==
    [k \in 1..Len(ps) |->
        [id |-> ps[k].id, size |-> ps[k].size,
         tsize |-> IF ps[k].delta THEN ps[k].size ELSE 0,
         offset |-> HeaderSize + FoldLeft(LAMBDA a, q : a + q.size + PadFor(q.size),
                                          0, SubSeq(ps, 1, k - 1)),
         pad |-> PadFor(ps[k].size),
         flags |-> IF ps[k].delta THEN {"transport"} ELSE {}]]

Body(q) == [k \in 1..q.size + PadFor(q.size) |->
                Data(IF k > q.size THEN "0" ELSE IF q.delta THEN "z" ELSE q.id)]

Archive(ps) == HeaderCells([parts |-> Layout(ps)]) \o FlattenSeq([k \in 1..Len(ps) |-> Body(ps[k])])

\* The inputs: one or two parts of distinct ids, each plain or a delta.
InputSpecs ==
    UNION {{[k \in 1..Len(ids) |-> [id |-> ids[k], delta |-> d[k], size |-> s[k]]] :
               d \in [1..Len(ids) -> BOOLEAN], s \in [1..Len(ids) -> Sizes]} :
           ids \in SetToAllKPermutations(PartNames) \ {<<>>}}

\* The origins given with input ps: an older archive holding, in any order,
\* the parts ORIGIN says, each with its own bytes and the size of the part
\* of the same id.
OriginsFor(ps) ==
    LET ids == {ps[k].id : k \in 1..Len(ps)}
        need == {ps[k].id : k \in {j \in 1..Len(ps) : ps[j].delta}}
        sizeOf(id) == ps[CHOOSE k \in 1..Len(ps) : ps[k].id = id].size
        orders == UNION {SetToSeqs(S) : S \in {S \in SUBSET ids :
                         \/ "complete" \in ORIGIN /\ S = ids
                         \/ "any" \in ORIGIN /\ need \subseteq S}}
    IN {Archive([k \in 1..Len(o) |-> [id |-> o[k], delta |-> FALSE, size |-> sizeOf(o[k])]]) :
           o \in orders}
       \cup (IF "none" \in ORIGIN THEN {<<>>} ELSE {})

InHdr == in[1].hd[1]
Parts == InHdr.parts

\* bpak_part_size: the on-disk byte count.
PartSize(p) == IF "transport" \in p.flags THEN p.tsize ELSE p.size

\* Mutant: the size of the parts without the header in front of them.
PkgSizeNoHeader(h) == FoldLeft(LAMBDA acc, p : acc + PartSize(p), 0, h.parts)

\* bpak_pkg_size: sizeof(struct bpak_header) plus every part's on-disk
\* byte count (transport_size for a TRANSPORT part, size otherwise).
PkgSize(h) == HeaderSize + FoldLeft(LAMBDA acc, p : acc + PartSize(p), 0, h.parts)

\* bpak_get_part on the origin header: the part with that id, if any.
OriginParts(id) == {p \in Range(org[1].hd[1].parts) : p.id = id}

(***************************************************************************)
(* The I/O callbacks the decoder calls.                                   *)
(***************************************************************************)

\* Mutant: the decoder's output offsets taken as file offsets.
DecodeWriteOutputNoBase(f, offset, cells) ==
    Apply(f, [k \in 1..Len(cells) |-> <<offset + k - 1, Data(cells[k])>>])

\* decode_write_output: seek to output_offset + offset, write.
DecodeWriteOutput(f, offset, cells) ==
    Apply(f, [k \in 1..Len(cells) |-> <<outOff + offset + k - 1, Data(cells[k])>>])

\* decode_read_origin: seek to origin_offset + offset, read.
DecodeReadOrigin(offset, n) == [k \in 1..n |-> CellVal(org, orgOff + offset + k - 1)]

\* decode_write_output_header: a 4096-byte image, written at offset 0.
DecodeWriteOutputHeader(f, h) == Apply(f, [k \in 1..HeaderSize |-> <<k - 1, HeaderCell(h, k)>>])

(***************************************************************************)
(* The transport decoder (transport.c, spec_modelled): start(part) resets  *)
(* it, write_chunk passes a plain part's bytes straight to write_output    *)
(* and accumulates a delta, finish rebuilds a delta part from the origin   *)
(* through read_origin; a delta that is not the encoder's output either    *)
(* fails or yields garbage ("x").  After the last part's finish it writes  *)
(* the output header: the input's, TRANSPORT cleared, transport_size 0.    *)
(***************************************************************************)
DecInit == [st |-> "none", delta |-> FALSE, size |-> 0, pos |-> 0, bad |-> FALSE]

DecoderStart(p) ==
    [st |-> "running", delta |-> "transport" \in p.flags, size |-> p.size, pos |-> 0,
     bad |-> FALSE]

OutHeader == [parts |-> [k \in DOMAIN Parts |-> [Parts[k] EXCEPT !.flags = {}, !.tsize = 0]]]

\* The output file and decoder after write_chunk(cells).
DecoderWriteChunk(cells) ==
    [f |-> IF dec.delta THEN out ELSE DecodeWriteOutput(out, dec.pos, cells),
     d |-> [dec EXCEPT !.pos = @ + Len(cells),
                       !.bad = @ \/ (dec.delta /\ \E k \in 1..Len(cells) : cells[k] # "z")]]

\* The outcomes of finish(): whether it returned BPAK_OK, and the output.
DecoderFinish ==
    IF ~dec.delta THEN {[ok |-> TRUE, f |-> out]}
    ELSE IF ~dec.bad
         THEN {[ok |-> TRUE, f |-> DecodeWriteOutput(out, 0, DecodeReadOrigin(0, dec.size))]}
         ELSE {[ok |-> FALSE, f |-> out],
               [ok |-> TRUE, f |-> DecodeWriteOutput(out, 0, [k \in 1..dec.size |-> "x"])]}

(***************************************************************************)
(* The driver, bpak_pkg_transport_decode.                                  *)
(***************************************************************************)

\* bpak_io_seek(input->io, sizeof(struct bpak_header), SEEK_SET)
InputStart == HeaderSize

\* Mutant: a read that reaches the end of the file counted as short.
ReadShortAtEOF(pos, n) == pos + n >= Len(in)

\* bpak_io_read(input->io, chunk_buffer, n) at pos returns fewer than n bytes.
ReadShort(pos, n) == pos + n > Len(in)

\* BPAK_MIN(bytes_to_process, sizeof(chunk_buffer))
ChunkLength(n) == Min({n, CHUNK})

\* decode_private set up, bpak_transport_decode_init, set_origin when an
\* origin is given, the input seeked past its header.
DecodeSetup ==
    /\ pc = "init"
    /\ pc' = "part"
    /\ dec' = [dec EXCEPT !.st = "ready"]
    /\ rd' = InputStart
    /\ UNCHANGED <<in, org, out, i, left, outOff, orgOff, rc>>

\* bpak_foreach_part ends: every part decoded.
LoopDone ==
    /\ pc = "part"
    /\ i > Len(Parts)
    /\ pc' = "free"
    /\ UNCHANGED <<in, org, out, i, rd, left, outOff, orgOff, dec, rc>>

\* `if (origin->io != NULL)` with origin == NULL: the process dies.
OriginNull ==
    /\ pc = "part"
    /\ i <= Len(Parts)
    /\ org = <<>>
    /\ pc' = "segv"
    /\ UNCHANGED <<in, org, out, i, rd, left, outOff, orgOff, dec, rc>>

\* bpak_get_part finds no part of that id in the origin.
OriginMissing ==
    /\ pc = "part"
    /\ i <= Len(Parts)
    /\ org # <<>>
    /\ OriginParts(Parts[i].id) = {}
    /\ rc' = "PART_NOT_FOUND"
    /\ pc' = "free"
    /\ UNCHANGED <<in, org, out, i, rd, left, outOff, orgOff, dec>>

\* The origin and output offsets of the part, decode_start.
StartPart ==
    /\ pc = "part"
    /\ i <= Len(Parts)
    /\ org # <<>>
    /\ OriginParts(Parts[i].id) # {}
    /\ orgOff' = (CHOOSE q \in OriginParts(Parts[i].id) : TRUE).offset
    /\ outOff' = Parts[i].offset
    /\ dec' = DecoderStart(Parts[i])
    /\ left' = PartSize(Parts[i])
    /\ pc' = "chunk"
    /\ UNCHANGED <<in, org, out, i, rd, rc>>

\* bpak_io_read returns less than chunk_length: return -BPAK_READ_ERROR.
ShortRead ==
    /\ pc = "chunk"
    /\ left > 0
    /\ ReadShort(rd, ChunkLength(left))
    /\ rc' = "READ_ERROR"
    /\ pc' = "exit"
    /\ UNCHANGED <<in, org, out, i, rd, left, outOff, orgOff, dec>>

\* A chunk read from the input stream and fed to write_chunk.
FeedChunk ==
    /\ pc = "chunk"
    /\ left > 0
    /\ LET n == ChunkLength(left)
           w == DecoderWriteChunk([k \in 1..n |-> CellVal(in, rd + k - 1)])
       IN /\ ~ReadShort(rd, n)
          /\ out' = w.f
          /\ dec' = w.d
          /\ rd' = rd + n
          /\ left' = left - n
    /\ UNCHANGED <<in, org, pc, i, outOff, orgOff, rc>>

\* decode_finish returns BPAK_OK: on to the next part.
FinishPart ==
    /\ pc = "chunk"
    /\ left = 0
    /\ \E r \in DecoderFinish :
          /\ r.ok
          /\ out' = IF i = Len(Parts) THEN DecodeWriteOutputHeader(r.f, OutHeader) ELSE r.f
    /\ dec' = [dec EXCEPT !.st = "done"]
    /\ i' = i + 1
    /\ pc' = "part"
    /\ UNCHANGED <<in, org, rd, left, outOff, orgOff, rc>>

\* Mutant: the error of finish lost on the way to err_out.
FinishRcLost == "OK"

\* The rc err_out returns after decode_finish fails.
FinishRc == "DECODE_ERROR"

\* decode_finish fails: goto err_out.
FinishError ==
    /\ pc = "chunk"
    /\ left = 0
    /\ \E r \in DecoderFinish : ~r.ok
    /\ rc' = FinishRc
    /\ pc' = "free"
    /\ UNCHANGED <<in, org, out, i, rd, left, outOff, orgOff, dec>>

\* err_out: bpak_transport_decode_free, return rc.
Free ==
    /\ pc = "free"
    /\ dec' = [dec EXCEPT !.st = "freed"]
    /\ pc' = "exit"
    /\ UNCHANGED <<in, org, out, i, rd, left, outOff, orgOff, rc>>

Init ==
    /\ \E ps \in InputSpecs :
          /\ \E n \in IF TRUNCATE THEN HeaderSize..Len(Archive(ps)) ELSE {Len(Archive(ps))} :
                in = SubSeq(Archive(ps), 1, n)
          /\ org \in OriginsFor(ps)
    /\ out = <<>>
    /\ pc = "init"
    /\ i = 1
    /\ rd = 0
    /\ left = 0
    /\ outOff = 0
    /\ orgOff = 0
    /\ dec = DecInit
    /\ rc = "OK"

Next ==
    \/ DecodeSetup
    \/ LoopDone \/ OriginNull \/ OriginMissing \/ StartPart
    \/ ShortRead \/ FeedChunk
    \/ FinishPart \/ FinishError
    \/ Free

\* The driver is one sequential call that blocks only on I/O: each enabled
\* step is eventually taken.
Spec == Init /\ [][Next]_vars /\ WF_vars(Next)

(***************************************************************************)
(* Properties.                                                             *)
(***************************************************************************)

TypeOK ==
    /\ \A k \in DOMAIN Parts : Parts[k].pad \in 0..ALIGN - 1
    /\ \A k \in 1..Len(out) : out[k].v \in Vals
    /\ pc \in {"init", "part", "chunk", "free", "exit", "segv"}
    /\ i \in 1..Len(Parts) + 1
    /\ left \in Nat /\ rd \in Nat
    /\ dec \in [st : {"none", "ready", "running", "done", "freed"}, delta : BOOLEAN,
                size : Nat, pos : Nat, bad : BOOLEAN]
    /\ rc \in {"OK", "PART_NOT_FOUND", "READ_ERROR", "DECODE_ERROR"}

\* Transport idempotence (spec 8.6): when bpak_pkg_transport_decode returns
\* BPAK_OK, the output holds a valid header listing the input's parts with
\* TRANSPORT cleared, and every part's bytes at the offset that header
\* gives, whatever the input and origin layouts.
RoundTrip ==
    pc = "exit" /\ rc = "OK" =>
        /\ ReadHeader(out, 0) = <<OutHeader>>
        /\ \A k \in DOMAIN Parts : \A j \in 0..Parts[k].size - 1 :
              CellVal(out, Parts[k].offset + j) = Parts[k].id

\* Every part size is a multiple of the alignment: no input part is
\* followed by padding.
Aligned == \A k \in DOMAIN Parts : Parts[k].size % ALIGN = 0

\* The round trip on inputs without padding between parts: the layouts
\* the stream-position reads of bpak_pkg_transport_decode agree with.
AlignedRoundTrip == Aligned => RoundTrip

\* No error is masked: bpak_pkg_transport_decode returns BPAK_OK only when
\* every part went through start, all its chunks and finish, and the output
\* header was written; a short read, a part missing from the origin or a
\* failing decoder never ends in BPAK_OK (rc is reused across the loop and
\* err_out, as the rc of bpak_pkg_open is before skip_header).
NoMaskedError ==
    pc = "exit" /\ rc = "OK" =>
        /\ i = Len(Parts) + 1
        /\ ReadHeader(out, 0) = <<OutHeader>>

\* The input is whole, and an origin holding the same-id part is given
\* for every delta part (none is needed when there is no delta part).
Intact == Len(in) = Parts[Len(Parts)].offset + Parts[Len(Parts)].size + Parts[Len(Parts)].pad
OriginServes ==
    \A k \in DOMAIN Parts :
        "transport" \in Parts[k].flags => org # <<>> /\ OriginParts(Parts[k].id) # {}

\* A decode of a whole input whose deltas the origin can serve eventually
\* returns BPAK_OK: the driver neither crashes, nor loops, nor reads the
\* wrong bytes into a decoder, nor rejects a part that needs no origin.
IntactDecodes == Intact /\ OriginServes => <>(pc = "exit" /\ rc = "OK")

\* An origin archive is given and holds every part of the input.
OriginComplete == org # <<>> /\ \A k \in DOMAIN Parts : OriginParts(Parts[k].id) # {}

\* An input without padding between parts, of at least bpak_pkg_size
\* bytes, with an origin that holds every part, eventually decodes with
\* BPAK_OK: a download cut at the size bpak_pkg_size reports is never too
\* short for the chunk loop, and a delta is rebuilt from the origin.
PkgSizeSuffices == Len(in) >= PkgSize(InHdr) /\ Aligned /\ OriginComplete => <>(pc = "exit" /\ rc = "OK")

=============================================================================
