------------------------------ MODULE BpakPackage ------------------------------
(***************************************************************************)
(* The BPAK package facade (src/lib/pkg.c, src/lib/pkg_create.c) as the    *)
(* bpak tool drives it: every command opens the archive, locates its       *)
(* header, runs one library operation and closes the archive.             *)
(*                                                                         *)
(* The archive file is a sequence of cells; one cell stands for            *)
(* 4096 / ALIGN bytes, so the 4096-byte header and the 4096-byte part     *)
(* alignment are both ALIGN cells.  A data cell carries the id of the     *)
(* part whose bytes it holds ("0" for zero padding and holes, "x" for a   *)
(* byte flipped by an attacker); a header cell carries the header image   *)
(* it is a slice of.  Hashes are the sequence of cell values fed to them  *)
(* (a collision-free digest), signatures are <<key, signed digest>>.      *)
(*                                                                         *)
(* Every command computes the list of cell writes the code issues, in the *)
(* code's order, and the file afterwards holds any prefix of it: a short  *)
(* fwrite, a failing seek or a killed process stop the sequence at any   *)
(* point, and the tool exits with an error unless the whole list went     *)
(* out.                                                                    *)
(***************************************************************************)
EXTENDS BpakFile, FiniteSets

CONSTANTS
    PartNames,        \* part names given to the add commands
    FileSizes,        \* sizes, in cells, of the files added
    KeyLen,           \* length, in cells, of the DER key bpak_pkg_add_key embeds
    MerkleLen,        \* bpak_merkle_compute_size(size, -1, true), in cells
    N_PARTS,          \* capacity of the header's part table
    N_META,           \* capacity of the header's meta table
    SigningKey,       \* the key `bpak sign` uses and `bpak verify` checks
    SEEK_END_FORWARD, \* TRUE: bpak_io_seek(io, 4096, SEEK_END) lands at end+4096
    TAMPER,           \* TRUE: the environment may flip data bytes of the archive
    TAIL_INIT         \* TRUE: the archive starts with its header after the payload

ASSUME FileSizes \subseteq Nat \ {0} /\ KeyLen \in Nat \ {0}
ASSUME MerkleLen % ALIGN = 0
ASSUME SEEK_END_FORWARD \in BOOLEAN /\ TAMPER \in BOOLEAN /\ TAIL_INIT \in BOOLEAN

VARIABLES
    file,   \* the archive's bytes on disk
    last,   \* the command the tool ran last and whether it exited with 0
    signed  \* ghost, kept when TAMPER: the archive as the last successful
            \* `bpak sign` left it

vars == <<file, last, signed>>

\* bpak_id("<name>-hash-tree"), the companion part of a merkle tree
TreeId(name) == name \o "-hash-tree"

PartIds == PartNames \cup {TreeId(n) : n \in PartNames}
Vals == PartIds \cup {"0", "x", "h", "u"}
Flags == {{}, {"exclude"}}
Commands == {"create", "add_file", "add_key", "add_merkle", "sign"}

\* A digest over the fed cell values; the all-zero payload_hash is <<>>.
Hash(fed) == <<"H">> \o fed

EmptyHeader == [parts |-> <<>>, meta |-> <<>>, payload_hash |-> <<>>, sig |-> <<>>]

\* Where bpak_io_seek(io, 4096, BPAK_IO_SEEK_END) puts the stream.
EndOffset(f) == IF SEEK_END_FORWARD THEN Len(f) + HeaderSize ELSE Len(f) - HeaderSize

(***************************************************************************)
(* Header tables (bpak.c, not under src/: from the spec, section 4.3).     *)
(***************************************************************************)

PartIdsOf(h) == {h.parts[i].id : i \in 1..Len(h.parts)}

\* Mutant: bpak_add_part without the check for a live id.
AddPartResultNoExists(h, id) == IF Len(h.parts) = N_PARTS THEN "NO_SPACE" ELSE "OK"

\* bpak_add_part: EXISTS for a live id, NO_SPACE for a full table.
AddPartResult(h, id) ==
    IF id \in PartIdsOf(h) THEN "EXISTS"
    ELSE IF Len(h.parts) = N_PARTS THEN "NO_SPACE"
    ELSE "OK"

\* bpak_part_size: the on-disk byte count (no part is transport-encoded here)
PartSize(p) == p.size

(***************************************************************************)
(* bpak_pkg_open: the front header, else the one 4096 bytes from the end.  *)
(* Whatever it finds, it returns BPAK_OK; hdr = <<>> is a header that      *)
(* failed bpak_valid_header.                                               *)
(***************************************************************************)
Locate(f) ==
    IF ReadHeader(f, 0) # <<>> THEN [hdr |-> ReadHeader(f, 0), loc |-> "FIRST"]
    ELSE IF ReadHeader(f, EndOffset(f)) # <<>>
         THEN [hdr |-> ReadHeader(f, EndOffset(f)), loc |-> "LAST"]
         ELSE [hdr |-> <<>>, loc |-> "FIRST"]

(***************************************************************************)
(* bpak_pkg_open's return code once the file is open: the search for a    *)
(* header sets rc (FAILED on a short read, the verdict of                  *)
(* bpak_valid_header otherwise), but every path reaches skip_header, where *)
(* rc is overwritten by the rewinding bpak_io_seek, which succeeds.        *)
(***************************************************************************)
OpenRc(f) == "OK"

(***************************************************************************)
(* bpak_pkg_compute_payload_hash: seek past the header (or to 0), then for *)
(* each part either seek forward over it or read bpak_part_size bytes,    *)
(* from wherever the stream is.                                            *)
(***************************************************************************)
RECURSIVE Feed(_, _, _)
Feed(f, parts, pos) ==
    IF parts = <<>> THEN <<>>
    ELSE LET p == Head(parts)
             read == IF "exclude" \in p.flags THEN <<>>
                     ELSE [k \in 1..PartSize(p) |-> CellVal(f, pos + k - 1)]
         IN read \o Feed(f, Tail(parts), pos + PartSize(p))

\* Mutant: start hashing at offset 0 whatever the header location.
PayloadHashFromZero(f, h, loc) == Feed(f, h.parts, 0)

\* Mutant: hash every byte from past the header to the end of the file.
PayloadHashToEOF(f, h, loc) ==
    LET start == IF loc = "FIRST" THEN HeaderSize ELSE 0
    IN [k \in 1..(Len(f) - start) |-> CellVal(f, start + k - 1)]

ComputePayloadHash(f, h, loc) ==
    Feed(f, h.parts, IF loc = "FIRST" THEN HeaderSize ELSE 0)

\* Mutant: hash the header with its signature in place.
HeaderHashWithSig(h) == h

\* bpak_pkg_compute_header_hash: the header with signature and
\* signature_sz zeroed.
HeaderHash(h) == [h EXCEPT !.sig = <<>>]

\* bpak_pkg_write_header: seek to 0 or 4096 from the end, write the image.
HeaderWrites(f, loc, h) ==
    LET pos == IF loc = "FIRST" THEN 0 ELSE EndOffset(f)
    IN [k \in 1..HeaderSize |-> <<pos + k - 1, HeaderCell(h, k)>>]

(***************************************************************************)
(* bpak_pkg_add_file: new_offset is sizeof(header) plus every part's size *)
(* and padding; add the part, write the body and the zero padding, update *)
(* the payload hash, write the header.                                     *)
(***************************************************************************)
Footprint(parts) == FoldLeft(LAMBDA acc, p : acc + p.size + p.pad, 0, parts)

\* Mutant: sum the part sizes and forget the padding.
NewOffsetNoPad(h) == HeaderSize + FoldLeft(LAMBDA acc, p : acc + p.size, 0, h.parts)

NewOffset(h) == HeaderSize + Footprint(h.parts)

\* bpak_pkg_installed_size: the sum of every part's size and pad_bytes.
InstalledSize(h) == Footprint(h.parts)

AppendPart(f, loc, h, id, sz, flags) ==
    LET off == NewOffset(h)
        p == [id |-> id, size |-> sz, offset |-> off, pad |-> PadFor(sz), flags |-> flags]
        h1 == [h EXCEPT !.parts = Append(@, p)]
        body == DataWrites(off, id, sz) \o DataWrites(off + sz, "0", p.pad)
        f1 == Apply(f, body)
        h2 == [h1 EXCEPT !.payload_hash = Hash(ComputePayloadHash(f1, h1, loc))]
    IN [hdr |-> h2, w |-> body \o HeaderWrites(f1, loc, h2)]

\* The writes go out, over the file base, up to some point; the tool exits
\* with 0 only if all of them went out.
Perform(base, cmd, w, ok) ==
    \E j \in 0..Len(w) :
        /\ file' = Apply(base, SubSeq(w, 1, j))
        /\ last' = [cmd |-> cmd, ok |-> ok /\ j = Len(w)]
        /\ signed' = IF TAMPER /\ cmd = "sign" /\ last'.ok THEN file' ELSE signed

Fail(cmd) == file' = file /\ last' = [cmd |-> cmd, ok |-> FALSE] /\ UNCHANGED signed

Opened == Locate(file).hdr # <<>>
Hdr == Locate(file).hdr[1]
Loc == Locate(file).loc

(***************************************************************************)
(* The commands.                                                           *)
(***************************************************************************)

\* `bpak create` (the CLI, not under src/): truncate, write a fresh header.
Create == Perform(<<>>, "create", HeaderWrites(<<>>, "FIRST", EmptyHeader), TRUE)

AddFile(id, sz, flags) ==
    /\ Opened
    /\ IF AddPartResult(Hdr, id) # "OK" THEN Fail("add_file")
       ELSE Perform(file, "add_file", AppendPart(file, Loc, Hdr, id, sz, flags).w, TRUE)

\* bpak_pkg_add_key: the same as add_file with the DER key as body, flags 0.
AddKey(id) ==
    /\ Opened
    /\ IF AddPartResult(Hdr, id) # "OK" THEN Fail("add_key")
       ELSE Perform(file, "add_key", AppendPart(file, Loc, Hdr, id, KeyLen, {}).w, TRUE)

(***************************************************************************)
(* bpak_pkg_add_file_with_merkle_tree: add_file (which writes the header), *)
(* then, from a new_offset summed over the header add_file left, meta     *)
(* merkle-salt and merkle-root-hash for the part, the part                 *)
(* "<name>-hash-tree", the tree bytes, the payload hash and the header.   *)
(* A failing add_meta or add_part jumps to the exit without writing.      *)
(***************************************************************************)
\* Mutant: key the meta entries to the tree part instead of the data part.
MerkleMetaTreeRef(id) ==
    <<[id |-> "merkle-salt", ref |-> TreeId(id)], [id |-> "merkle-root-hash", ref |-> TreeId(id)]>>

MerkleMeta(id) ==
    <<[id |-> "merkle-salt", ref |-> id], [id |-> "merkle-root-hash", ref |-> id]>>

AddMerkleTree(f, loc, h, id, flags) ==
    LET off == NewOffset(h)
        tree == [id |-> TreeId(id), size |-> MerkleLen, offset |-> off, pad |-> 0,
                 flags |-> flags]
        h1 == [h EXCEPT !.meta = @ \o MerkleMeta(id), !.parts = Append(@, tree)]
        body == DataWrites(off, TreeId(id), MerkleLen)
        f1 == Apply(f, body)
        h2 == [h1 EXCEPT !.payload_hash = Hash(ComputePayloadHash(f1, h1, loc))]
    IN [ok |-> Len(h.meta) + 2 <= N_META /\ AddPartResult(h, TreeId(id)) = "OK",
        w |-> body \o HeaderWrites(f1, loc, h2)]

AddFileWithMerkleTree(id, sz, flags) ==
    /\ Opened
    /\ IF AddPartResult(Hdr, id) # "OK" THEN Fail("add_merkle")
       ELSE LET a == AppendPart(file, Loc, Hdr, id, sz, flags)
                t == AddMerkleTree(Apply(file, a.w), Loc, a.hdr, id, flags)
            IN IF t.ok THEN Perform(file, "add_merkle", a.w \o t.w, TRUE)
               ELSE Perform(file, "add_merkle", a.w, FALSE)

(***************************************************************************)
(* `bpak sign` (the CLI, not under src/) over the library:                 *)
(* bpak_pkg_compute_header_hash(pkg, .., true) refreshes payload_hash and *)
(* hashes the header with the signature zeroed, the external signer signs *)
(* that digest, bpak_pkg_sign stores the signature and writes the header. *)
(***************************************************************************)
Sign ==
    /\ Opened
    /\ LET h1 == [Hdr EXCEPT !.payload_hash = Hash(ComputePayloadHash(file, Hdr, Loc))]
           h2 == [h1 EXCEPT !.sig = <<[key |-> SigningKey, msg |-> HeaderHash(h1)]>>]
       IN Perform(file, "sign", HeaderWrites(file, Loc, h2), TRUE)

\* `bpak verify` (the CLI, not under src/): the recomputed payload hash
\* matches the stored one and the signature verifies over the header hash.
VerifyOK(f) ==
    LET r == Locate(f)
    IN /\ r.hdr # <<>>
       /\ Hash(ComputePayloadHash(f, r.hdr[1], r.loc)) = r.hdr[1].payload_hash
       /\ r.hdr[1].sig = <<[key |-> SigningKey, msg |-> HeaderHash(r.hdr[1])]>>

\* An attacker flips a payload byte of a signed archive that verifies.
Tamper(pos) ==
    /\ TAMPER
    /\ VerifyOK(file)
    /\ file[pos].hd = <<>>
    /\ file' = [file EXCEPT ![pos] = Data("x")]
    /\ UNCHANGED <<last, signed>>

(***************************************************************************)
(* A freshly created archive; with TAIL_INIT, one whose header follows a  *)
(* single padded part, as the flows that append the header produce.       *)
(***************************************************************************)
TailPart == [id |-> CHOOSE n \in PartNames : TRUE, size |-> 1, offset |-> 0,
             pad |-> PadFor(1), flags |-> {}]
TailBody == DataWrites(0, TailPart.id, 1) \o DataWrites(1, "0", TailPart.pad)
TailHeader == [EmptyHeader EXCEPT !.parts = <<TailPart>>,
                                  !.payload_hash = Hash(<<TailPart.id>>)]

Init ==
    /\ \/ file = HeaderCells(EmptyHeader)
       \/ TAIL_INIT /\ file = Apply(<<>>, TailBody) \o HeaderCells(TailHeader)
    /\ last = [cmd |-> "create", ok |-> TRUE]
    /\ signed = <<>>

Next ==
    \/ Create
    \/ \E id \in PartNames, sz \in FileSizes, fl \in Flags :
          AddFile(id, sz, fl) \/ AddFileWithMerkleTree(id, sz, fl)
    \/ \E id \in PartNames : AddKey(id)
    \/ Sign

Spec == Init /\ [][Next]_vars

\* The commands with an attacker who flips data bytes of the archive.
TamperNext == Next \/ \E pos \in 1..Len(file) : Tamper(pos)

TamperSpec == Init /\ [][TamperNext]_vars

(***************************************************************************)
(* Properties.                                                             *)
(***************************************************************************)

IsHeader(h) ==
    /\ h.parts \in Seq([id : PartIds, size : Nat, offset : Nat, pad : 0..ALIGN - 1,
                        flags : Flags])
    /\ Len(h.parts) <= N_PARTS
    /\ h.meta \in Seq([id : {"merkle-salt", "merkle-root-hash"}, ref : PartIds])
    /\ Len(h.meta) <= N_META
    /\ h.payload_hash \in Seq(Vals \cup {"H"})

TypeOK ==
    /\ \A i \in 1..Len(file) :
          /\ file[i].v \in Vals
          /\ file[i].hd = <<>> \/ (Len(file[i].hd) = 1 /\ IsHeader(file[i].hd[1]))
    /\ last \in [cmd : Commands, ok : BOOLEAN]
    /\ \A i \in 1..Len(signed) : signed[i].v \in Vals

\* add_file, add_key and the merkle tree lay parts out so that every part
\* the header on disk lists lies at its aligned offset, after the previous
\* part and its padding, with its own bytes and zero padding in place:
\* no committed, failed or killed command ever overwrites a listed part.
PartsIntact ==
    Opened =>
        \A i \in 1..Len(Hdr.parts) :
            LET p == Hdr.parts[i]
            IN /\ p.offset % ALIGN = 0
               /\ (p.size + p.pad) % ALIGN = 0
               /\ i > 1 => p.offset >= Hdr.parts[i - 1].offset + Hdr.parts[i - 1].size
                                                             + Hdr.parts[i - 1].pad
               /\ \A k \in 0..p.size - 1 : CellVal(file, p.offset + k) = p.id
               /\ \A k \in 0..p.pad - 1 : CellVal(file, p.offset + p.size + k) = "0"

\* The same on archives whose header is at the front; on an archive whose
\* header follows the payload the parts are not intact (run tail_add).
FrontPartsIntact == Loc = "FIRST" => PartsIntact

\* Once `bpak sign` exits with 0, `bpak verify` accepts the archive: the
\* payload hash sign stored is the one verify recomputes, and the digest
\* signed (signature zeroed) is the one verify checks.
SignThenVerify ==
    last = [cmd |-> "sign", ok |-> TRUE] => VerifyOK(file)

\* The front header's bytes are on disk after the step as before it.
FrontHeaderUntouched ==
    \A k \in 1..HeaderSize : k <= Len(file') /\ file'[k] = file[k]

\* On an archive whose header is at the front, a step that leaves the
\* header's bytes as they were (a failed or killed add, whose data writes
\* went out past the last part but whose header write did not) never turns
\* an archive that verifies into one that does not: the payload hash covers
\* no byte the add commands write past the last part.  On a tail-header
\* archive the same step moves the end of the file, so open no longer
\* finds the header (the new_offset defect of run tail_add).
AbortKeepsSignature ==
    [][VerifyOK(file) /\ Loc = "FIRST" /\ FrontHeaderUntouched => VerifyOK(file')]_vars

\* Every merkle-salt / merkle-root-hash meta entry of the header on disk
\* names a part that is present together with its "<name>-hash-tree"
\* part: a merkle command that fails half way (meta table full, tree part
\* rejected) never leaves its meta entries behind.
MerkleMetaConsistent ==
    Opened =>
        \A i \in 1..Len(Hdr.meta) :
            /\ Hdr.meta[i].ref \in PartIdsOf(Hdr)
            /\ TreeId(Hdr.meta[i].ref) \in PartIdsOf(Hdr)

\* Tamper detection (spec section 8.5): if `bpak verify` accepts the
\* archive, every byte of every part not flagged EXCLUDE_FROM_HASH is the
\* byte that was there when `bpak sign` signed it.
TamperDetected ==
    VerifyOK(file) =>
        \A i \in 1..Len(Hdr.parts) :
            LET p == Hdr.parts[i]
            IN "exclude" \notin p.flags =>
                 \A k \in 0..p.size - 1 :
                     CellVal(file, p.offset + k) = CellVal(signed, p.offset + k)

\* bpak_pkg_open fails with INVALID_HEADER when neither the front nor the
\* tail candidate is a valid header (spec section 4.8), as on a file that a
\* killed `bpak create` or a header write cut short left behind; the
\* callers rely on that to notice a torn archive (spec section 5).
OpenRejectsTornArchive == ~Opened => OpenRc(file) = "INVALID_HEADER"

(***************************************************************************)
(* Refinement of BpakArchive: the archive is the part list of the header   *)
(* bpak_pkg_open finds (id and size of each part) and whether `bpak        *)
(* verify` accepts the file; a file without a valid header is NoArchive.  *)
(***************************************************************************)
AbsArch ==
    IF Opened
    THEN [valid |-> TRUE,
          parts |-> [k \in DOMAIN Hdr.parts |-> [id |-> Hdr.parts[k].id,
                                                size |-> Hdr.parts[k].size]],
          sealed |-> VerifyOK(file)]
    ELSE [valid |-> FALSE, parts |-> <<>>, sealed |-> FALSE]

Abs == INSTANCE BpakArchive WITH arch <- AbsArch, Ids <- PartIds,
                                 Sizes <- FileSizes \cup {KeyLen, MerkleLen}

\* The package commands implement the archive-level contract: every step
\* of add_file, add_key, add_file_with_merkle_tree, sign and create, cut
\* short anywhere, either appends fresh parts behind the listed ones in a
\* single header write (and unseals), or seals, or leaves the part list
\* and the verify verdict as they were, or leaves no valid header at all;
\* no step removes, reorders, resizes or duplicates a listed part.
ImplementsArchive == Abs!Spec

=============================================================================
