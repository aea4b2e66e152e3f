# TLA+ models of BPAK

BPAK packs firmware images into an archive: a 4096-byte header (part table,
meta table, payload hash, signature) followed by 4096-aligned parts, or the
same parts followed by the header. The code under `src/` is the package
layer of the library and the tool:

| file | what it holds |
|------|---------------|
| `src/lib/pkg.c` | `bpak_pkg_open` (find the header at the front or 4096 bytes from the end), `bpak_pkg_write_header`, `bpak_pkg_sign`, the payload and header digests, package sizes, the transport-decode driver with its four I/O callbacks, the transport-encode wrapper |
| `src/lib/pkg_create.c` | `bpak_pkg_add_file`, `bpak_pkg_add_key`, `bpak_pkg_add_file_with_merkle_tree` |
| `src/unnamed/part_001` | an older `pkg.c` over `FILE*` (same control flow, `fseek` instead of `bpak_io_seek`, payload hash delegated to `verify.c`) |
| `src/test/test_signec521.sh`, `src/unnamed/part_000` | create / add meta / set / sign / verify scenarios |

The header tables (`bpak.c`), the ID hash (`crc.c`), the merkle builder
(`merkle.c`), the transport codecs (`transport.c`), `bpak_io` and the CLI are
not under `src/`; where the model needs them they are taken from `spec.md` and
marked `spec_modelled` in `PROJECT.json`.

## Inventory

**Components and their state.**

* *Package facade* (pkg.c): an open package is `{io, header image in memory,
  header_location ∈ {FIRST, LAST}}`. Operations: open (read 4096 bytes at 0,
  validate; otherwise seek 4096 from `SEEK_END` and try again; return BPAK_OK
  in every case once the file is open), write_header (seek to 0 or 4096 from
  the end, write the image), sign (store signature bytes, write header),
  close.
* *Part creation* (pkg_create.c): add_file / add_key compute
  `new_offset = 4096 + Σ(size + pad)`, add the part to the in-memory table,
  write the body and zero padding, recompute the payload hash, write the
  header. add_file_with_merkle_tree runs add_file (a complete commit), builds
  the tree in memory, adds two meta entries and a `<name>-hash-tree` part,
  writes the tree, recomputes the payload hash, writes the header.
* *Digests* (pkg.c): the payload hash seeks past the header (or to 0) and
  reads each part's `bpak_part_size` bytes from the current stream position,
  skipping excluded parts by seeking forward; the header hash zeroes the
  signature, hashes the 4096-byte image, restores the signature.
* *Transport decode driver* (pkg.c): per part, look up the same part in the
  origin, start the decoder, feed `bpak_part_size` bytes of input in 4 KiB
  chunks, finish; the decoder writes through `decode_write_output`,
  `decode_read_output`, `decode_write_output_header`, `decode_read_origin`.
* *Merkle tree* (pkg_create.c around merkle.c): stat the input, add_file,
  allocate and zero a tree buffer of `bpak_merkle_compute_size` bytes, init
  the builder with the `merkle_wr`/`merkle_rd` callbacks over that buffer,
  fopen the input a second time and feed it in 4 KiB freads, call process
  with no data until the builder is done, take the root.
* *Package sizes* (pkg.c): `bpak_pkg_installed_size` is Σ(size + pad),
  `bpak_pkg_size` is the header plus every part's on-disk byte count.
* *Signer/verifier, header tables, merkle builder internals, codecs*: outside
  `src/`.

**Interaction.** Everything is single-threaded and synchronous; the tool runs
one command per process, and commands communicate only through the archive
file. What is hard is therefore not interleaving but *failure and ordering
over the file*: every command is a sequence of seeks and writes that a short
write, an I/O error or a killed process can stop at any point, the header must
be the last thing written, the digests must read exactly the bytes the layout
code wrote, and the two header locations must be handled alike.

**What makes each component correct.**

* Facade/creation: every part listed by the header on disk lies at its
  aligned offset, after the previous part and its padding, with its own bytes
  and zero padding (`PartsIntact`; checked as `FrontPartsIntact` on
  front-header archives, since tail-header archives break it); open fails
  with INVALID_HEADER when no valid header exists (`OpenRejectsTornArchive`).
* Digests/sign: after sign, verify accepts (`SignThenVerify`); on a
  front-header archive, a step that leaves the header's bytes as they were
  never breaks a valid signature (`AbortKeepsSignature`); verify rejects any change to a hashed part
  (`TamperDetected`).
* Merkle: meta entries are on disk only together with their parts
  (`MerkleMetaConsistent`); the tree buffer is never written or read out of
  bounds (`TreeInBounds`); the stored tree and root are those of the
  data part (`TreeOfPart`), and a change of the input's size is always
  caught (`TreeOfPartUnlessRewritten`); the build returns (`MerkleReturns`).
* Sizes: an input of pkg_size bytes is enough for decode
  (`PkgSizeSuffices`). installed_size is the same sum of sizes and padding
  as add_file's `new_offset`, so a property relating the two would be an
  identity; none is stated.
* Copy: add_file goes on to the padding only after copying exactly the
  size stat gave (`CopyCommitsPartSize`).
* Transport decode: each part reconstituted at its header offset
  (`RoundTrip`); a whole input whose deltas the origin serves decodes
  (`IntactDecodes`); no error reaches the caller as success
  (`NoMaskedError`).
* The commands as a whole: every command appends fresh parts in one header
  write, signs, changes nothing, or leaves no valid header (`ImplementsArchive`,
  the refinement of `BpakArchive`).

The hazards are listed one by one, at their lines, in `PROJECT.json`.

## Plan

1. `BpakPackage` (done): the archive file, open/locate, add_file, add_key,
   add_file_with_merkle_tree, sign, verify, create, with every write
   sequence cut at every point. Most important: it is the path every archive
   takes and where the digests meet the layout.
2. `BpakFile` (done): the file layer shared by the package and decode models.
3. `TransportDecode` (done): `bpak_pkg_transport_decode` step by step over an
   input, an output and an optional origin archive, with the decoder's
   start / write_chunk / finish / free (spec 4.7) driving the callbacks.
4. `BpakArchive` (done): the archive-level contract, and `BpakPackage` shown
   to implement it.
5. `MerkleTree` (done): the tree-building half of
   add_file_with_merkle_tree from the code, the streaming builder
   (`merkle.c`, outside `src/`) from spec 4.6, checked against a RECURSIVE
   reference tree.
6. `AddFileCopy` (done): the copy loop of add_file step by step, with an
   input file that another process may grow or shrink and whose reads may
   fail; liveness: add_file returns.
7. Package sizes (done): `InstalledSize` in `BpakPackage` (translated, not
   checked: it is add_file's `Footprint`); `PkgSize` in `TransportDecode`, checked
   against what the decode reads.
8. `HeaderDigest` (done): the header hash's error returns.

## Module `BpakFile`

The file layer: a file is a sequence of cells, `WriteCell`/`Apply` are
`bpak_io_write` after a seek (a write past the end fills the hole with
zeros), `CellVal` is a read (past the end the buffer keeps its old value,
`"u"`), `ReadHeader` is `fread` + `bpak_valid_header`, `PadFor` the padding
computation of add_file. Both other implementation modules extend it.

## Module `BpakPackage`

State: `file` (the archive's cells), `last` (the command last run and whether
the tool exited with 0), `signed` (a ghost copy of the file at the last
successful sign, kept only when tampering is modelled).

Abstraction. A cell stands for 4096/ALIGN bytes; with `ALIGN = 2` the header
and the alignment are two cells, a 1-cell file gets one cell of padding and a
2-cell file none, so both branches of the padding computation happen. A data
cell holds the id of the part it belongs to (so a misplaced write is visible),
`"0"` for padding and holes, `"x"` for a flipped byte; a header cell holds the
whole header record and its index, and a header is read back only from a full,
consistent run of cells. That is stricter than `bpak_valid_header`, which
checks magic, version and kinds and has no checksum: a torn image whose
first bytes are intact may pass it in the code, and the model never lets one
pass, so an open that accepts a torn header is not reached. Digests are
the sequence of values fed, signatures `[key, digest]`: collision-free hashing
and ideal signatures, so every verification failure the model shows is the
code's.

Actions, one per tool command (open + library call + close):

| action | code |
|--------|------|
| `AddFile(id, sz, flags)` | `bpak_pkg_add_file`, pkg_create.c 215–305 |
| `AddKey(id)` | `bpak_pkg_add_key`, pkg_create.c 307–395 |
| `AddFileWithMerkleTree(id, sz, flags)` | pkg_create.c 61–213 (add_file, then meta, tree part, tree bytes, hash, header) |
| `Sign` | `bpak sign`: `bpak_pkg_compute_header_hash(.., true)`, external signer, `bpak_pkg_sign` + `bpak_pkg_write_header` |
| `Create` | `bpak create` (spec): truncate, write an empty header |

`Tamper(pos)`, an attacker flipping a data byte of a verifying archive, is
not a program step: it is composed with the commands only in `TamperSpec`
(`TamperNext == Next \/ Tamper`), which the `tamper` run checks.
`InstalledSize` is `bpak_pkg_installed_size` (pkg.c 262–272). `OpenRc` is
open's return code (pkg.c 39–88): every path of the header search reaches
`skip_header`, where the rewinding seek overwrites rc with BPAK_OK.

Each command computes its full list of cell writes in code order
(`AppendPart`, `AddMerkleTree`, `HeaderWrites`) and `Perform` applies any
prefix of it: that one rule covers short writes, failing seeks and a killed
process at every point. Early returns (`EXISTS`, `NO_SPACE` from the tables,
a full meta table) write nothing. `Locate` is `bpak_pkg_open`;
`ComputePayloadHash`/`Feed` is `bpak_pkg_compute_payload_hash` including its
back-to-back reads; `VerifyOK` is `bpak verify` (spec 4.5). Commands run only
on a file where open found a valid header (what the CLI does with the invalid
header open returns is outside `src/`).

`SEEK_END_FORWARD` selects what `bpak_io_seek(io, 4096, BPAK_IO_SEEK_END)`
does (its code is outside `src/`): `FALSE` is "4096 bytes before the end",
`TRUE` is C `fseek` semantics as in `part_001`, where the offset lands past
the end and a tail header is never found. Every run takes `FALSE`; no run
checks the forward reading.

## Module `TransportDecode`

State: the three files (`in`, `org` — `<<>>` for a NULL origin — and `out`)
and the locals of `bpak_pkg_transport_decode`: `pc`, the part index `i`,
the input position `rd`, `left` (`bytes_to_process`), `outOff` and `orgOff`
(`decode_private`), the decoder context `dec`, `rc`.

| action | code (pkg.c) |
|--------|--------------|
| `DecodeSetup` | 406–467: decode_private, decode_init, set_origin, input seek past the header |
| `LoopDone` | 469–472: the part loop ends |
| `OriginNull` | 474: `origin->io` with `origin == NULL` (the process dies, `pc = "segv"`) |
| `OriginMissing` | 475–481: `bpak_get_part` on the origin fails, `goto err_out` |
| `StartPart` | 474–497: origin and output offsets, decode_start |
| `ShortRead` | 499–506: `bytes_read != chunk_length`, `return -BPAK_READ_ERROR` |
| `FeedChunk` | 499–518: read a chunk, decode_write_chunk |
| `FinishPart` / `FinishError` | 519–527: decode_finish |
| `Free` | 529–531: err_out, decode_free, return |

The callbacks are `DecodeWriteOutput`, `DecodeReadOrigin` and
`DecodeWriteOutputHeader` (342–404). The decoder itself (transport.c) is
taken from spec 4.7: a part without the TRANSPORT flag is copied through
write_output, a delta part (cells `"z"`) is rebuilt at finish from the
same-id origin part through read_origin, and a delta fed anything else
either fails or yields garbage; after the last part it writes the output
header (TRANSPORT cleared). The input is what the encoder produces (parts at
aligned offsets behind a front header), possibly cut short; the origin holds
some of the input's parts in any order. Encodings that change a part's
on-disk size are left out: where the encoder puts shrunk parts and at which
offsets the decoder writes them is in transport.c and not fixed by the spec.

Fairness: `WF_vars(Next)`. The decode is one sequential C call that blocks
only on I/O, so a step that stays enabled is taken; the call stops when it
returns (`pc = "exit"`) or the process dies (`pc = "segv"`), which is why the
decode cfgs turn the deadlock check off.

## Module `MerkleTree`

The tree half of `bpak_pkg_add_file_with_merkle_tree` (pkg_create.c 61–145)
and the merkle builder it drives. State: `file` (the input file), `part`
(the bytes add_file copied into the data part), `st` (the first stat), the
tree buffer `tree`, the builder context `ctx`, `oob` (a callback touched
memory outside the buffer), the read position `rpos`, `hash`, `rc`, `pc`,
and the ghost `touched` (`"none"`, or how the input was changed:
`"modify"`, `"resize"`).

| action | code (pkg_create.c) |
|--------|---------------------|
| `Stat` | 73–76 |
| `AddFile` | 78–81: the input as it is now becomes the part, or the error returns |
| `Alloc` | 83–109: `merkle_sz`, malloc + memset (`TreeAlloc`), salt, `bpak_merkle_init` (`BuilderInit`), fopen |
| `ReadChunk` / `ReadEnd` | 116–131: fread, `bpak_merkle_process`, break on 0 or on an error |
| `FlushStep` | 130–141: one pass of `while (!bpak_merkle_done) process(NULL, 0)` |
| `Out` | 143–145: `bpak_merkle_out` |

`MerkleWr`/`MerkleRd` are the callbacks (27–45): a memcpy at any offset,
with `oob` recording one outside the buffer. The builder (`Process`,
`Flush`, `Emit`, `LevelOffset`, `TreeSize`…) follows spec 4.6: leaves
first, levels end to end, each level padded to whole blocks, a full group of
K hashes hashed into the level above, partial groups and the last data block
zero-padded at the end. `RefTree` is an independent RECURSIVE definition of
the same tree (group, hash, repeat until one hash is left). A hash is
`<<SALT, block>>`. With K = 2 a block holds two hashes (the code's 128) and
two cells of data; payloads of 1..6 cells (1 to 3 blocks) give trees of one or two levels,
partial groups at every level and a padded last block.

The environment changes the input at most once: it rewrites one byte after
add_file's copy (`Modify`; before the copy that is just another input), or
appends a byte or drops the last one at any point after the first stat
(`Resize`), so that `merkle_sz`, the part add_file copies and the second
read can disagree in size. Fairness: `WF_vars(Driver)`, the call's own steps
(one thread, blocking only on I/O); the environment is not bound to act. The cfgs
turn the deadlock check off because the call returns (`pc = "done"`).

## Module `AddFileCopy`

The copy loop of `bpak_pkg_add_file` (pkg_create.c 264–304): `Stat`
(stat, part entry, seek, fopen), `CopyChunk` (one fread + fwrite pass, which
changes nothing when fread returns 0), `CopyWriteError`, `CopyDone`,
`PadWrite`, `Commit` (payload hash and header, modelled in `BpakPackage`).
The environment may `Grow` or `Shrink` the input, or make its reads fail
(`ReadFails`). `bytes_to_write` is a `uint64_t` and is kept modulo `2^W`.
Sizes are in 256-byte units (the 512-byte chunk is 2 units); the alignment
is shrunk to 4 units, which keeps aligned and unaligned sizes.

Fairness: `WF_vars(Tool)`, weak fairness of the add_file steps only. The
tool is one thread that blocks only on I/O. The environment is not bound to
act. A loop pass that changes nothing is a stutter, so a spinning loop shows
as a behaviour that never reaches `pc = "done"`.

Properties: `CopyCommitsPartSize` says that when the loop ends and add_file
goes on to the padding, exactly `st` bytes were written, whether the input
grew (a full buffer read where less was left), shrank or failed meanwhile:
`bytes_to_write` reaches 0 only when exactly `st` bytes went out. With the
input grown, the count wraps and the loop spins (run `addfile_hang`); with
the real 64-bit width a wrap back to exactly 0 would need 2^64 more bytes,
and with W = 4 it would need 16, beyond `MaxLen`;
`UndisturbedReturns` says add_file returns in every behaviour where the
input keeps its length and its reads succeed; `AddFileReturns`, with no
premise, is what the `addfile_hang` run finds violated.

## Module `BpakArchive` and the refinement

`BpakArchive` is what the commands promise, with one variable `arch`: a part
list (id, size) and whether verify accepts the archive, or no archive
(`valid = FALSE`). Steps: `Create`, `Add` (fresh parts appended behind the
listed ones, unsealed), `Sign` (sealed), `Tear` (no valid header).
`BpakPackage` maps the file to it through `AbsArch` (the header
`bpak_pkg_open` finds and `VerifyOK`), and `ImplementsArchive ==
Abs!Spec` is checked as a property. `Tear` is there because the code does it:
a create or header write cut short leaves no valid header.

## Module `HeaderDigest`

`bpak_pkg_compute_header_hash` (pkg.c 112-181) alone, as one step. State:
the in-memory header `hdr` (hash kind, signature, signature size, stored
payload hash), the output digest `out`, the return code `rc`.
`ComputeHeaderHash(size, upd)` has the code's four outcomes: with
`update_payload_hash` and an unknown kind, NOT_SUPPORTED before anything is
touched; without it, the signature is zeroed (`Zeroed`) and the unknown kind
returns NOT_SUPPORTED; a known kind whose digest (`DigestLen`) exceeds the
buffer returns FAILED, still zeroed; otherwise the digest of the zeroed header
(`Digest`) is written and the signature restored. The payload hash
(`PayloadHash`) is abstracted to "fresh". Init: the three kinds and an
unknown one, signed or not; buffers of 32, 48 and 64 bytes, so every
kind meets a short and a long enough buffer. `SignatureKept` is an action
property: no step changes the signature or its size.

## Runs

| run | cfg | expect | what it shows |
|-----|-----|--------|---------------|
| package | `MC_BpakPackage.cfg` | pass | All commands on front- and tail-header archives (with `bpak_io_seek` seeking back from the end), cut short anywhere: `TypeOK`, `FrontPartsIntact`, `SignThenVerify`, `MerkleMetaConsistent`, `AbortKeepsSignature` (front-header archives; header bytes untouched keeps verify), `ImplementsArchive`. |
| header_hash_loss | `MC_HeaderHashLoss.cfg` | violation | `bpak_pkg_compute_header_hash` with a buffer shorter than the header's digest returns BPAK_FAILED with the signature zeroed in the header: `SignatureKept` fails. |
| tamper | `MC_Tamper.cfg` | violation | With a padded part before another part, a byte of the later part (here the merkle tree) can be flipped and verify still passes. |
| tail_add | `MC_TailAdd.cfg` | violation | add_file on a tail-header archive writes the part after the old header and the new header over the new part. |
| torn_header | `MC_Torn.cfg` | violation | `OpenRejectsTornArchive`: on the empty file a `bpak create` killed after truncating leaves, open returns BPAK_OK (`OpenRc`) instead of INVALID_HEADER. |
| decode | `MC_TransportDecode.cfg` | pass | One or two plain or delta parts, padded or aligned, no origin / a complete origin in any order / one lacking a part, inputs cut at every length: `TypeOK`, `NoMaskedError` (no failure ends in BPAK_OK), `AlignedRoundTrip` (on unpadded inputs, BPAK_OK means every part at its offset under a valid header), `PkgSizeSuffices` (an unpadded input of `bpak_pkg_size` bytes with a complete origin decodes). |
| decode_padded | `MC_DecodePadded.cfg` | violation | A padded part followed by another: decode returns BPAK_OK with the second part built from the padding of the first. |
| decode_origin | `MC_DecodeOrigin.cfg` | violation | Without an origin the decode crashes at the first part, deltas or not; an origin that lacks a plain (non-delta) part makes it fail. |
| merkle | `MC_MerkleTree.cfg` | pass | Payloads of 1..6 cells, the input rewritten in place, grown or shrunk once, or left alone: `TypeOK`, `TreeInBounds`, `TreeOfPartUnlessRewritten` (BPAK_OK means the tree and root equal `RefTree` of the part, unless a byte was rewritten in place), `MerkleReturns`. |
| merkle_race | `MC_MerkleRace.cfg` | violation | `TreeOfPart` without the premise: a rewrite between add_file's copy and the second read stores a tree and root of other bytes. |
| addfile_copy | `MC_AddFileCopy.cfg` | pass | Inputs of 0 to 9 units that may grow, shrink or start failing reads, short fwrites included: `TypeOK`, `CopyCommitsPartSize` (the loop hands over to the padding only after exactly the stat size was copied), `UndisturbedReturns` (returns while the input is left alone). |
| addfile_hang | `MC_AddFileHang.cfg` | violation | The input shrinks or grows, or its reads fail, after stat: fread returns 0 while `bytes_to_write` is not 0 and the loop spins forever. |

Bounds (`MC_BpakPackage.tla`): two part names (`a`, `b`), file sizes 1 and 2
cells, a 1-cell key, a 2-cell merkle tree, 3 part slots and 2 meta slots.
These are enough for: two parts one after another, with and without padding
(the tamper defect needs exactly that); a merkle add that succeeds (`a` + tree
fills the meta table) and one that fails after its add_file commit (meta full,
or the part table full); duplicate names (`EXISTS`); excluded parts before
hashed ones. The package run takes about two minutes because the
refinement mapping recomputes verify on every step; the others take seconds.

Bounds (`MC_TransportDecode.tla`): inputs of one or two parts (`a`, `b`, in
either order), each plain or a delta; sizes 1 and 2 cells (a 1-cell part is
padded) or, for the `decode_origin` run, 2 and 4 cells (a 4-cell part is two
4096-byte chunks); origins with the parts in any order, so origin and input offsets
differ; inputs cut at every length from the end of the header on.

Bounds (`MC_AddFileCopy.tla`): input sizes 0..9 units (empty, below, at
and above a chunk and the alignment) for the pass run, 1..3 for the hang
run; the input grows up to 10 units; `W = 4`, so a wrapped
count is visible as 14 or 15.

Bounds (`MC_MerkleTree.tla`): K = 2, payload bytes `a`/`b`, sizes 1..6
cells: 1 to 3 blocks, so one and two levels (three would need five
blocks, which makes the state space too large), a full and a partial
last block, and a level whose last group is partial.

Fairness: the package model assumes none; its properties are safety
properties, and the tool runs a command only when a user invokes it. The
decode model and the copy loop assume weak fairness of the code's own steps
(above).

## Findings

* The payload hash does not cover what the spec says (run `tamper`):
  `bpak_pkg_compute_payload_hash` reads each part's size from the stream
  position without seeking to the part's offset, so it hashes the padding of
  earlier parts and leaves the last bytes of later parts unhashed.
* Tail-header archives are corrupted by add (run `tail_add`): `new_offset`
  always starts at 4096.
* `bpak_pkg_compute_header_hash` loses the signature when it fails (run
  `header_hash_loss`): it zeroes the signature and its size in the header,
  then returns BPAK_NOT_SUPPORTED or BPAK_FAILED without restoring them,
  though the spec (4.4) has the signature restored. Nothing under `src/`
  calls it; a caller whose buffer is sized for a shorter digest, or whose
  header carries an unknown hash kind, is left with an unsigned header.
* `bpak_pkg_open` returns BPAK_OK when no valid header exists (run
  `torn_header`): rc is overwritten at `skip_header` (pkg.c 82–88); the spec
  (4.8) says INVALID_HEADER. The trace is a `bpak create` killed after
  truncating; spec 5 lets a killed process leave a torn archive, and it is
  open's INVALID_HEADER that would tell the caller so.
* Transport decode reads the input parts back to back from the end of the
  header (run `decode_padded`): after a part that is not a multiple of
  4096 bytes, the next part is decoded from padding.
* Transport decode dereferences `origin` when it is NULL, although the
  origin is optional, and with an origin it looks every part up there and
  fails on a part that needs none (run `decode_origin`, either trace).
* add_file hangs when the input is shorter than `stat` said or a read fails
  (run `addfile_hang`): fread returns 0 and nothing checks feof/ferror.
  When the input grew after `stat`, fread (which always asks for a full
  buffer) copies more than the part size, `bytes_to_write` wraps around,
  and the loop ends in the same spin at end of file.

* The merkle tree is built from a second read of the input file (run
  `merkle_race`): when the file changes after add_file copied it, the tree
  part and `merkle-root-hash` describe other bytes than the data part.

## Not modelled (yet)

* Whether the two early returns of `bpak_pkg_transport_decode` (failed
  input seek, short read) leak: they skip `bpak_transport_decode_free`,
  whose effect lies in `transport.c`. The model takes the returns as the
  code has them (no `Free` step on those paths).

* The merkle builder for an empty payload (the spec defines no tree for
  it), and the spec's level formula for a one-block payload (it gives 0
  levels; the model takes one). merkle.c is outside `src/`, so what the
  library does in those cases is not known here; the status callback only
  prints.
* The width of `pad_bytes`: the spec declares it u8 but also stores 4095 in
  it (S3); its C type is in `bpak.h`, outside `src/`, and the model keeps the
  full value.
* Transport encode: a one-line forward to `bpak_transport_encode`
  (outside `src/`). Its output layout is the decode model's input.
* `decode_read_output`: only delta codecs that read back their own output
  call it, and the delta of the model rebuilds parts from the origin alone.
* A failing input seek in the decode: `SEEK_SET` within an open regular file
  does not fail. The early return it shares with the short read is covered.
* The merkle salt comes from `random()` with no seeding (pkg_create.c 96),
  so every run of the tool uses the same salt; salt quality is not a
  question of states and steps. The model takes the salt as a constant.
* `bpak_pkg_sign` does not check that the signature fits the 512-byte slot;
  the signature length comes from the external signer, and the model's
  signatures are abstract.
* Byte formats, logging and the crypto primitives are left out on purpose.
