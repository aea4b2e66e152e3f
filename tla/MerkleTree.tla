------------------------------ MODULE MerkleTree ------------------------------
(***************************************************************************)
(* The hash tree half of bpak_pkg_add_file_with_merkle_tree               *)
(* (src/lib/pkg_create.c): stat, add_file, the tree buffer sized by        *)
(* bpak_merkle_compute_size and zeroed, the fread loop feeding             *)
(* bpak_merkle_process, the `while (!bpak_merkle_done)` flush loop, and    *)
(* bpak_merkle_out; the merkle_wr / merkle_rd callbacks the builder writes *)
(* and reads the buffer through.  The builder itself (merkle.c, outside    *)
(* src/) is taken from the spec, section 4.6: leaves are the salted hashes *)
(* of the payload's blocks, levels lie end to end in the buffer, a full   *)
(* block of a level is hashed into the next level, and the final calls    *)
(* flush the partial blocks, zero-padded, and yield the root.             *)
(*                                                                         *)
(* A cell is 1/K of a 4096-byte block, the size of one hash: a block holds *)
(* K hashes (128 in the code).  A hash is the salted block it digests.    *)
(* Another process may rewrite bytes of the input file meanwhile; what    *)
(* add_file copies into the archive is the part (its copy loop is          *)
(* AddFileCopy), the meta and tree part writes after bpak_merkle_out are  *)
(* BpakPackage's AddFileWithMerkleTree.                                    *)
(***************************************************************************)
EXTENDS Naturals, Sequences, SequencesExt

CONSTANTS
    K,          \* hashes per block = cells per block
    Vals,       \* the byte values of the input file
    Sizes,      \* sizes, in cells, the input file may have
    SALT,       \* the salt drawn from random()
    ENV         \* "modify": another process may rewrite a byte of the input;
                \* "resize": it may append a byte to it or drop its last one

ASSUME K \in Nat \ {0, 1} /\ Sizes \subseteq Nat \ {0} /\ ENV \subseteq {"modify", "resize"}

VARIABLES
    file,       \* the input file's bytes now
    touched,    \* ghost: "none", or how the input was changed ("modify", "resize")
    pc,         \* where add_file_with_merkle_tree is
    st,         \* statbuf.st_size of the stat at the top
    part,       \* the data part add_file wrote into the archive
    tree,       \* merkle_buf
    ctx,        \* the builder context
    oob,        \* a merkle_wr or merkle_rd left merkle_buf (ghost)
    rpos,       \* the position of fp
    hash,       \* the root bpak_merkle_out copies out
    rc          \* rc

vars == <<file, touched, pc, st, part, tree, ctx, oob, rpos, hash, rc>>

CeilDiv(a, b) == (a + b - 1) \div b

(***************************************************************************)
(* The tree layout (merkle.c, spec_modelled).                              *)
(***************************************************************************)

\* A block: salt prepended, then the block.
Hash(blk) == <<SALT, blk>>

\* A zero byte of the payload, and zero bytes in place of a hash.
ZeroByte == "0"
ZeroHash == <<>>

\* A partial block, zero-padded.
PadBlk(b, z) == b \o [k \in 1..K - Len(b) |-> z]

NBlocks(n) == CeilDiv(n, K)

\* Hashes at level l; level 0 holds one per payload block.
LevelHashes(l, n) == CeilDiv(NBlocks(n), K ^ l)

\* The number of levels, ceil(log_K(blocks)), and at least the leaf level.
NLevels(n) == CHOOSE m \in 1..NBlocks(n) : K ^ m >= NBlocks(n) /\ (m = 1 \/ K ^ (m - 1) < NBlocks(n))

\* Mutant: a level's partial block not counted.
LevelCellsFloor(l, n) == (LevelHashes(l, n) \div K) * K

\* A level occupies whole blocks.
LevelCells(l, n) == CeilDiv(LevelHashes(l, n), K) * K

LevelOffset(l, n) == FoldLeft(LAMBDA a, j : a + LevelCells(j, n), 0, [j \in 1..l |-> j - 1])

\* bpak_merkle_compute_size(size, -1, true): every level.
TreeSize(n) == LevelOffset(NLevels(n), n)

(***************************************************************************)
(* The buffer callbacks and the builder.  A builder state s is the buffer *)
(* s.t, the context s.c and whether an access left the buffer, s.oob.     *)
(***************************************************************************)

\* merkle_wr: memcpy(&data[offset], buf, size), with no bound.
MerkleWr(s, off, h) ==
    IF off < Len(s.t) THEN [s EXCEPT !.t[off + 1] = h] ELSE [s EXCEPT !.oob = TRUE]

\* merkle_rd: memcpy(buf, data + offset, size); past the buffer, heap bytes.
MerkleRd(s, off, len) == [k \in 1..len |-> IF off + k - 1 < Len(s.t) THEN s.t[off + k] ELSE <<"g">>]

ReadAt(s, off, len) == [s EXCEPT !.oob = @ \/ off + len > Len(s.t)]

\* A hash written at the next position of level l; a level that completes
\* a block has it read back, hashed and written into the level above.
RECURSIVE Emit(_, _, _)
Emit(s, l, h) ==
    LET n == s.c.size
        s1 == MerkleWr(s, LevelOffset(l, n) + s.c.cnt[l], h)
        s2 == [s1 EXCEPT !.c.cnt[l] = @ + 1]
        off == LevelOffset(l, n) + s2.c.cnt[l] - K
    IN IF s2.c.cnt[l] % K = 0 /\ l < NLevels(n) - 1
       THEN Emit(ReadAt(s2, off, K), l + 1, Hash(MerkleRd(s2, off, K)))
       ELSE s2

\* One payload byte fed; a full data block becomes a leaf.
FeedCell(s, v) ==
    LET b == Append(s.c.blk, v)
        s1 == [s EXCEPT !.c.consumed = @ + 1]
    IN IF Len(b) = K THEN Emit([s1 EXCEPT !.c.blk = <<>>], 0, Hash(b))
       ELSE [s1 EXCEPT !.c.blk = b]

BuilderInit(n) ==
    [size |-> n, consumed |-> 0, blk |-> <<>>, cnt |-> [l \in 0..NLevels(n) - 1 |-> 0],
     flushed |-> 0, root |-> <<>>]

\* Mutant: bytes past the declared size fed like the others.
ProcessUnchecked(s, data) == [ok |-> TRUE, s |-> FoldLeft(FeedCell, s, data)]

\* bpak_merkle_process(ctx, buf, len): fails on more bytes than declared.
Process(s, data) ==
    IF s.c.consumed + Len(data) > s.c.size THEN [ok |-> FALSE, s |-> s]
    ELSE [ok |-> TRUE, s |-> FoldLeft(FeedCell, s, data)]

\* Mutant: done only past the last level.
MerkleDoneLate(c) == c.flushed > NLevels(c.size)

\* bpak_merkle_done
MerkleDone(c) == c.flushed = NLevels(c.size)

\* bpak_merkle_process(ctx, NULL, 0): fails while bytes are missing; else
\* flushes the next level (the partial data block first), and yields the
\* root with the top level; once done it changes nothing.
Flush(s) ==
    LET n == s.c.size
        l == s.c.flushed
        s0 == IF l = 0 /\ s.c.blk # <<>>
              THEN Emit([s EXCEPT !.c.blk = <<>>], 0, Hash(PadBlk(s.c.blk, ZeroByte))) ELSE s
        part0 == s0.c.cnt[l] % K
        off == LevelOffset(l, n) + s0.c.cnt[l] - part0
        s1 == IF l < NLevels(n) - 1 /\ part0 # 0
              THEN Emit(ReadAt(s0, off, part0), l + 1, Hash(PadBlk(MerkleRd(s0, off, part0), ZeroHash)))
              ELSE s0
        top == LevelOffset(l, n)
        s2 == IF l = NLevels(n) - 1
              THEN [ReadAt(s1, top, s1.c.cnt[l]) EXCEPT
                        !.c.root = Hash(PadBlk(MerkleRd(s1, top, s1.c.cnt[l]), ZeroHash))]
              ELSE s1
    IN IF s.c.consumed < n THEN [ok |-> FALSE, s |-> s]
       ELSE IF l >= NLevels(n) THEN [ok |-> TRUE, s |-> s]
       ELSE [ok |-> TRUE, s |-> [s2 EXCEPT !.c.flushed = l + 1]]

(***************************************************************************)
(* The reference tree: levels computed whole, recursively.                *)
(***************************************************************************)

Groups(hs, z) ==
    [j \in 1..CeilDiv(Len(hs), K) |->
        PadBlk(SubSeq(hs, (j - 1) * K + 1, IF j * K < Len(hs) THEN j * K ELSE Len(hs)), z)]

RECURSIVE RefLevels(_)
RefLevels(hs) ==
    IF Len(hs) <= K THEN <<hs>>
    ELSE <<hs>> \o RefLevels([j \in DOMAIN Groups(hs, ZeroHash) |-> Hash(Groups(hs, ZeroHash)[j])])

\* The tree of payload p: its levels, each in whole zero-padded blocks.
RefTree(p) ==
    LET lv == RefLevels([j \in DOMAIN Groups(p, ZeroByte) |-> Hash(Groups(p, ZeroByte)[j])])
    IN [tr |-> FlattenSeq([l \in DOMAIN lv |-> FlattenSeq(Groups(lv[l], ZeroHash))]),
        root |-> Hash(PadBlk(lv[Len(lv)], ZeroHash))]

(***************************************************************************)
(* The driver, bpak_pkg_add_file_with_merkle_tree.                         *)
(***************************************************************************)

S == [t |-> tree, c |-> ctx, oob |-> oob]

\* stat(filename, &statbuf)
Stat ==
    /\ pc = "stat"
    /\ st' = Len(file)
    /\ pc' = "addfile"
    /\ UNCHANGED <<file, touched, part, tree, ctx, oob, rpos, hash, rc>>

\* bpak_pkg_add_file: the file as it is now becomes the data part, or its
\* error is returned.
AddFile ==
    /\ pc = "addfile"
    /\ \/ part' = file /\ pc' = "alloc" /\ UNCHANGED rc
       \/ rc' = "FAILED" /\ pc' = "done" /\ UNCHANGED part
    /\ UNCHANGED <<file, touched, st, tree, ctx, oob, rpos, hash>>

\* Mutant: merkle_buf left as malloc returned it.
TreeAllocNoMemset(n) == [k \in 1..n |-> <<"g">>]

\* malloc(merkle_sz) and memset(merkle_buf, 0, merkle_sz).
TreeAlloc(n) == [k \in 1..n |-> ZeroHash]

\* merkle_sz from the first stat, the buffer, the salt, bpak_merkle_init
\* for statbuf.st_size bytes, fopen.
Alloc ==
    /\ pc = "alloc"
    /\ tree' = TreeAlloc(TreeSize(st))
    /\ ctx' = BuilderInit(st)
    /\ rpos' = 0
    /\ pc' = "read"
    /\ UNCHANGED <<file, touched, st, part, oob, hash, rc>>

\* The position of fp after fread returned n.
Advance(pos, n) == pos + n

\* fread(block_buf, 1, sizeof(block_buf), fp)
FreadCount ==
    IF rpos >= Len(file) THEN 0 ELSE IF Len(file) - rpos < K THEN Len(file) - rpos ELSE K

\* A chunk read and fed to bpak_merkle_process; its error ends the call.
ReadChunk ==
    /\ pc = "read"
    /\ FreadCount > 0
    /\ LET r == Process(S, SubSeq(file, rpos + 1, rpos + FreadCount))
       IN IF r.ok
          THEN /\ tree' = r.s.t /\ ctx' = r.s.c /\ oob' = r.s.oob
               /\ rpos' = Advance(rpos, FreadCount)
               /\ UNCHANGED <<pc, rc>>
          ELSE /\ rc' = "FAILED" /\ pc' = "done"
               /\ UNCHANGED <<tree, ctx, oob, rpos>>
    /\ UNCHANGED <<file, touched, st, part, hash>>

\* fread returns 0: break.
ReadEnd ==
    /\ pc = "read"
    /\ FreadCount = 0
    /\ pc' = "flush"
    /\ UNCHANGED <<file, touched, st, part, tree, ctx, oob, rpos, hash, rc>>

\* One pass of `while (!bpak_merkle_done(&ctx))`: process(NULL, 0).
FlushStep ==
    /\ pc = "flush"
    /\ ~MerkleDone(ctx)
    /\ LET r == Flush(S)
       IN IF r.ok
          THEN /\ tree' = r.s.t /\ ctx' = r.s.c /\ oob' = r.s.oob
               /\ UNCHANGED <<pc, rc>>
          ELSE /\ rc' = "FAILED" /\ pc' = "done"
               /\ UNCHANGED <<tree, ctx, oob>>
    /\ UNCHANGED <<file, touched, st, part, rpos, hash>>

\* The loop ends; bpak_merkle_out(&ctx, hash).  The meta entries, the tree
\* part and the header follow (BpakPackage).
Out ==
    /\ pc = "flush"
    /\ MerkleDone(ctx)
    /\ hash' = ctx.root
    /\ pc' = "done"
    /\ UNCHANGED <<file, touched, st, part, tree, ctx, oob, rpos, rc>>

Driver == Stat \/ AddFile \/ Alloc \/ ReadChunk \/ ReadEnd \/ FlushStep \/ Out

\* Another process rewrites a byte of the input file after add_file copied
\* it (a rewrite before is another input).  Once is enough to tell.
Modify ==
    /\ "modify" \in ENV
    /\ pc \notin {"stat", "addfile", "done"}
    /\ touched = "none"
    /\ \E k \in 1..Len(file), v \in Vals :
          /\ v # file[k]
          /\ file' = [file EXCEPT ![k] = v]
    /\ touched' = "modify"
    /\ UNCHANGED <<pc, st, part, tree, ctx, oob, rpos, hash, rc>>

\* Another process appends a byte to the input file or drops its last one,
\* once, at any time after the first stat: before add_file's copy the part
\* and merkle_sz disagree, after it the second read does.
Resize ==
    /\ "resize" \in ENV
    /\ pc \notin {"stat", "done"}
    /\ touched = "none"
    /\ \/ \E v \in Vals : file' = Append(file, v)
       \/ Len(file) > 1 /\ file' = SubSeq(file, 1, Len(file) - 1)
    /\ touched' = "resize"
    /\ UNCHANGED <<pc, st, part, tree, ctx, oob, rpos, hash, rc>>

Init ==
    /\ file \in UNION {[1..n -> Vals] : n \in Sizes}
    /\ touched = "none"
    /\ pc = "stat"
    /\ st = 0
    /\ part = <<>>
    /\ tree = <<>>
    /\ ctx = BuilderInit(1)
    /\ oob = FALSE
    /\ rpos = 0
    /\ hash = <<>>
    /\ rc = "OK"

Next == Driver \/ Modify \/ Resize

\* The call is one thread that blocks only on I/O; the writer need not act.
Spec == Init /\ [][Next]_vars /\ WF_vars(Driver)

(***************************************************************************)
(* Properties.                                                             *)
(***************************************************************************)

TypeOK ==
    /\ pc \in {"stat", "addfile", "alloc", "read", "flush", "done"}
    /\ st \in Nat /\ rpos \in Nat
    /\ oob \in BOOLEAN /\ touched \in {"none", "modify", "resize"}
    /\ ctx.consumed \in 0..ctx.size /\ Len(ctx.blk) < K
    /\ rc \in {"OK", "FAILED"}

\* merkle_wr and merkle_rd copy without a bound: every hash the builder
\* writes or reads back, leaves, inner levels, partial blocks and root,
\* lies inside the merkle_sz bytes that bpak_merkle_compute_size gave and
\* add_file_with_merkle_tree allocated.
TreeInBounds == ~oob

\* When add_file_with_merkle_tree gets to bpak_merkle_out without an error,
\* the tree in merkle_buf (written as the hash-tree part) is the tree of
\* the data part that add_file wrote, and the root hash (stored as the
\* merkle-root-hash meta) is its root (spec 8.7).
TreeOfPart ==
    pc = "done" /\ rc = "OK" =>
        LET ref == RefTree(part) IN tree = ref.tr /\ hash = ref.root

\* The same, unless a byte of the input is rewritten in place: a file that
\* grows or shrinks at any point after the first stat (so that merkle_sz,
\* the part add_file copies and the second read disagree) never yields a
\* wrong tree or root with BPAK_OK; bpak_merkle_process rejects bytes past
\* the declared size and the flush loop fails on missing ones.
TreeOfPartUnlessRewritten == touched # "modify" => TreeOfPart

\* add_file_with_merkle_tree returns: the read loop and the flush loop end.
MerkleReturns == <>(pc = "done")

====
