----------------------------- MODULE AddFileCopy -----------------------------
(***************************************************************************)
(* The copy loop of bpak_pkg_add_file (src/lib/pkg_create.c) step by step, *)
(* with the input file as another process may change it: stat() sizes the *)
(* part, the file is opened, then fread/fwrite of sizeof(chunk_buffer)     *)
(* run until bytes_to_write, an unsigned 64-bit count, reaches 0; the zero *)
(* padding follows, then the payload hash and the header (whose writes    *)
(* BpakPackage models).                                                    *)
(*                                                                         *)
(* Sizes are in units of CHUNK-th parts of the 512-byte chunk buffer;      *)
(* ALIGN is BPAK_PART_ALIGN in the same unit.  The count keeps its         *)
(* wrap-around: it is taken modulo 2^W, W standing for 64.                 *)
(***************************************************************************)
EXTENDS BpakFile, FiniteSets

CONSTANTS
    CHUNK,    \* sizeof(chunk_buffer)
    Sizes,    \* sizes the input file may have when add_file starts
    MaxLen,   \* the largest size a concurrent writer grows the input to
    W,        \* the width of bytes_to_write (uint64_t)
    ENV       \* what may happen to the input meanwhile: "grow", "shrink",
              \* "eio" (reads start failing)

ASSUME CHUNK \in Nat \ {0} /\ Sizes \subseteq 0..MaxLen /\ W \in Nat \ {0}
ASSUME ENV \subseteq {"grow", "shrink", "eio"}

VARIABLES
    pc,       \* where bpak_pkg_add_file is
    flen,     \* the input file's length now
    eio,      \* reads of the input fail (ferror)
    st,       \* statbuf.st_size, which becomes p->size
    pad,      \* p->pad_bytes
    rpos,     \* the input stream position
    btw,      \* bytes_to_write
    wrote,    \* bytes written to the archive since new_offset
    rc        \* rc

vars == <<pc, flen, eio, st, pad, rpos, btw, wrote, rc>>

\* Arithmetic on uint64_t.
U(x) == x % (2 ^ W)

(***************************************************************************)
(* The tool.                                                               *)
(***************************************************************************)

\* stat, the part appended to the table with size and padding, the seek
\* to new_offset, fopen of the input.
Stat ==
    /\ pc = "stat"
    /\ st' = flen
    /\ pad' = PadFor(flen)
    /\ btw' = U(flen)
    /\ pc' = "copy"
    /\ UNCHANGED <<flen, eio, rpos, wrote, rc>>

\* fread(chunk_buffer, 1, sizeof(chunk_buffer), in_fp): what is left of the
\* file up to a chunk, nothing once reads fail.
FreadCount == IF eio THEN 0 ELSE Min({CHUNK, flen - Min({rpos, flen})})

\* Mutant: the whole buffer written whatever fread returned.
WriteCountFull(n) == CHUNK

\* fwrite(chunk_buffer, 1, read_bytes, pkg->fp) writes read_bytes.
WriteCount(n) == n

\* Mutant: bytes_to_write decreased by the buffer size.
BtwAfterChunk(b, n) == U(b - CHUNK)

\* bytes_to_write -= read_bytes
BtwAfter(b, n) == U(b - n)

\* One pass of `while (bytes_to_write)` whose fwrite succeeds.  When fread
\* returns 0 the pass changes nothing and the loop spins.
CopyChunk ==
    /\ pc = "copy"
    /\ btw # 0
    /\ rpos' = rpos + FreadCount
    /\ wrote' = wrote + WriteCount(FreadCount)
    /\ btw' = BtwAfter(btw, FreadCount)
    /\ UNCHANGED <<pc, flen, eio, st, pad, rc>>

\* fwrite writes less than read_bytes: rc = -BPAK_WRITE_ERROR, break.
CopyWriteError ==
    /\ pc = "copy"
    /\ btw # 0
    /\ FreadCount > 0
    /\ rc' = "WRITE_ERROR"
    /\ pc' = "done"
    /\ UNCHANGED <<flen, eio, st, pad, rpos, btw, wrote>>

\* The loop ends with bytes_to_write = 0.
CopyDone ==
    /\ pc = "copy"
    /\ btw = 0
    /\ pc' = "pad"
    /\ UNCHANGED <<flen, eio, st, pad, rpos, btw, wrote, rc>>

\* The zero padding: written, short (WRITE_ERROR), or none needed.
PadWrite ==
    /\ pc = "pad"
    /\ \/ pad = 0 /\ pc' = "commit" /\ UNCHANGED rc
       \/ pad > 0 /\ pc' = "commit" /\ UNCHANGED rc
       \/ pad > 0 /\ pc' = "done" /\ rc' = "WRITE_ERROR"
    /\ UNCHANGED <<flen, eio, st, pad, rpos, btw, wrote>>

\* bpak_pkg_update_payload_hash, bpak_pkg_write_header, fclose, return.
Commit ==
    /\ pc = "commit"
    /\ pc' = "done"
    /\ UNCHANGED <<flen, eio, st, pad, rpos, btw, wrote, rc>>

Tool == Stat \/ CopyChunk \/ CopyWriteError \/ CopyDone \/ PadWrite \/ Commit

(***************************************************************************)
(* Another process and the medium, while add_file runs.                   *)
(***************************************************************************)

Grow ==
    /\ "grow" \in ENV /\ pc # "done" /\ flen < MaxLen
    /\ flen' = flen + 1
    /\ UNCHANGED <<pc, eio, st, pad, rpos, btw, wrote, rc>>

Shrink ==
    /\ "shrink" \in ENV /\ pc # "done" /\ flen > 0
    /\ flen' = flen - 1
    /\ UNCHANGED <<pc, eio, st, pad, rpos, btw, wrote, rc>>

ReadFails ==
    /\ "eio" \in ENV /\ pc # "done" /\ ~eio
    /\ eio' = TRUE
    /\ UNCHANGED <<pc, flen, st, pad, rpos, btw, wrote, rc>>

Env == Grow \/ Shrink \/ ReadFails

Init ==
    /\ pc = "stat"
    /\ flen \in Sizes
    /\ eio = FALSE
    /\ st = 0 /\ pad = 0 /\ rpos = 0 /\ btw = 0 /\ wrote = 0
    /\ rc = "OK"

Next == Tool \/ Env

\* add_file runs in one thread that blocks only on I/O: a step of it that
\* stays possible is taken.  The environment is not bound to act.
Spec == Init /\ [][Next]_vars /\ WF_vars(Tool)

(***************************************************************************)
(* Properties.                                                             *)
(***************************************************************************)

TypeOK ==
    /\ pc \in {"stat", "copy", "pad", "commit", "done"}
    /\ flen \in 0..MaxLen /\ st \in 0..MaxLen /\ pad \in 0..ALIGN - 1
    /\ btw \in 0..2 ^ W - 1 /\ rpos \in Nat /\ wrote \in Nat
    /\ rc \in {"OK", "WRITE_ERROR"}

\* When add_file goes on to the padding and the header, the loop has
\* written exactly p->size bytes, the size stat() gave, whatever the input
\* did after the stat: a file that grew returns a full buffer where fewer
\* bytes were left, a file that shrank or fails returns short counts, and
\* the unsigned bytes_to_write must not reach 0 early or by wrapping.  The
\* header then counts every byte of the part and none of the padding.
CopyCommitsPartSize == pc \in {"pad", "commit"} => wrote = st

\* bpak_pkg_add_file returns when nobody changes the input file and its
\* reads succeed: the copy loop ends for every file size.
UndisturbedReturns ==
    \A n \in 0..MaxLen : [](flen = n /\ ~eio) => <>(pc = "done")

\* bpak_pkg_add_file returns: the copy loop ends whatever the input file
\* does and whatever its reads return.
AddFileReturns == <>(pc = "done")

=============================================================================
