---------------------------- MODULE HeaderDigest ----------------------------
(***************************************************************************)
(* bpak_pkg_compute_header_hash (src/lib/pkg.c) over the in-memory header *)
(* of an open package: optionally refresh the payload hash, save and zero *)
(* signature and signature_sz, pick the digest by hash_kind, hash the      *)
(* header image, restore the signature fields.  The header is abstracted  *)
(* to the fields the call reads or writes; a digest is the header image   *)
(* fed to it, tagged with the hash kind (collision free).                  *)
(***************************************************************************)
EXTENDS Naturals

CONSTANTS
    Sigs,       \* signatures a header may carry (NoSig: none)
    NoSig,      \* the all-zero signature slot
    BufSizes    \* sizes of the caller's output buffer, in bytes

\* The recognised values of header.hash_kind; any other byte is OTHER.
HashKinds == {"SHA256", "SHA384", "SHA512"}

\* The digest length each kind needs in the caller's buffer.
DigestLen == [SHA256 |-> 32, SHA384 |-> 48, SHA512 |-> 64]

\* signature_sz of a stored signature (an ECDSA P-521 DER signature).
SigSz == 139

VARIABLES
    hdr,    \* pkg->header: [kind, sig, sig_sz, ph] (ph: payload_hash)
    out,    \* the caller's output buffer
    rc      \* the return value of the last call

vars == <<hdr, out, rc>>

\* bpak_pkg_compute_payload_hash into header.payload_hash: with a
\* sizeof(payload_hash) buffer it fails only on an unknown hash kind.
PayloadHash(h) == [h EXCEPT !.ph = "fresh"]

\* memset(pkg->header.signature, 0, ...); pkg->header.signature_sz = 0
Zeroed(h) == [h EXCEPT !.sig = NoSig, !.sig_sz = 0]

\* The digest of the 4096-byte header image in the kind's hash.
Digest(h) == <<h.kind, h>>

\* One call bpak_pkg_compute_header_hash(pkg, output, &size, upd).
ComputeHeaderHash(size, upd) ==
    LET h1 == IF upd THEN PayloadHash(hdr) ELSE hdr
        z  == Zeroed(h1)
    IN \/ /\ upd /\ hdr.kind \notin HashKinds
          /\ rc' = "NOT_SUPPORTED"
          /\ UNCHANGED <<hdr, out>>
       \/ /\ ~upd /\ hdr.kind \notin HashKinds
          /\ hdr' = z
          /\ rc' = "NOT_SUPPORTED"
          /\ UNCHANGED out
       \/ /\ hdr.kind \in HashKinds /\ size < DigestLen[hdr.kind]
          /\ hdr' = z
          /\ rc' = "FAILED"
          /\ UNCHANGED out
       \/ /\ hdr.kind \in HashKinds /\ size >= DigestLen[hdr.kind]
          /\ out' = Digest(z)
          /\ hdr' = h1
          /\ rc' = "OK"

Init ==
    /\ hdr \in {[kind |-> k, sig |-> s, sig_sz |-> IF s = NoSig THEN 0 ELSE SigSz, ph |-> "stale"] :
                   k \in HashKinds \cup {"OTHER"}, s \in Sigs}
    /\ out = <<>>
    /\ rc = "none"

Next == \E size \in BufSizes, upd \in BOOLEAN : ComputeHeaderHash(size, upd)

Spec == Init /\ [][Next]_vars

TypeOK ==
    /\ hdr.kind \in HashKinds \cup {"OTHER"}
    /\ hdr.sig \in Sigs /\ hdr.sig_sz \in {0, SigSz}
    /\ rc \in {"none", "OK", "FAILED", "NOT_SUPPORTED"}

\* Spec 4.4: the header hash saves signature and signature_sz, zeroes them,
\* hashes, and restores them, and is free of hidden mutation; it fails on
\* an unknown hash kind or a short buffer.  So no call of
\* bpak_pkg_compute_header_hash, successful or failed, changes the
\* signature fields of pkg->header (a later bpak_pkg_write_header would
\* otherwise write the archive out unsigned).
SignatureKept == [][hdr'.sig = hdr.sig /\ hdr'.sig_sz = hdr.sig_sz]_vars

=============================================================================
