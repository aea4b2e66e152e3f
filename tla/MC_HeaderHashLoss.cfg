\* bpak_pkg_compute_header_hash on signed and unsigned headers of every hash
\* kind with 32-, 48- and 64-byte output buffers.
CONSTANTS
    Sigs <- MC_Sigs
    NoSig = NoSig
    BufSizes <- MC_BufSizes
SPECIFICATION Spec
PROPERTY SignatureKept
