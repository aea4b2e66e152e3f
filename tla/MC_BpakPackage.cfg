\* The package commands on a front-header archive and on an archive whose
\* header follows the payload, with kills and short writes at every point
\* of every command (bpak_io_seek from SEEK_END seeking back).
CONSTANTS
    ALIGN <- MC_ALIGN
    PartNames <- MC_PartNames
    FileSizes <- MC_FileSizes
    KeyLen <- MC_KeyLen
    MerkleLen <- MC_MerkleLen
    N_PARTS <- MC_N_PARTS
    N_META <- MC_N_META
    SigningKey = K
    SEEK_END_FORWARD = FALSE
    TAMPER = FALSE
    TAIL_INIT = TRUE
SPECIFICATION Spec
INVARIANT TypeOK
INVARIANT FrontPartsIntact
INVARIANT SignThenVerify
INVARIANT MerkleMetaConsistent
PROPERTY AbortKeepsSignature
PROPERTY ImplementsArchive
