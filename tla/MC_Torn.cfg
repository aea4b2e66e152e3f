\* Opening an archive whose last header write was cut short.
CONSTANTS
    ALIGN <- MC_ALIGN
    PartNames <- MC_PartNames
    FileSizes <- MC_FileSizes
    KeyLen <- MC_KeyLen
    MerkleLen <- MC_MerkleLen
    N_PARTS <- MC_N_PARTS
    N_META <- MC_N_META
    SigningKey = K
    SEEK_END_FORWARD = FALSE
    TAMPER = FALSE
    TAIL_INIT = FALSE
SPECIFICATION Spec
INVARIANT OpenRejectsTornArchive
