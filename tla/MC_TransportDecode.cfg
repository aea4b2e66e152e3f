\* Transport decode of one or two parts, each plain or a delta, padded or
\* block-aligned, with no origin, an origin holding every part in any
\* order, or one holding only the parts a delta needs; inputs cut short at
\* every length from the end of the header on.
CONSTANTS
    ALIGN <- MC_ALIGN
    PartNames <- MC_PartNames
    Sizes <- MC_Sizes
    ORIGIN = {"none", "complete", "any"}
    TRUNCATE = TRUE
SPECIFICATION Spec
\* the call returns (pc = "exit") or the process dies (pc = "segv")
CHECK_DEADLOCK FALSE
INVARIANT TypeOK
INVARIANT AlignedRoundTrip
INVARIANT NoMaskedError
PROPERTY PkgSizeSuffices
