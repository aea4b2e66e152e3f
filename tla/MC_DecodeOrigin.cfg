\* Decode of whole inputs without an origin archive, or with one that holds
\* the parts the deltas need but may lack a plain part.
CONSTANTS
    ALIGN <- MC_ALIGN
    PartNames <- MC_PartNames
    Sizes <- MC_AlignedSizes
    ORIGIN = {"none", "any"}
    TRUNCATE = FALSE
SPECIFICATION Spec
\* the call returns (pc = "exit") or the process dies (pc = "segv")
CHECK_DEADLOCK FALSE
PROPERTY IntactDecodes
