\* Decode of whole inputs where a part smaller than a block precedes
\* another part.
CONSTANTS
    ALIGN <- MC_ALIGN
    PartNames <- MC_PartNames
    Sizes <- MC_Sizes
    ORIGIN = {"complete"}
    TRUNCATE = FALSE
SPECIFICATION Spec
\* the call returns (pc = "exit"): there is nothing after it
CHECK_DEADLOCK FALSE
INVARIANT RoundTrip
