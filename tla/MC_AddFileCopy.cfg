\* add_file copying an input file that another process may grow or shrink
\* and whose reads may start failing, with short fwrites.
CONSTANTS
    ALIGN <- MC_ALIGN
    CHUNK <- MC_CHUNK
    Sizes <- MC_Sizes
    MaxLen <- MC_MaxLen
    W <- MC_W
    ENV = {"grow", "shrink", "eio"}
SPECIFICATION Spec
\* add_file returns (pc = "done"): there is nothing after it
CHECK_DEADLOCK FALSE
INVARIANT TypeOK
INVARIANT CopyCommitsPartSize
PROPERTY UndisturbedReturns
