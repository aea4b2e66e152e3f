\* add_file while another process grows or shrinks the input file, or its
\* reads start failing.
CONSTANTS
    ALIGN <- MC_ALIGN
    CHUNK <- MC_CHUNK
    Sizes <- MC_SmallSizes
    MaxLen <- MC_MaxLen
    W <- MC_W
    ENV = {"grow", "shrink", "eio"}
SPECIFICATION Spec
CHECK_DEADLOCK FALSE
PROPERTY AddFileReturns
