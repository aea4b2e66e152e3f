\* add_file_with_merkle_tree while another process rewrites a byte of the
\* input after add_file copied it.
CONSTANTS
    K <- MC_K
    Vals <- MC_Vals
    Sizes <- MC_Sizes
    SALT = s
    ENV = {"modify"}
SPECIFICATION Spec
CHECK_DEADLOCK FALSE
INVARIANT TreeOfPart
