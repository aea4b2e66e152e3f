\* add_file_with_merkle_tree over every input of 1 to 6 cells, while
\* another process may rewrite a byte of the input or resize it.
CONSTANTS
    K <- MC_K
    Vals <- MC_Vals
    Sizes <- MC_Sizes
    SALT = s
    ENV = {"modify", "resize"}
SPECIFICATION Spec
\* the call returns (pc = "done"): there is nothing after it
CHECK_DEADLOCK FALSE
INVARIANT TypeOK
INVARIANT TreeInBounds
INVARIANT TreeOfPartUnlessRewritten
PROPERTY MerkleReturns
