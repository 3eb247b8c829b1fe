SPECIFICATION Spec
CONSTANTS
    Imports = {i1, i2}
    Shared = shared
    Members = 2
SYMMETRY ImportSymmetry
INVARIANT CleanupRemoves
CHECK_DEADLOCK FALSE
