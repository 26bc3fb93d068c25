SPECIFICATION Spec
CONSTANTS
    Files = {a, b}
    MaxSize = 1
    MaxDescriptors = 2
    MaxInodes = 2
    MaxCalls = 7
INVARIANTS
    SizeTruth
    HandlesOwned
    UnmapsWhole
CHECK_DEADLOCK FALSE
SYMMETRY Symmetry
