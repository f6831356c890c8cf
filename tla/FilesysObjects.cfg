SPECIFICATION Spec
CONSTANTS
    Names = {x, y}
    HostObjects <- Files
    Limit = 1
    Reap = 1
    EXKEYS = 2
    MaxUses = 2
    MaxBusy = 3
    MaxAinos = 3
    MaxPhantoms = 2
    MaxCounted = 2
    MaxDepth = 2
SYMMETRY NameSymmetry
INVARIANTS Inv InUseExists ScanComplete ReaperEnds ChecksHold
