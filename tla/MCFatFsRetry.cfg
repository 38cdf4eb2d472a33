SPECIFICATION Spec
CONSTANTS
    f1 = f1
    f2 = f2
    h1 = h1
    h2 = h2
    Names = {f1, f2}
    Root = 2
    DirOf <- InRoot
    n_fatent = 6
    PerSector = 5
    n_fats = 1
    csize = 1
    SS = 2
    Cells = {1}
    Handles = {h1, h2}
    Modes <- SomeModes
    Lengths = {1, 3}
    Offsets = {0, 1, 4}
    Cuts = {0, 1, 2, 3, 4}
    Extents = {}
    Moves <- None
    Faults = {"error"}
    MaxSize = 4
    MaxAccess = 12
    MaxCalls = 5
    MaxFaults = 1
SYMMETRY Symmetric
INVARIANTS
    VouchedIsOnDisk
CHECK_DEADLOCK FALSE
