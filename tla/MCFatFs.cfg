SPECIFICATION Spec
CONSTANTS
    f1 = f1
    f2 = f2
    h1 = h1
    h2 = h2
SYMMETRY Symmetric
INVARIANTS
    ClustersAreSound
    VouchedIsOnDisk
PROPERTIES
    ImplementsFileSpec
CHECK_DEADLOCK FALSE
