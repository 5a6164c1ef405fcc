\* Files of one to three clusters come and go in the root directory.
SPECIFICATION Spec
CONSTANTS
    CLUSTER_MAP_SIZE = 8
    CLUSTER_SIZE = 2
    DIRECTORY_TABLE_SIZE = 5
    Names = {a, b}
    Extensions = {x}
    FileSizes = {1, 3, 5}
    Tags = {t1, t2}
    OPERATIONS = {"write", "delete"}
    INTERRUPTED = {}
    a = a
    b = b
    t1 = t1
    t2 = t2
    x = x
SYMMETRY Symmetry
VIEW View
INVARIANTS
    NoCrossLink
    NoLeak
    FileIntact
CHECK_DEADLOCK FALSE
