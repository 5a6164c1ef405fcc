\* As FAT32Session, and clients rename within a directory too.
SPECIFICATION Spec
CONSTANTS
    CLUSTER_MAP_SIZE = 5
    CLUSTER_SIZE = 2
    DIRECTORY_TABLE_SIZE = 4
    Names = {a, b}
    Extensions = {x}
    FileSizes = {1, 3}
    Tags = {t1, t2}
    OPERATIONS = {"write", "mkdir", "delete", "move", "rename"}
    INTERRUPTED = {}
    a = a
    b = b
    t1 = t1
    t2 = t2
    x = x
SYMMETRY Symmetry
VIEW View
INVARIANT
    NoCrossLink
CHECK_DEADLOCK FALSE
