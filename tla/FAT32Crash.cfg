\* The machine may stop while it writes a file or moves an entry.
SPECIFICATION Spec
CONSTANTS
    CLUSTER_MAP_SIZE = 5
    CLUSTER_SIZE = 2
    DIRECTORY_TABLE_SIZE = 4
    Names = {a, b}
    Extensions = {x}
    FileSizes = {1, 3}
    Tags = {t1, t2}
    OPERATIONS = {"write", "mkdir", "delete", "move"}
    INTERRUPTED = {"write", "move"}
    a = a
    b = b
    t1 = t1
    t2 = t2
    x = x
SYMMETRY Symmetry
VIEW View
INVARIANTS
    DiskIsSound
    FileIntact
PROPERTIES
    StoreSpec
CHECK_DEADLOCK FALSE
