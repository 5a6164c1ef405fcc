\* Every call of the driver, none interrupted, on a disk with two clusters for data.
SPECIFICATION Spec
CONSTANTS
    CLUSTER_MAP_SIZE = 5
    CLUSTER_SIZE = 2
    DIRECTORY_TABLE_SIZE = 4
    Names = {a, b}
    Extensions = {x}
    FileSizes = {1, 3}
    Tags = {t1, t2}
    OPERATIONS = {"write", "mkdir", "delete", "move"}
    INTERRUPTED = {}
    a = a
    b = b
    t1 = t1
    t2 = t2
    x = x
SYMMETRY Symmetry
VIEW View
INVARIANTS
    TypeOK
    MapIsOnDisk
    NoCrossLink
    NoLeak
    FileIntact
PROPERTY
    StoreSpec
CHECK_DEADLOCK FALSE
