\* A folder is removed while a shell works in it.
SPECIFICATION ShellSpec
CONSTANTS
    CLUSTER_MAP_SIZE = 6
    CLUSTER_SIZE = 2
    DIRECTORY_TABLE_SIZE = 4
    Names = {d, p}
    FolderNames = {d}
    FileNames = {p}
    Program = p
    Extensions = {}
    FileSizes = {1}
    ProgramSize = 1
    EchoSize = 1
    MAX_DIR_LENGTH = 4
    Shells = {s1, s2}
    COMMANDS = {"cd", "mkdir", "rmdir", "echo"}
    CAREFUL = FALSE
    Tags = {t1}
    OPERATIONS = {}
    INTERRUPTED = {}
    d = d
    p = p
    t1 = t1
    s1 = s1
    s2 = s2
INVARIANTS
    FileIntact
CHECK_DEADLOCK FALSE
