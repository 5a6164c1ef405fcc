\* Two shells copy, remove and write files of two names at once.
SPECIFICATION ShellSpec
CONSTANTS
    CLUSTER_MAP_SIZE = 8
    CLUSTER_SIZE = 2
    DIRECTORY_TABLE_SIZE = 4
    Names = {f, p}
    FolderNames = {}
    FileNames = {f, p}
    Program = p
    Extensions = {}
    FileSizes = {1, 2, 3, 4}
    ProgramSize = 3
    EchoSize = 1
    MAX_DIR_LENGTH = 4
    Shells = {s1, s2}
    COMMANDS = {"cp", "rm", "echo"}
    CAREFUL = TRUE
    Tags = {t1, t2}
    OPERATIONS = {}
    INTERRUPTED = {}
    f = f
    p = p
    t1 = t1
    t2 = t2
    s1 = s1
    s2 = s2
SYMMETRY Symmetry
VIEW View
INVARIANTS
    CopiesOneVersion
CHECK_DEADLOCK FALSE
