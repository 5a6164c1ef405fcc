\* One shell, two folders, files of one name: every command on the file system.
SPECIFICATION ShellSpec
CONSTANTS
    CLUSTER_MAP_SIZE = 6
    CLUSTER_SIZE = 2
    DIRECTORY_TABLE_SIZE = 4
    Names = {d, e, p}
    FolderNames = {d, e}
    FileNames = {p}
    Program = p
    Extensions = {}
    FileSizes = {1, 2, 3, 4}
    ProgramSize = 3
    EchoSize = 1
    MAX_DIR_LENGTH = 4
    Shells = {s1}
    COMMANDS = {"cd", "mkdir", "rmdir", "cat", "cp", "rm", "mv", "echo"}
    CAREFUL = TRUE
    Tags = {t1}
    OPERATIONS = {}
    INTERRUPTED = {}
    d = d
    e = e
    p = p
    t1 = t1
    s1 = s1
SYMMETRY Symmetry
VIEW View
INVARIANTS
    ShellTypeOK
    FileIntact
    WorkingDirectoriesExist
    CdSearchesWhatLsLists
    FindPrintsPaths
CHECK_DEADLOCK FALSE
