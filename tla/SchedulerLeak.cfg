\* Processes are created and killed until no frame is left.
SPECIFICATION Spec
CONSTANTS
    PAGE_FRAME_MAX_COUNT = 8
    PAGING_DIRECTORY_TABLE_MAX_COUNT = 6
    PAGE_ENTRY_COUNT = 3
    KERNEL_ENTRY = 2
    PROCESS_COUNT_MAX = 3
    PROCESS_PAGE_FRAME_COUNT_MAX = 2
INVARIANT
    MarkedFramesAreUsed
CHECK_DEADLOCK FALSE
