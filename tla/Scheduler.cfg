\* The kernel with three slots, seven frames to give and six directories.
SPECIFICATION Spec
CONSTANTS
    PAGE_FRAME_MAX_COUNT = 8
    PAGING_DIRECTORY_TABLE_MAX_COUNT = 6
    PAGE_ENTRY_COUNT = 3
    KERNEL_ENTRY = 2
    PROCESS_COUNT_MAX = 3
    PROCESS_PAGE_FRAME_COUNT_MAX = 2
INVARIANTS
    TypeOK
    FrameIsolation
    FrameAccounting
    UnusedIsEmpty
    RunningIsComplete
    PrivateDirectories
    RunsInOwnAddressSpace
    ContextStaysInSlot
    BoundedWait
PROPERTIES
    RunnableGetsCpu
    TableSpec
CHECK_DEADLOCK FALSE
