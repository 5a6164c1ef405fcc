------------------------------- MODULE Paging -------------------------------
(***************************************************************************)
(* The page-frame allocator and the page-directory pool of                 *)
(* src/src/memory/paging.c.  Physical memory is an array of 4 MiB frames;  *)
(* frame 0 holds the kernel.  A page directory maps page indexes to        *)
(* frames; entry KERNEL_ENTRY (0x300 in the code) is the higher-half       *)
(* mapping of the kernel that every directory must carry.                  *)
(***************************************************************************)
EXTENDS Integers, FiniteSets

CONSTANTS PAGE_FRAME_MAX_COUNT,              \* frames of physical memory (32)
          PAGING_DIRECTORY_TABLE_MAX_COUNT,  \* directories in the pool (32)
          PAGE_ENTRY_COUNT,                  \* entries of a directory (1024)
          KERNEL_ENTRY                       \* the kernel's entry (0x300)

ASSUME PagingAssumption ==
    /\ PAGE_FRAME_MAX_COUNT \in Nat \ {0}
    /\ PAGING_DIRECTORY_TABLE_MAX_COUNT \in Nat \ {0}
    /\ PAGE_ENTRY_COUNT \in Nat \ {0}
    /\ KERNEL_ENTRY \in 0 .. (PAGE_ENTRY_COUNT - 1)

VARIABLES page_frame_map,         \* is the frame marked as used?
          free_page_frame_count,  \* the counter kept beside the map
          page_directory_used,    \* is the pool's directory handed out?
          table,                  \* the entries of each directory
          cr3                     \* the directory the CPU translates with

pagingVars == <<page_frame_map, free_page_frame_count, page_directory_used,
                table, cr3>>

Frame == 0 .. (PAGE_FRAME_MAX_COUNT - 1)
Directory == 0 .. (PAGING_DIRECTORY_TABLE_MAX_COUNT - 1)
Page == 0 .. (PAGE_ENTRY_COUNT - 1)

KernelFrame == 0
NotPresent == -1     \* an entry whose present_bit is 0
God_PageDir == -1    \* _paging_kernel_page_directory: boot's, not of the pool

EmptyTable == [page \in Page |-> NotPresent]

PagingTypeOK ==
    /\ page_frame_map \in [Frame -> BOOLEAN]
    /\ free_page_frame_count \in 0 .. PAGE_FRAME_MAX_COUNT
    /\ page_directory_used \in [Directory -> BOOLEAN]
    /\ table \in [Directory -> [Page -> Frame \cup {NotPresent}]]
    /\ cr3 \in Directory \cup {God_PageDir}

PagingInit ==
    /\ page_frame_map = [frame \in Frame |-> frame = KernelFrame]
    /\ free_page_frame_count = PAGE_FRAME_MAX_COUNT - 1
    /\ page_directory_used = [dir \in Directory |-> FALSE]
    /\ table = [dir \in Directory |-> EmptyTable]
    /\ cr3 = God_PageDir

-----------------------------------------------------------------------------
(* Frames *)

FreeFrame == {frame \in Frame : ~page_frame_map[frame]}

paging_allocate_check(amount) == amount <= free_page_frame_count

\* A scan that does not look at the map.
FirstFit_AnyFrame(frame) == frame \in Frame \ {KernelFrame}

\* The first-fit scan: the lowest frame the map calls free.
FirstFit(frame) ==
    /\ frame \in FreeFrame
    /\ \A other \in FreeFrame : frame <= other

\* The call returns true exactly when the entry is not present and a frame is
\* free; otherwise it changes nothing and returns false.
AllocateSucceeds(dir, page) ==
    /\ table[dir][page] = NotPresent
    /\ FreeFrame # {}

\* A frame counted by the caller as well.
MarkFrame_CountedTwice(frame) ==
    /\ page_frame_map' = [page_frame_map EXCEPT ![frame] = TRUE]
    /\ free_page_frame_count' = free_page_frame_count - 2

\* A frame that is marked and not counted.
MarkFrame_CounterForgotten(frame) ==
    /\ page_frame_map' = [page_frame_map EXCEPT ![frame] = TRUE]
    /\ UNCHANGED free_page_frame_count

MarkFrame(frame) ==
    /\ page_frame_map' = [page_frame_map EXCEPT ![frame] = TRUE]
    /\ free_page_frame_count' = free_page_frame_count - 1

paging_allocate_user_page_frame(dir, page) ==
    \E frame \in Frame :
        /\ FirstFit(frame)
        /\ MarkFrame(frame)
        /\ table' = [table EXCEPT ![dir][page] = frame]
        /\ UNCHANGED <<page_directory_used, cr3>>

-----------------------------------------------------------------------------
(* Directories *)

UnusedDirectory == {dir \in Directory : ~page_directory_used[dir]}

\* A search that takes the last directory of the pool, whatever its flag says.
FirstUnused_Reused(dir) == dir = PAGING_DIRECTORY_TABLE_MAX_COUNT - 1

FirstUnused(dir) ==
    /\ dir \in UnusedDirectory
    /\ \A other \in UnusedDirectory : dir <= other

\* Only the kernel entry is written: the rest of the table keeps whatever the
\* directory's previous life left in it.
paging_create_new_page_directory(dir) ==
    /\ FirstUnused(dir)
    /\ page_directory_used' = [page_directory_used EXCEPT ![dir] = TRUE]
    /\ table' = [table EXCEPT ![dir][KERNEL_ENTRY] = KernelFrame]
    /\ UNCHANGED <<page_frame_map, free_page_frame_count, cr3>>

\* A release that forgets to clear the entries.
paging_free_page_directory_KeepsEntries(dir) ==
    /\ page_directory_used' = [page_directory_used EXCEPT ![dir] = FALSE]
    /\ UNCHANGED <<table, page_frame_map, free_page_frame_count, cr3>>

\* Every entry becomes not present, the kernel's included, and the directory
\* goes back to the pool.  The frames the entries named stay marked.
paging_free_page_directory(dir) ==
    /\ table' = [table EXCEPT ![dir] = EmptyTable]
    /\ page_directory_used' = [page_directory_used EXCEPT ![dir] = FALSE]
    /\ UNCHANGED <<page_frame_map, free_page_frame_count, cr3>>

paging_use_page_directory(dir) == cr3' = dir

-----------------------------------------------------------------------------
(* Properties *)

UserEntry(dir, page) == page # KERNEL_ENTRY /\ table[dir][page] # NotPresent

\* Whatever was created and killed before, no frame is mapped by two user
\* entries of the directories, and none of them maps the kernel's frame: a
\* process can read and write neither another's memory nor the kernel's.
FrameIsolation ==
    /\ \A dir \in Directory, page \in Page :
          UserEntry(dir, page) => table[dir][page] # KernelFrame
    /\ \A dir1, dir2 \in Directory : \A page1, page2 \in Page :
          /\ UserEntry(dir1, page1)
          /\ UserEntry(dir2, page2)
          /\ table[dir1][page1] = table[dir2][page2]
          => dir1 = dir2 /\ page1 = page2

\* The free-frame counter that paging_allocate_check trusts is the number of
\* frames the map calls free, and no mapped frame is among those.
FrameAccounting ==
    /\ free_page_frame_count = Cardinality(FreeFrame)
    /\ \A dir \in Directory, page \in Page :
          UserEntry(dir, page) => page_frame_map[table[dir][page]]

\* A directory that is back in the pool maps nothing: the next process to get it
\* inherits no entry of the previous one.
UnusedIsEmpty ==
    \A dir \in Directory : ~page_directory_used[dir] => table[dir] = EmptyTable

=============================================================================
