-------------------------- MODULE Scheduler_proofs --------------------------
(***************************************************************************)
(* The safety of process management, proved for every number of slots,     *)
(* frames and directories.  None of the properties of Scheduler is         *)
(* inductive on its own; IInv strengthens them with what holds in the      *)
(* middle of a creation and before the shell exists.                       *)
(***************************************************************************)
EXTENDS Scheduler, FiniteSetTheorems, TLAPS

-----------------------------------------------------------------------------
(* What each operation of the frame allocator and of the directory pool      *)
(* preserves, for every size of the memory and of the pool.                  *)

\* The inductive invariant of the memory manager.
MemoryInv ==
    /\ PagingTypeOK
    /\ page_frame_map[KernelFrame]
    /\ FrameIsolation
    /\ FrameAccounting
    /\ UnusedIsEmpty

-----------------------------------------------------------------------------

\* Any set of frames is finite.
LEMMA FramesFinite ==
    ASSUME NEW S \in SUBSET Frame
    PROVE  IsFiniteSet(S)
<1>1. IsFiniteSet(Frame)
    BY FS_Interval, PagingAssumption DEF Frame, PagingAssumption
<1> QED
    BY <1>1, FS_Subset

\* When the counter is not 0, the first-fit scan finds a frame.
LEMMA FreeFrameExists ==
    ASSUME PagingTypeOK, FrameAccounting, free_page_frame_count # 0
    PROVE  FreeFrame # {}
BY FS_EmptySet DEF FrameAccounting

\* Boot's memory satisfies the invariant.
LEMMA MemoryInit ==
    ASSUME PagingInit
    PROVE  MemoryInv
<1> USE PagingAssumption DEF PagingInit, PagingAssumption
<1>1. PagingTypeOK
    BY DEF PagingTypeOK, EmptyTable, Frame, Directory, Page, NotPresent,
           God_PageDir, KernelFrame
<1>2. /\ KernelFrame \in Frame
      /\ \A frame \in Frame : page_frame_map[frame] <=> frame = KernelFrame
    <2>1. KernelFrame \in Frame
        BY DEF Frame, KernelFrame
    <2> QED
        BY <2>1, Zenon
<1>3. \A dir \in Directory, page \in Page : ~UserEntry(dir, page)
    BY DEF UserEntry, EmptyTable
<1>4. FrameIsolation
    BY <1>3 DEF FrameIsolation
<1>5. FrameAccounting
    <2>1. FreeFrame = {frame \in Frame : frame # KernelFrame}
        BY <1>2, Zenon DEF FreeFrame
    <2>3. FreeFrame = 1 .. (PAGE_FRAME_MAX_COUNT - 1)
        BY <2>1 DEF Frame, KernelFrame
    <2>2. Cardinality(FreeFrame) = PAGE_FRAME_MAX_COUNT - 1
        BY <2>3, FS_Interval
    <2> QED
        BY <1>3, <2>2 DEF FrameAccounting
<1>6. UnusedIsEmpty
    BY DEF UnusedIsEmpty
<1> QED
    BY <1>1, <1>2, <1>4, <1>5, <1>6 DEF MemoryInv

-----------------------------------------------------------------------------

\* Allocating a frame for a user page of a directory in use keeps the invariant
\* and takes exactly one frame off the counter.
LEMMA AllocateKeepsMemory ==
    ASSUME MemoryInv,
           NEW dir \in Directory, NEW page \in Page \ {KERNEL_ENTRY},
           page_directory_used[dir],
           paging_allocate_user_page_frame(dir, page)
    PROVE  MemoryInv' /\ free_page_frame_count' = free_page_frame_count - 1
<1>1. PICK frame \in Frame :
          /\ FirstFit(frame)
          /\ MarkFrame(frame)
          /\ table' = [table EXCEPT ![dir][page] = frame]
          /\ UNCHANGED <<page_directory_used, cr3>>
    BY DEF paging_allocate_user_page_frame
<1>2. ~page_frame_map[frame]
    BY <1>1 DEF FirstFit, FreeFrame
<1>3. frame # KernelFrame
    BY <1>2 DEF MemoryInv
<1>4. \A d \in Directory, p \in Page :
          table'[d][p] = IF d = dir /\ p = page THEN frame ELSE table[d][p]
    BY <1>1 DEF MemoryInv, PagingTypeOK
<1>5. \A d \in Directory, p \in Page : UserEntry(d, p) => table[d][p] # frame
    BY <1>2 DEF MemoryInv, FrameAccounting
<1>6. FreeFrame' = FreeFrame \ {frame}
    BY <1>1 DEF MemoryInv, PagingTypeOK, MarkFrame, FreeFrame
<1>7. /\ Cardinality(FreeFrame') = Cardinality(FreeFrame) - 1
      /\ Cardinality(FreeFrame) \in Nat \ {0}
    <2>1. frame \in FreeFrame /\ IsFiniteSet(FreeFrame)
        BY <1>1, FramesFinite DEF FirstFit, FreeFrame
    <2> QED
        BY <1>6, <2>1, FS_RemoveElement, FS_CardinalityType, FS_EmptySet
<1>8. PagingTypeOK'
    <2>1. page_frame_map' \in [Frame -> BOOLEAN]
        BY <1>1 DEF MemoryInv, PagingTypeOK, MarkFrame
    <2>2. free_page_frame_count' \in 0 .. PAGE_FRAME_MAX_COUNT
        <3>1. /\ free_page_frame_count \in 0 .. PAGE_FRAME_MAX_COUNT
              /\ free_page_frame_count \in Nat \ {0}
            BY <1>7 DEF MemoryInv, PagingTypeOK, FrameAccounting
        <3>2. free_page_frame_count' = free_page_frame_count - 1
            BY <1>1 DEF MarkFrame
        <3> QED
            BY <3>1, <3>2, PagingAssumption DEF PagingAssumption
    <2>3. table' \in [Directory -> [Page -> Frame \cup {NotPresent}]]
        BY <1>1 DEF MemoryInv, PagingTypeOK
    <2> QED
        BY <1>1, <2>1, <2>2, <2>3 DEF MemoryInv, PagingTypeOK
<1>9. page_frame_map'[KernelFrame]
    BY <1>1, <1>3 DEF MemoryInv, PagingTypeOK, MarkFrame
<1>10. FrameIsolation'
    BY <1>3, <1>4, <1>5 DEF MemoryInv, FrameIsolation, UserEntry
<1>11. FrameAccounting'
    <2>1. free_page_frame_count' = Cardinality(FreeFrame')
        BY <1>1, <1>7 DEF MemoryInv, FrameAccounting, MarkFrame
    <2>2. \A d \in Directory, p \in Page :
              UserEntry(d, p)' => page_frame_map'[table'[d][p]]
        BY <1>1, <1>4
        DEF MemoryInv, PagingTypeOK, FrameAccounting, UserEntry, MarkFrame
    <2> QED
        BY <2>1, <2>2 DEF FrameAccounting
<1>12. UnusedIsEmpty'
    BY <1>1 DEF MemoryInv, PagingTypeOK, UnusedIsEmpty
<1> QED
    BY <1>1, <1>8, <1>9, <1>10, <1>11, <1>12 DEF MemoryInv, MarkFrame

\* Handing out a directory keeps the invariant: its only new entry is the
\* kernel's.
LEMMA CreateDirectoryKeepsMemory ==
    ASSUME MemoryInv,
           NEW dir \in Directory,
           paging_create_new_page_directory(dir)
    PROVE  MemoryInv'
<1> USE DEF MemoryInv, paging_create_new_page_directory
<1>1. \A d \in Directory, p \in Page :
          p # KERNEL_ENTRY => table'[d][p] = table[d][p]
    BY DEF PagingTypeOK
<1>2. PagingTypeOK'
    <2>1. KernelFrame \in Frame
        BY PagingAssumption DEF KernelFrame, Frame, PagingAssumption
    <2>2. table' \in [Directory -> [Page -> Frame \cup {NotPresent}]]
        BY <2>1 DEF PagingTypeOK
    <2>3. page_directory_used' \in [Directory -> BOOLEAN]
        BY DEF PagingTypeOK
    <2> QED
        BY <2>2, <2>3 DEF PagingTypeOK
<1>3. FrameIsolation'
    BY <1>1 DEF FrameIsolation, UserEntry
<1>4. FrameAccounting'
    BY <1>1 DEF FrameAccounting, UserEntry, FreeFrame
<1>5. UnusedIsEmpty'
    BY DEF UnusedIsEmpty, PagingTypeOK
<1> QED
    BY <1>2, <1>3, <1>4, <1>5

\* Releasing a directory keeps the invariant: it only removes entries.
LEMMA FreeDirectoryKeepsMemory ==
    ASSUME MemoryInv,
           NEW dir \in Directory,
           paging_free_page_directory(dir)
    PROVE  MemoryInv'
<1> USE DEF MemoryInv, paging_free_page_directory
<1>1. \A d \in Directory, p \in Page :
          UserEntry(d, p)' => UserEntry(d, p) /\ table'[d][p] = table[d][p]
    BY DEF PagingTypeOK, UserEntry, EmptyTable
<1>2. PagingTypeOK'
    BY DEF PagingTypeOK, EmptyTable, NotPresent
<1>3. FrameIsolation'
    BY <1>1 DEF FrameIsolation
<1>4. FrameAccounting'
    BY <1>1 DEF FrameAccounting, FreeFrame
<1>5. UnusedIsEmpty'
    BY DEF UnusedIsEmpty, PagingTypeOK
<1> QED
    BY <1>2, <1>3, <1>4, <1>5

\* Switching the CPU to another directory, and any step that leaves the memory
\* manager alone, keeps the invariant.
LEMMA SwitchKeepsMemory ==
    ASSUME MemoryInv,
           UNCHANGED <<page_frame_map, free_page_frame_count,
                       page_directory_used, table>>,
           cr3' \in Directory \cup {God_PageDir}
    PROVE  MemoryInv'
BY DEF MemoryInv, PagingTypeOK, FrameIsolation, FrameAccounting, UnusedIsEmpty,
       UserEntry, FreeFrame

-----------------------------------------------------------------------------
(* The kernel *)

\* Nothing has run before the shell is created.
BootInv ==
    pc = "boot" =>
        /\ free_page_frame_count = PAGE_FRAME_MAX_COUNT - 1
        /\ \A slot \in Pcb : ~Running(slot)
        /\ \A slot \in Slot : waited[slot] = 0

\* In the allocation loop: the pages below i are mapped, those from i on are
\* not, and enough frames are left for them.
CreationInv ==
    pc = "allocate" =>
        /\ Running(creation.p_index)
        /\ page_directory_used[creation.page_dir]
        /\ table[creation.page_dir][KERNEL_ENTRY] = KernelFrame
        /\ creation.i <= creation.frames
        /\ creation.frames >= 1
        /\ creation.i >= 1 => table[creation.page_dir][0] # NotPresent
        /\ \A page \in Page : creation.i <= page /\ page < creation.frames
              => table[creation.page_dir][page] = NotPresent
        /\ creation.frames - creation.i <= free_page_frame_count
        /\ creation.old_page_dir = cr3

\* Finished processes are complete and own their directory alone, and none of
\* them owns the directory of the process being created.
DirectoryInv ==
    /\ \A slot \in Pcb : Finished(slot) =>
          /\ page_dir[slot] \in Directory
          /\ page_directory_used[page_dir[slot]]
          /\ table[page_dir[slot]][KERNEL_ENTRY] = KernelFrame
          /\ table[page_dir[slot]][0] # NotPresent
          /\ pc = "allocate" => page_dir[slot] # creation.page_dir
    /\ \A slot1, slot2 \in Pcb :
          /\ Finished(slot1)
          /\ Finished(slot2)
          /\ page_dir[slot1] = page_dir[slot2]
          => slot1 = slot2

\* No registers belong to a process that does not exist yet.
GenerationInv ==
    /\ \A slot \in Pcb : context[slot].generation <= generation[slot]
    /\ cpu.generation <= generation[current]

\* RunsInOwnAddressSpace, extended to the creations the current process makes.
AddressSpaceInv ==
    (/\ pc \in {"user", "allocate"}
     /\ Running(current)
     /\ cpu = [slot |-> current, generation |-> generation[current]])
    => Finished(current) /\ cr3 = page_dir[current]

\* The switches a slot has sat out and those it still has to sit out add up to
\* at most one round.
WaitInv ==
    \A slot \in Slot : Running(slot) =>
        waited[slot] + Distance(current, slot) <= PROCESS_COUNT_MAX

ProcessInv ==
    /\ ProcessTypeOK
    /\ SchedulerTypeOK
    /\ BootInv
    /\ CreationInv
    /\ DirectoryInv
    /\ GenerationInv
    /\ ContextStaysInSlot
    /\ AddressSpaceInv
    /\ WaitInv

IInv == MemoryInv /\ ProcessInv

-----------------------------------------------------------------------------

\* The initial state satisfies the invariant.
LEMMA InitInv ==
    ASSUME Init
    PROVE  IInv
<1> USE ProcessAssumption DEF Init, ProcessInit, ProcessAssumption
<1>1. MemoryInv
    BY MemoryInit
<1>2. ProcessTypeOK
    <2>1. NoCreation \in [p_index : Pcb, page_dir : Directory,
                          frames : 0 .. PROCESS_PAGE_FRAME_COUNT_MAX,
                          i : 0 .. PROCESS_PAGE_FRAME_COUNT_MAX,
                          old_page_dir : Directory \cup {God_PageDir}]
        <3>1. 0 \in Pcb /\ 0 \in Directory /\ 0 \in 0 .. PROCESS_PAGE_FRAME_COUNT_MAX
            BY PagingAssumption DEF PagingAssumption, Pcb, Slot, Directory
        <3> QED
            BY <3>1 DEF NoCreation
    <2>2. context \in [Pcb -> Thread]
        BY DEF Thread
    <2> QED
        BY <2>1, <2>2 DEF ProcessTypeOK, God_PageDir
<1>3. SchedulerTypeOK
    BY DEF SchedulerTypeOK, Thread, Slot, Pcb
<1>4. BootInv
    BY DEF BootInv, PagingInit, Running
<1>5. CreationInv /\ AddressSpaceInv
    BY DEF CreationInv, AddressSpaceInv
<1>6. \A slot \in Pcb : ~Running(slot)
    BY DEF Running
<1>7. DirectoryInv
    BY <1>6 DEF DirectoryInv, Finished
<1>8. GenerationInv /\ ContextStaysInSlot
    BY DEF GenerationInv, ContextStaysInSlot, current, Pcb, Slot
<1>9. WaitInv
    BY <1>6 DEF WaitInv, Pcb
<1> QED
    BY <1>1, <1>2, <1>3, <1>4, <1>5, <1>7, <1>8, <1>9 DEF IInv, ProcessInv

\* Starting a creation, by kernel_setup or by system call 11.
LEMMA BeginCreationInv ==
    ASSUME IInv, pc \in {"boot", "user"},
           NEW frames \in 1 .. PROCESS_PAGE_FRAME_COUNT_MAX,
           frames <= free_page_frame_count,
           BeginCreation(frames),
           UNCHANGED <<a_certain_magical_index, cpu>>,
           waited' \in [Slot -> Nat],
           \A slot \in Slot :
              IF slot = creation'.p_index THEN waited'[slot] = 0
                                          ELSE waited'[slot] = waited[slot]
    PROVE  IInv'
<1> USE DEF IInv, ProcessInv
<1>1. PICK slot \in Pcb, dir \in Directory :
          /\ process_list_get_inactive_index(slot)
          /\ paging_create_new_page_directory(dir)
          /\ state' = [state EXCEPT ![slot] = "RUNNING"]
          /\ generation' = [generation EXCEPT ![slot] = @ + 1]
          /\ pc' = "allocate"
          /\ creation' = [p_index |-> slot, page_dir |-> dir,
                          frames |-> frames, i |-> 0, old_page_dir |-> cr3]
          /\ UNCHANGED <<page_dir, context>>
    BY DEF BeginCreation
<1>2. /\ creation'.p_index = slot
      /\ creation'.page_dir = dir
      /\ creation'.frames = frames
      /\ creation'.i = 0
      /\ creation'.old_page_dir = cr3
    BY <1>1
<1>3. MemoryInv'
    BY <1>1, CreateDirectoryKeepsMemory
<1>4. ~page_directory_used[dir]
    BY <1>1 DEF paging_create_new_page_directory, FirstUnused, UnusedDirectory
<1>5. table[dir] = EmptyTable
    BY <1>4 DEF MemoryInv, UnusedIsEmpty
<1>6. /\ page_directory_used'[dir]
      /\ \A d \in Directory : page_directory_used[d] => page_directory_used'[d]
      /\ \A d \in Directory : d # dir => table'[d] = table[d]
      /\ table'[dir][KERNEL_ENTRY] = KernelFrame
      /\ \A page \in Page : page # KERNEL_ENTRY => table'[dir][page] = NotPresent
      /\ UNCHANGED <<free_page_frame_count, cr3>>
    BY <1>1, <1>5, PagingAssumption
    DEF paging_create_new_page_directory, MemoryInv, PagingTypeOK, EmptyTable,
        Page, PagingAssumption
<1>7. ProcessTypeOK'
    <2>1. creation' \in [p_index : Pcb, page_dir : Directory,
                         frames : 0 .. PROCESS_PAGE_FRAME_COUNT_MAX,
                         i : 0 .. PROCESS_PAGE_FRAME_COUNT_MAX,
                         old_page_dir : Directory \cup {God_PageDir}]
        BY <1>1, ProcessAssumption
        DEF MemoryInv, PagingTypeOK, ProcessAssumption
    <2>2. generation' \in [Pcb -> Nat]
        BY <1>1 DEF ProcessTypeOK
    <2>3. state' \in [Pcb -> {"UNUSED", "RUNNING"}]
        BY <1>1 DEF ProcessTypeOK
    <2> QED
        BY <1>1, <2>1, <2>2, <2>3 DEF ProcessTypeOK
<1>8. SchedulerTypeOK'
    BY DEF SchedulerTypeOK
<1>9. BootInv'
    BY <1>1 DEF BootInv
<1>10. CreationInv'
    <2>1. Running(slot)'
        BY <1>1 DEF Running, ProcessTypeOK
    <2>2. \A page \in Page : page < frames => page # KERNEL_ENTRY
        BY ProcessAssumption DEF ProcessAssumption, Page
    <2>3. frames \in Nat /\ frames >= 1
        OBVIOUS
    <2> QED
        BY <1>1, <1>2, <1>6, <2>1, <2>2, <2>3 DEF CreationInv
<1>11. \A other \in Pcb : Finished(other)' =>
          Finished(other) /\ other # slot /\ page_dir'[other] = page_dir[other]
    BY <1>1, <1>2 DEF Finished, Running, ProcessTypeOK
<1>12. DirectoryInv'
    <2>1. ASSUME NEW other \in Pcb, Finished(other)'
          PROVE  /\ page_dir[other] \in Directory
                 /\ page_dir[other] # dir
                 /\ page_directory_used'[page_dir[other]]
                 /\ table'[page_dir[other]][KERNEL_ENTRY] = KernelFrame
                 /\ table'[page_dir[other]][0] # NotPresent
        BY <1>4, <1>6, <1>11, <2>1 DEF DirectoryInv
    <2> QED
        BY <1>2, <1>11, <2>1 DEF DirectoryInv
<1>13. GenerationInv'
    <2>1. \A other \in Pcb : generation[other] <= generation'[other]
        BY <1>1 DEF ProcessTypeOK
    <2>2. /\ current' = current
          /\ current \in Pcb
          /\ UNCHANGED <<context, cpu>>
        BY <1>1 DEF current, SchedulerTypeOK, Pcb
    <2>3. /\ cpu.generation \in Nat
          /\ \A other \in Pcb : /\ context[other].generation \in Nat
                                /\ generation[other] \in Nat
                                /\ generation'[other] \in Nat
        BY <1>7 DEF ProcessTypeOK, SchedulerTypeOK, Thread
    <2> QED
        BY <2>1, <2>2, <2>3 DEF GenerationInv
<1>14. ContextStaysInSlot'
    BY <1>1 DEF ContextStaysInSlot, current
<1>15. AddressSpaceInv'
    <2> SUFFICES ASSUME Running(current)',
                        cpu' = [slot |-> current, generation |-> generation[current]]'
                 PROVE  Finished(current)' /\ cr3' = page_dir'[current]
        BY DEF AddressSpaceInv, current
    <2>1. current \in Pcb /\ current' = current
        BY DEF current, SchedulerTypeOK, Pcb
    <2>2. cpu.generation = generation'[current]
        BY <2>1
    <2>3. current # slot
        BY <1>1, <2>1, <2>2 DEF GenerationInv, ProcessTypeOK
    <2>4. Running(current) /\ generation'[current] = generation[current]
        BY <1>1, <2>1, <2>3 DEF Running, ProcessTypeOK
    <2>5. pc = "user"
        BY <2>1, <2>4 DEF BootInv
    <2>6. cr3 = page_dir[current]
        BY <2>1, <2>4, <2>5 DEF AddressSpaceInv
    <2> QED
        BY <1>1, <1>2, <1>6, <2>1, <2>3, <2>6 DEF Finished
<1>16. WaitInv'
    <2>1. current \in Slot /\ current' = current
        BY DEF current, SchedulerTypeOK
    <2>2. \A other \in Slot : Distance(current, other) \in 1 .. PROCESS_COUNT_MAX
        BY <2>1, ProcessAssumption DEF Distance, Slot, ProcessAssumption
    <2>3. \A other \in Slot : Running(other)' => other = slot \/ Running(other)
        BY <1>1 DEF Running, ProcessTypeOK, Pcb
    <2>4. ASSUME NEW other \in Slot, Running(other)'
          PROVE  waited'[other] + Distance(current, other) <= PROCESS_COUNT_MAX
        BY <1>2, <2>2, <2>3, <2>4 DEF WaitInv
    <2> QED
        BY <2>1, <2>4 DEF WaitInv, Distance
<1> QED
    BY <1>3, <1>7, <1>8, <1>9, <1>10, <1>12, <1>13, <1>14, <1>15, <1>16

\* The allocation loop never meets a mapped page or an empty memory, so it never
\* takes its early return.
LEMMA AllocationSucceeds ==
    ASSUME IInv, pc = "allocate", creation.i < creation.frames
    PROVE  /\ creation.i \in Page \ {KERNEL_ENTRY}
           /\ creation.page_dir \in Directory
           /\ AllocateSucceeds(creation.page_dir, creation.i)
<1> USE DEF IInv, ProcessInv
<1>1. /\ creation.page_dir \in Directory
      /\ creation.frames \in 0 .. PROCESS_PAGE_FRAME_COUNT_MAX
      /\ creation.i \in 0 .. PROCESS_PAGE_FRAME_COUNT_MAX
    BY DEF ProcessTypeOK
<1>2. creation.i \in Page \ {KERNEL_ENTRY}
    BY <1>1, PagingAssumption, ProcessAssumption
    DEF PagingAssumption, ProcessAssumption, Page
<1>3. table[creation.page_dir][creation.i] = NotPresent
    BY <1>1, <1>2 DEF CreationInv
<1>4. free_page_frame_count # 0
    BY <1>1, ProcessAssumption
    DEF CreationInv, MemoryInv, PagingTypeOK, ProcessAssumption
<1>5. FreeFrame # {}
    BY <1>4, FreeFrameExists DEF MemoryInv
<1> QED
    BY <1>1, <1>2, <1>3, <1>5 DEF AllocateSucceeds

\* One turn of the allocation loop.
LEMMA AllocateFrameInv ==
    ASSUME IInv, AllocateFrame, UNCHANGED schedulerVars
    PROVE  IInv'
<1> USE DEF IInv, ProcessInv
<1> DEFINE dir == creation.page_dir
           page == creation.i
<1>1. /\ pc = "allocate"
      /\ page < creation.frames
    BY DEF AllocateFrame
<1>2. /\ page \in Page \ {KERNEL_ENTRY}
      /\ dir \in Directory
      /\ AllocateSucceeds(dir, page)
    BY <1>1, AllocationSucceeds
<1>3. /\ paging_allocate_user_page_frame(dir, page)
      /\ creation' = [creation EXCEPT !.i = page + 1]
      /\ UNCHANGED <<pc, state, page_dir, generation, context>>
      /\ UNCHANGED <<a_certain_magical_index, cpu, waited>>
    BY <1>2 DEF AllocateFrame, schedulerVars
<1>4. page_directory_used[dir]
    BY <1>1 DEF CreationInv
<1>5. MemoryInv' /\ free_page_frame_count' = free_page_frame_count - 1
    BY <1>2, <1>3, <1>4, AllocateKeepsMemory
<1>6. PICK frame \in Frame :
          /\ table' = [table EXCEPT ![dir][page] = frame]
          /\ UNCHANGED <<page_directory_used, cr3>>
    BY <1>3 DEF paging_allocate_user_page_frame
<1>7. frame # NotPresent
    BY DEF Frame, NotPresent
<1>8. /\ \A d \in Directory, p \in Page :
            table'[d][p] = IF d = dir /\ p = page THEN frame ELSE table[d][p]
      /\ \A d \in Directory, p \in Page :
            table[d][p] # NotPresent => table'[d][p] # NotPresent
    BY <1>2, <1>6, <1>7 DEF MemoryInv, PagingTypeOK
<1>9. /\ creation'.p_index = creation.p_index
      /\ creation'.page_dir = dir
      /\ creation'.frames = creation.frames
      /\ creation'.i = page + 1
      /\ creation'.old_page_dir = creation.old_page_dir
    BY <1>3 DEF ProcessTypeOK
<1>10. KERNEL_ENTRY \in Page /\ 0 \in Page
    BY PagingAssumption DEF PagingAssumption, Page
<1>11. ProcessTypeOK'
    <2>1. /\ creation.frames \in 0 .. PROCESS_PAGE_FRAME_COUNT_MAX
          /\ page \in 0 .. PROCESS_PAGE_FRAME_COUNT_MAX
        BY DEF ProcessTypeOK
    <2>2. page + 1 \in 0 .. PROCESS_PAGE_FRAME_COUNT_MAX
        BY <1>1, <2>1, ProcessAssumption DEF ProcessAssumption
    <2> QED
        BY <1>3, <2>2 DEF ProcessTypeOK
<1>12. SchedulerTypeOK' /\ ContextStaysInSlot'
    BY <1>3 DEF SchedulerTypeOK, ContextStaysInSlot, current
<1>13. BootInv'
    BY <1>1, <1>3 DEF BootInv
<1>14. CreationInv'
    <2>1. /\ page \in Nat
          /\ creation.frames \in Nat
          /\ free_page_frame_count \in Nat
          /\ Page \subseteq Nat
        BY DEF ProcessTypeOK, MemoryInv, PagingTypeOK, Page
    <2>2. /\ creation'.i <= creation'.frames
          /\ creation'.frames >= 1
          /\ creation'.frames - creation'.i <= free_page_frame_count'
        BY <1>1, <1>5, <1>9, <2>1 DEF CreationInv
    <2>3. table'[dir][0] # NotPresent
        <3>1. CASE page = 0
            BY <1>7, <1>8, <1>10, <1>2, <3>1
        <3>2. CASE page >= 1
            BY <1>1, <1>2, <1>8, <1>10, <3>2 DEF CreationInv
        <3> QED
            BY <2>1, <3>1, <3>2
    <2>4. \A p \in Page : creation'.i <= p /\ p < creation'.frames
              => table'[dir][p] = NotPresent
        BY <1>1, <1>2, <1>8, <1>9, <2>1 DEF CreationInv
    <2>5. table'[dir][KERNEL_ENTRY] = KernelFrame
        BY <1>1, <1>2, <1>8, <1>10 DEF CreationInv
    <2>6. Running(creation.p_index)'
        BY <1>1, <1>3, <1>9 DEF CreationInv, Running
    <2> QED
        BY <1>1, <1>4, <1>6, <1>9, <2>2, <2>3, <2>4, <2>5, <2>6
        DEF CreationInv, Running
<1>15. \A slot \in Pcb : Finished(slot)' <=> Finished(slot)
    BY <1>3, <1>9 DEF Finished, Running
<1>16. DirectoryInv'
    BY <1>1, <1>2, <1>3, <1>6, <1>8, <1>9, <1>10, <1>15 DEF DirectoryInv
<1>17. GenerationInv'
    BY <1>3 DEF GenerationInv, current
<1>18. AddressSpaceInv'
    BY <1>3, <1>6, <1>9 DEF AddressSpaceInv, current, Running, Finished
<1>19. WaitInv'
    BY <1>3 DEF WaitInv, Running, Distance, current
<1> QED
    BY <1>5, <1>11, <1>12, <1>13, <1>14, <1>16, <1>17, <1>18, <1>19

\* The end of a creation.
LEMMA LoadProgramInv ==
    ASSUME IInv, LoadProgram, UNCHANGED schedulerVars
    PROVE  IInv'
<1> USE DEF IInv, ProcessInv
<1> DEFINE slot == creation.p_index
           dir == creation.page_dir
<1>1. /\ pc = "allocate"
      /\ creation.i = creation.frames
      /\ cr3' = creation.old_page_dir
      /\ page_dir' = [page_dir EXCEPT ![slot] = dir]
      /\ pc' \in {"enter", "user"}
      /\ creation' = NoCreation
      /\ UNCHANGED <<page_frame_map, free_page_frame_count,
                     page_directory_used, table, state, generation, context>>
      /\ UNCHANGED <<a_certain_magical_index, cpu, waited>>
    BY DEF LoadProgram, paging_use_page_directory, ReturnPoint, schedulerVars
<1>2. slot \in Pcb /\ dir \in Directory /\ cr3' = cr3
    BY <1>1 DEF ProcessTypeOK, CreationInv
<1>3. MemoryInv'
    BY <1>1, <1>2, SwitchKeepsMemory DEF MemoryInv, PagingTypeOK
<1>4. ProcessTypeOK'
    <2>1. NoCreation \in [p_index : Pcb, page_dir : Directory,
                          frames : 0 .. PROCESS_PAGE_FRAME_COUNT_MAX,
                          i : 0 .. PROCESS_PAGE_FRAME_COUNT_MAX,
                          old_page_dir : Directory \cup {God_PageDir}]
        <3>1. 0 \in Pcb /\ 0 \in Directory /\ 0 \in 0 .. PROCESS_PAGE_FRAME_COUNT_MAX
            BY PagingAssumption, ProcessAssumption
            DEF PagingAssumption, ProcessAssumption, Pcb, Slot, Directory
        <3> QED
            BY <3>1 DEF NoCreation
    <2> QED
        BY <1>1, <1>2, <2>1 DEF ProcessTypeOK
<1>5. SchedulerTypeOK' /\ ContextStaysInSlot' /\ GenerationInv'
    BY <1>1 DEF SchedulerTypeOK, ContextStaysInSlot, GenerationInv, current
<1>6. BootInv' /\ CreationInv'
    BY <1>1 DEF BootInv, CreationInv
<1>7. \A other \in Pcb :
          /\ Finished(other)' <=> other = slot \/ Finished(other)
          /\ ~(other = slot /\ Finished(other))
          /\ page_dir'[other] = IF other = slot THEN dir ELSE page_dir[other]
    BY <1>1, <1>2 DEF Finished, Running, CreationInv, ProcessTypeOK
<1>8. DirectoryInv'
    <2>1. creation.i >= 1
        BY <1>1 DEF CreationInv
    <2>2. /\ page_directory_used[dir]
          /\ table[dir][KERNEL_ENTRY] = KernelFrame
          /\ table[dir][0] # NotPresent
        BY <1>1, <2>1 DEF CreationInv
    <2>3. \A other \in Pcb : Finished(other) => page_dir[other] # dir
        BY <1>1 DEF DirectoryInv
    <2> QED
        BY <1>1, <1>2, <1>7, <2>2, <2>3 DEF DirectoryInv
<1>9. AddressSpaceInv'
    <2>1. current \in Pcb
        BY DEF current, SchedulerTypeOK, Pcb
    <2> QED
        BY <1>1, <1>2, <1>7, <2>1 DEF AddressSpaceInv, current, Running
<1>10. WaitInv'
    BY <1>1 DEF WaitInv, Running, Distance, current
<1> QED
    BY <1>3, <1>4, <1>5, <1>6, <1>8, <1>9, <1>10

\* Entering the shell.
LEMMA SchedulerInitInv ==
    ASSUME IInv, scheduler_init
    PROVE  IInv'
<1> USE DEF IInv, ProcessInv
<1>1. /\ pc = "enter" /\ pc' = "user"
      /\ cr3' = page_dir[current]
      /\ cpu' = Resumed(current, context[current])
      /\ UNCHANGED <<page_frame_map, free_page_frame_count,
                     page_directory_used, table, state, page_dir, generation,
                     context, creation, a_certain_magical_index, waited>>
    BY DEF scheduler_init, paging_use_page_directory
<1>2. current \in Pcb /\ current' = current
    BY <1>1 DEF current, SchedulerTypeOK, Pcb
<1>3. MemoryInv'
    BY <1>1, <1>2, SwitchKeepsMemory DEF ProcessTypeOK
<1>4. ProcessTypeOK'
    BY <1>1 DEF ProcessTypeOK
<1>5. /\ cpu' \in Thread
      /\ cpu'.slot = current
      /\ cpu'.generation <= generation[current]
    BY <1>1, <1>2
    DEF Resumed, Thread, ProcessTypeOK, ContextStaysInSlot, GenerationInv
<1>6. SchedulerTypeOK' /\ ContextStaysInSlot' /\ GenerationInv'
    BY <1>1, <1>2, <1>5
    DEF SchedulerTypeOK, ContextStaysInSlot, GenerationInv
<1>7. BootInv' /\ CreationInv'
    BY <1>1 DEF BootInv, CreationInv
<1>8. \A slot \in Pcb :
          (Finished(slot)' <=> Finished(slot)) /\ (Running(slot)' <=> Running(slot))
    BY <1>1 DEF Finished, Running
<1>9. DirectoryInv'
    BY <1>1, <1>8 DEF DirectoryInv
<1>10. AddressSpaceInv'
    BY <1>1, <1>2 DEF AddressSpaceInv, Finished
<1>11. WaitInv'
    BY <1>1, <1>2 DEF WaitInv, Running, Distance
<1> QED
    BY <1>3, <1>4, <1>6, <1>7, <1>9, <1>10, <1>11

\* The context switch.
LEMMA SwitchInv ==
    ASSUME IInv, scheduler_switch_to_next_process
    PROVE  IInv'
<1> USE DEF IInv, ProcessInv
<1>1. PICK slot \in Slot :
          /\ NextSlot(slot)
          /\ SwitchTo(slot)
          /\ waited' = [other \in Slot |->
                IF other # slot /\ other \in Runnable THEN OneMore(waited[other])
                                                      ELSE 0]
    BY DEF scheduler_switch_to_next_process
<1>2. /\ pc = "user"
      /\ UNCHANGED <<page_frame_map, free_page_frame_count,
                     page_directory_used, table, state, page_dir, generation,
                     pc, creation>>
    BY DEF scheduler_switch_to_next_process
<1>3. /\ current' = slot
      /\ cr3' = page_dir[slot]
      /\ context' = [context EXCEPT ![current] = cpu]
      /\ cpu' = Resumed(slot, context'[slot])
    BY <1>1 DEF SwitchTo, current, paging_use_page_directory
<1>4. /\ slot \in Pcb
      /\ current \in Slot
      /\ current \in Pcb
    BY DEF Pcb, current, SchedulerTypeOK
<1>5. MemoryInv'
    BY <1>2, <1>3, <1>4, SwitchKeepsMemory DEF ProcessTypeOK
<1>6. context' \in [Pcb -> Thread]
    BY <1>3 DEF ProcessTypeOK, SchedulerTypeOK
<1>7. ProcessTypeOK'
    BY <1>2, <1>6 DEF ProcessTypeOK
<1>8. /\ \A other \in Pcb : context'[other].slot = other
      /\ \A other \in Pcb : context'[other].generation <= generation[other]
    BY <1>3, <1>4 DEF ContextStaysInSlot, GenerationInv, ProcessTypeOK
<1>9. /\ cpu' \in Thread
      /\ cpu'.slot = slot
      /\ cpu'.generation <= generation[slot]
    BY <1>3, <1>4, <1>6, <1>8 DEF Resumed, Thread, ProcessTypeOK
<1>10. waited' \in [Slot -> Nat]
    BY <1>1 DEF SchedulerTypeOK, OneMore
<1>11. SchedulerTypeOK'
    BY <1>3, <1>9, <1>10 DEF SchedulerTypeOK, current
<1>12. ContextStaysInSlot' /\ GenerationInv'
    BY <1>2, <1>3, <1>8, <1>9 DEF ContextStaysInSlot, GenerationInv
<1>13. BootInv' /\ CreationInv'
    BY <1>2 DEF BootInv, CreationInv
<1>14. \A other \in Pcb :
          (Finished(other)' <=> Finished(other))
          /\ (Running(other)' <=> Running(other))
    BY <1>2 DEF Finished, Running
<1>15. DirectoryInv'
    BY <1>2, <1>14 DEF DirectoryInv
<1>16. AddressSpaceInv'
    BY <1>2, <1>3 DEF AddressSpaceInv, Finished
<1>17. WaitInv'
    <2> SUFFICES ASSUME NEW other \in Slot, Running(other)
                 PROVE  waited'[other] + Distance(slot, other)
                            <= PROCESS_COUNT_MAX
        BY <1>3, <1>4, <1>14 DEF WaitInv, Distance, Pcb
    <2>1. /\ PROCESS_COUNT_MAX \in Nat
          /\ Slot \subseteq 0 .. (PROCESS_COUNT_MAX - 1)
        BY ProcessAssumption DEF Slot, ProcessAssumption
    <2>2. Distance(slot, other) \in 1 .. PROCESS_COUNT_MAX
        BY <2>1 DEF Distance
    <2>3. CASE other = slot
        BY <1>1, <2>1, <2>2, <2>3
    <2>4. CASE other # slot
        <3>1. other \in Runnable
            BY DEF Runnable, Running
        <3>2. /\ waited'[other] \in {waited[other], waited[other] + 1}
              /\ waited[other] \in Nat
            BY <1>1, <2>4, <3>1 DEF SchedulerTypeOK, OneMore
        <3>3. Distance(current, slot) <= Distance(current, other)
            BY <1>1, <3>1 DEF NextSlot
        <3>4. Distance(slot, other) < Distance(current, other)
            BY <1>4, <2>1, <2>4, <3>3 DEF Distance
        <3>5. waited[other] + Distance(current, other) <= PROCESS_COUNT_MAX
            BY DEF WaitInv
        <3>6. Distance(current, other) \in Nat
            BY <1>4, <2>1 DEF Distance
        <3> QED
            BY <2>1, <2>2, <3>2, <3>4, <3>5, <3>6
    <2> QED
        BY <2>3, <2>4
<1> QED
    BY <1>5, <1>7, <1>11, <1>12, <1>13, <1>15, <1>16, <1>17

\* The search that never ends.
LEMMA SpinInv ==
    ASSUME IInv, SchedulerSpins
    PROVE  IInv'
<1> USE DEF IInv, ProcessInv
<1>1. /\ pc = "user" /\ pc' = "spin"
      /\ UNCHANGED <<page_frame_map, free_page_frame_count,
                     page_directory_used, table, cr3>>
      /\ UNCHANGED <<state, page_dir, generation, context, creation>>
      /\ UNCHANGED <<a_certain_magical_index, cpu, waited>>
    BY DEF SchedulerSpins, pagingVars, schedulerVars
<1>2. MemoryInv'
    BY <1>1, SwitchKeepsMemory DEF MemoryInv, PagingTypeOK
<1>3. /\ ProcessTypeOK'
      /\ SchedulerTypeOK'
      /\ ContextStaysInSlot'
      /\ GenerationInv'
    BY <1>1 DEF ProcessTypeOK, SchedulerTypeOK, ContextStaysInSlot,
                GenerationInv, current
<1>4. BootInv' /\ CreationInv' /\ AddressSpaceInv'
    BY <1>1 DEF BootInv, CreationInv, AddressSpaceInv
<1>5. DirectoryInv' /\ WaitInv'
    BY <1>1 DEF DirectoryInv, WaitInv, Finished, Running, Distance, current
<1> QED
    BY <1>2, <1>3, <1>4, <1>5

\* Killing a process.
LEMMA KillInv ==
    ASSUME IInv, Kill
    PROVE  IInv'
<1> USE DEF IInv, ProcessInv
<1>1. PICK slot \in Pcb : process_omae_wa_mou_shindeiru(slot)
    BY DEF Kill
<1>2. pc = "user" /\ UNCHANGED <<a_certain_magical_index, cpu, waited>>
    BY DEF Kill, schedulerVars
<1>3. CASE state[slot] = "UNUSED"
    <2>1. UNCHANGED vars
        BY <1>1, <1>2, <1>3
        DEF process_omae_wa_mou_shindeiru, vars, schedulerVars
    <2>2. UNCHANGED <<page_frame_map, free_page_frame_count,
                      page_directory_used, table, cr3, state, page_dir,
                      generation, context, pc, creation,
                      a_certain_magical_index, cpu, waited>>
        BY <2>1 DEF vars, pagingVars, processVars, schedulerVars
    <2>3. MemoryInv'
        BY <2>2, SwitchKeepsMemory DEF MemoryInv, PagingTypeOK
    <2>4. ProcessInv'
        BY <2>2
        DEF ProcessTypeOK, SchedulerTypeOK, BootInv, CreationInv, DirectoryInv,
            GenerationInv, ContextStaysInSlot, AddressSpaceInv, WaitInv,
            Finished, Running, Distance, current
    <2> QED
        BY <2>3, <2>4
<1>4. CASE state[slot] # "UNUSED"
    <2> DEFINE dir == page_dir[slot]
    <2>1. /\ state' = [state EXCEPT ![slot] = "UNUSED"]
          /\ paging_free_page_directory(dir)
          /\ UNCHANGED <<page_dir, generation, context, pc, creation>>
        BY <1>1, <1>4 DEF process_omae_wa_mou_shindeiru
    <2>2. Finished(slot)
        BY <1>2, <1>4 DEF Finished, Running, ProcessTypeOK
    <2>3. dir \in Directory
        BY <2>2 DEF DirectoryInv
    <2>4. MemoryInv'
        BY <2>1, <2>3, FreeDirectoryKeepsMemory
    <2>5. /\ \A d \in Directory : d # dir =>
                table'[d] = table[d]
                /\ page_directory_used'[d] = page_directory_used[d]
          /\ cr3' = cr3
        BY <2>1 DEF paging_free_page_directory, MemoryInv, PagingTypeOK
    <2>6. \A other \in Pcb :
              /\ Running(other)' <=> Running(other) /\ other # slot
              /\ Finished(other)' <=> Finished(other) /\ other # slot
        BY <1>2, <2>1 DEF Finished, Running, ProcessTypeOK
    <2>7. ProcessTypeOK'
        BY <2>1 DEF ProcessTypeOK
    <2>8. SchedulerTypeOK' /\ ContextStaysInSlot' /\ GenerationInv'
        BY <1>2, <2>1
        DEF SchedulerTypeOK, ContextStaysInSlot, GenerationInv, current
    <2>9. BootInv' /\ CreationInv'
        BY <1>2, <2>1 DEF BootInv, CreationInv
    <2>10. \A other \in Pcb :
              Finished(other)' => page_dir'[other] # dir /\ page_dir'[other] = page_dir[other]
        BY <2>1, <2>2, <2>6 DEF DirectoryInv
    <2>11. DirectoryInv'
        BY <1>2, <2>1, <2>5, <2>6, <2>10 DEF DirectoryInv
    <2>12. current \in Pcb /\ current' = current
        BY <1>2 DEF current, SchedulerTypeOK, Pcb
    <2>13. AddressSpaceInv'
        BY <1>2, <2>1, <2>5, <2>6, <2>12 DEF AddressSpaceInv
    <2>14. WaitInv'
        BY <1>2, <2>6, <2>12 DEF WaitInv, Distance, Pcb
    <2> QED
        BY <2>4, <2>7, <2>8, <2>9, <2>11, <2>13, <2>14
<1> QED
    BY <1>3, <1>4

-----------------------------------------------------------------------------

\* A step that changes nothing.
LEMMA StutterInv ==
    ASSUME IInv, UNCHANGED vars
    PROVE  IInv'
<1> USE DEF IInv, ProcessInv
<1>1. UNCHANGED <<page_frame_map, free_page_frame_count, page_directory_used,
                  table, cr3, state, page_dir, generation, context, pc,
                  creation, a_certain_magical_index, cpu, waited>>
    BY DEF vars, pagingVars, processVars, schedulerVars
<1>2. MemoryInv'
    BY <1>1, SwitchKeepsMemory DEF MemoryInv, PagingTypeOK
<1>3. ProcessInv'
    BY <1>1
    DEF ProcessTypeOK, SchedulerTypeOK, BootInv, CreationInv, DirectoryInv,
        GenerationInv, ContextStaysInSlot, AddressSpaceInv, WaitInv, Finished,
        Running, Distance, current
<1> QED
    BY <1>2, <1>3

\* Every step of the kernel keeps the invariant.
LEMMA NextInv ==
    ASSUME IInv, [Next]_vars
    PROVE  IInv'
<1>1. CASE BootShell
    <2>1. /\ pc = "boot"
          /\ BeginCreation(ShellFrames)
          /\ UNCHANGED <<a_certain_magical_index, cpu, waited>>
        BY <1>1 DEF BootShell, schedulerVars
    <2>2. /\ ShellFrames \in 1 .. PROCESS_PAGE_FRAME_COUNT_MAX
          /\ ShellFrames <= free_page_frame_count
        BY <2>1, ShellFits, ProcessAssumption, PagingAssumption
        DEF IInv, ProcessInv, BootInv, ShellFits, ProcessAssumption,
            PagingAssumption, ShellFrames
    <2>3. /\ waited' \in [Slot -> Nat]
          /\ \A slot \in Slot : waited[slot] = 0 /\ waited'[slot] = 0
        BY <2>1 DEF IInv, ProcessInv, SchedulerTypeOK, BootInv
    <2> QED
        BY <2>1, <2>2, <2>3, BeginCreationInv
<1>2. CASE Create
    BY <1>2, AllocateFrameInv, LoadProgramInv DEF Create
<1>3. CASE scheduler_init
    BY <1>3, SchedulerInitInv
<1>4. CASE scheduler_switch_to_next_process
    BY <1>4, SwitchInv
<1>5. CASE SchedulerSpins
    BY <1>5, SpinInv
<1>6. CASE Exec
    <2>1. CASE HasRoom(ExecFrames)
        <3>1. /\ pc = "user"
              /\ BeginCreation(ExecFrames)
              /\ waited' = [slot \in Slot |->
                    IF slot = creation'.p_index THEN 0 ELSE waited[slot]]
              /\ UNCHANGED <<a_certain_magical_index, cpu>>
            BY <1>6, <2>1 DEF Exec
        <3>2. /\ ExecFrames \in 1 .. PROCESS_PAGE_FRAME_COUNT_MAX
              /\ ExecFrames <= free_page_frame_count
            BY <2>1, ProcessAssumption, PagingAssumption
            DEF HasRoom, paging_allocate_check, ExecFrames, ProcessAssumption,
                PagingAssumption
        <3>3. /\ waited' \in [Slot -> Nat]
              /\ \A slot \in Slot :
                    IF slot = creation'.p_index THEN waited'[slot] = 0
                                                ELSE waited'[slot] = waited[slot]
            BY <3>1 DEF IInv, ProcessInv, SchedulerTypeOK
        <3> QED
            BY <3>1, <3>2, <3>3, BeginCreationInv
    <2>2. CASE ~HasRoom(ExecFrames)
        BY <1>6, <2>2, StutterInv DEF Exec
    <2> QED
        BY <2>1, <2>2
<1>7. CASE Kill
    BY <1>7, KillInv
<1>8. CASE UNCHANGED vars
    BY <1>8, StutterInv
<1> QED
    BY <1>1, <1>2, <1>3, <1>4, <1>5, <1>6, <1>7, <1>8 DEF Next

\* The inductive invariant holds in every reachable state.
THEOREM Inductive == Spec => []IInv
<1>1. Init => IInv
    BY InitInv
<1>2. IInv /\ [Next]_vars => IInv'
    BY NextInv
<1> QED
    BY <1>1, <1>2, PTL DEF Spec

\* Every variable keeps its type; in particular the free-frame counter, unsigned in
\* the code, never wraps below 0.
THEOREM TypeCorrect == Spec => []TypeOK
<1>1. IInv => TypeOK
    BY DEF IInv, ProcessInv, MemoryInv, TypeOK
<1> QED
    BY <1>1, Inductive, PTL

\* No frame is ever given to two pages, and the kernel's to none.
THEOREM Isolation == Spec => []FrameIsolation
<1>1. IInv => FrameIsolation
    BY DEF IInv, MemoryInv
<1> QED
    BY <1>1, Inductive, PTL

\* The free-frame counter is always the number of free frames.
THEOREM Accounting == Spec => []FrameAccounting
<1>1. IInv => FrameAccounting
    BY DEF IInv, MemoryInv
<1> QED
    BY <1>1, Inductive, PTL

\* A directory in the pool maps nothing.
THEOREM NoResidue == Spec => []UnusedIsEmpty
<1>1. IInv => UnusedIsEmpty
    BY DEF IInv, MemoryInv
<1> QED
    BY <1>1, Inductive, PTL

\* Every RUNNING process is completely built whenever a user program runs: the
\* early return of the allocation loop is dead code.
THEOREM CreationIsAtomic == Spec => []RunningIsComplete
<1>1. IInv => RunningIsComplete
    BY DEF IInv, ProcessInv, DirectoryInv, RunningIsComplete, Finished
<1> QED
    BY <1>1, Inductive, PTL

\* No two RUNNING processes share a directory.
THEOREM DirectoriesArePrivate == Spec => []PrivateDirectories
<1>1. IInv => PrivateDirectories
    BY DEF IInv, ProcessInv, DirectoryInv, PrivateDirectories, Finished
<1> QED
    BY <1>1, Inductive, PTL

\* A RUNNING process executes in its own directory.
THEOREM OwnAddressSpace == Spec => []RunsInOwnAddressSpace
<1>1. IInv => RunsInOwnAddressSpace
    BY DEF IInv, ProcessInv, AddressSpaceInv, RunsInOwnAddressSpace
<1> QED
    BY <1>1, Inductive, PTL

\* Saved registers never migrate to another slot.
THEOREM RegistersStay == Spec => []ContextStaysInSlot
<1>1. IInv => ContextStaysInSlot
    BY DEF IInv, ProcessInv
<1> QED
    BY <1>1, Inductive, PTL

\* Round robin for any number of slots: a RUNNING process sits out fewer switches
\* than there are slots.
THEOREM RoundRobin == Spec => []BoundedWait
<1>1. IInv => BoundedWait
    <2> SUFFICES ASSUME IInv, NEW slot \in Slot, Running(slot)
                 PROVE  waited[slot] < PROCESS_COUNT_MAX
        BY DEF BoundedWait
    <2>1. /\ waited[slot] \in Nat
          /\ current \in Slot
        BY DEF IInv, ProcessInv, SchedulerTypeOK, current
    <2>2. Distance(current, slot) \in Nat \ {0}
        BY <2>1, ProcessAssumption DEF Distance, Slot, ProcessAssumption
    <2>3. waited[slot] + Distance(current, slot) <= PROCESS_COUNT_MAX
        BY DEF IInv, ProcessInv, WaitInv
    <2> QED
        BY <2>1, <2>2, <2>3, ProcessAssumption DEF ProcessAssumption
<1> QED
    BY <1>1, Inductive, PTL

-----------------------------------------------------------------------------
(***************************************************************************)
(* Scheduler implements ProcessTable.  The refinement mapping shows a      *)
(* process's memory from the moment its creation is over; IInv says that   *)
(* no directory is shared until then and after.                            *)
(***************************************************************************)

mappedMemory == [slot \in Slot |-> Memory(slot)]

\* Every process has memory, none the kernel's, and none that of another.
PrivateMemory ==
    \A slot \in Pcb :
        /\ Finished(slot) => Memory(slot) # {}
        /\ \A frame \in Memory(slot) :
              /\ frame \in Frame \ {KernelFrame}
              /\ \A other \in Pcb : other # slot => frame \notin Memory(other)

\* Slots whose processes stay what they are keep their memory.
LEMMA SameMemory ==
    ASSUME NEW slot,
           Finished(slot)' <=> Finished(slot),
           Finished(slot) => page_dir'[slot] = page_dir[slot],
           Finished(slot) => table'[page_dir[slot]] = table[page_dir[slot]]
    PROVE  Memory(slot)' = Memory(slot)
BY DEF Memory, UserEntry

\* A process whose first page is mapped has memory.
LEMMA ProcessHasMemory ==
    ASSUME IInv, NEW slot \in Pcb, Finished(slot)
    PROVE  Memory(slot) # {}
<1>1. 0 \in Page /\ KERNEL_ENTRY # 0
    BY PagingAssumption, ProcessAssumption
    DEF PagingAssumption, ProcessAssumption, Page
<1>2. table[page_dir[slot]][0] # NotPresent
    BY DEF IInv, ProcessInv, DirectoryInv
<1>3. table[page_dir[slot]][0] \in Memory(slot)
    BY <1>1, <1>2 DEF Memory, UserEntry
<1> QED
    BY <1>3

\* No process has the kernel's frame, and none a frame of another.
LEMMA FramesArePrivate ==
    ASSUME IInv, NEW slot \in Pcb, NEW frame \in Memory(slot)
    PROVE  /\ frame \in Frame \ {KernelFrame}
           /\ \A other \in Pcb : other # slot => frame \notin Memory(other)
<1>1. PICK page \in Page :
          UserEntry(page_dir[slot], page) /\ frame = table[page_dir[slot]][page]
    BY DEF Memory
<1>2. Finished(slot) /\ page_dir[slot] \in Directory
    BY DEF Memory, IInv, ProcessInv, DirectoryInv
<1>3. frame \in Frame \ {KernelFrame}
    BY <1>1, <1>2 DEF IInv, MemoryInv, PagingTypeOK, FrameIsolation, UserEntry
<1>4. ASSUME NEW other \in Pcb, other # slot, frame \in Memory(other)
      PROVE  FALSE
    <2>1. PICK p \in Page :
              UserEntry(page_dir[other], p) /\ frame = table[page_dir[other]][p]
        BY <1>4 DEF Memory
    <2>2. Finished(other) /\ page_dir[other] \in Directory
        BY <1>4 DEF Memory, IInv, ProcessInv, DirectoryInv
    <2>3. page_dir[other] = page_dir[slot]
        BY <1>1, <1>2, <2>1, <2>2 DEF IInv, MemoryInv, FrameIsolation
    <2> QED
        BY <1>2, <1>4, <2>2, <2>3 DEF IInv, ProcessInv, DirectoryInv
<1> QED
    BY <1>3, <1>4

\* The invariant of Scheduler says so.
LEMMA MemoryIsPrivate ==
    ASSUME IInv
    PROVE  PrivateMemory
BY ProcessHasMemory, FramesArePrivate DEF PrivateMemory

-----------------------------------------------------------------------------

\* At boot the table is empty.
LEMMA InitImplements ==
    ASSUME Init
    PROVE  Table!Init
<1>1. \A slot \in Slot : Memory(slot) = {}
    BY DEF Init, ProcessInit, Memory, Finished, Running, Pcb
<1>2. current \in Slot
    BY ProcessAssumption DEF Init, current, Slot, ProcessAssumption
<1> QED
    BY <1>1, <1>2 DEF Table!Init

\* The beginning of a creation shows nothing yet.
LEMMA BeginCreationImplements ==
    ASSUME IInv, pc \in {"boot", "user"},
           NEW frames, BeginCreation(frames)
    PROVE  mappedMemory' = mappedMemory
<1>1. PICK slot \in Pcb, dir \in Directory :
          /\ process_list_get_inactive_index(slot)
          /\ paging_create_new_page_directory(dir)
          /\ state' = [state EXCEPT ![slot] = "RUNNING"]
          /\ pc' = "allocate"
          /\ creation' = [p_index |-> slot, page_dir |-> dir,
                          frames |-> frames, i |-> 0, old_page_dir |-> cr3]
          /\ UNCHANGED page_dir
    BY Zenon DEF BeginCreation
<1>2. ~page_directory_used[dir]
    BY <1>1 DEF paging_create_new_page_directory, FirstUnused, UnusedDirectory
<1>3. \A d \in Directory : d # dir => table'[d] = table[d]
    BY <1>1 DEF paging_create_new_page_directory, IInv, MemoryInv, PagingTypeOK
<1>4. ASSUME NEW other \in Slot
      PROVE  Memory(other)' = Memory(other)
    <2>1. other \in Pcb
        BY DEF Pcb
    <2>2. CASE other = slot
        <3>1. ~Finished(other)'
            BY <1>1, <2>2 DEF Finished
        <3>2. ~Finished(other)
            BY <1>1, <2>2, ProcessAssumption
            DEF process_list_get_inactive_index, Inactive, OverrunSlot, Slot,
                Finished, Running, ProcessAssumption
        <3> QED
            BY <3>1, <3>2 DEF Memory
    <2>3. CASE other # slot
        <3>1. Finished(other)' <=> Finished(other)
            BY <1>1, <2>1, <2>3
            DEF Finished, Running, IInv, ProcessInv, ProcessTypeOK
        <3>2. Finished(other) =>
                  page_dir[other] \in Directory /\ page_dir[other] # dir
            BY <1>2, <2>1 DEF IInv, ProcessInv, DirectoryInv
        <3> QED
            BY <1>1, <1>3, <3>1, <3>2, SameMemory
    <2> QED
        BY <2>2, <2>3
<1> QED
    BY <1>4 DEF mappedMemory

\* Neither does a turn of the allocation loop.
LEMMA AllocateFrameImplements ==
    ASSUME IInv, AllocateFrame
    PROVE  mappedMemory' = mappedMemory
<1> DEFINE dir == creation.page_dir
<1>1. pc = "allocate" /\ creation.i < creation.frames
    BY DEF AllocateFrame
<1>2. /\ dir \in Directory
      /\ AllocateSucceeds(dir, creation.i)
    BY <1>1, AllocationSucceeds
<1>3. /\ paging_allocate_user_page_frame(dir, creation.i)
      /\ creation' = [creation EXCEPT !.i = @ + 1]
      /\ UNCHANGED <<pc, state, page_dir>>
    BY <1>2 DEF AllocateFrame
<1>4. \A d \in Directory : d # dir => table'[d] = table[d]
    BY <1>3 DEF paging_allocate_user_page_frame, IInv, MemoryInv, PagingTypeOK
<1>5. creation'.p_index = creation.p_index
    BY <1>3 DEF IInv, ProcessInv, ProcessTypeOK
<1>6. ASSUME NEW other \in Slot
      PROVE  Memory(other)' = Memory(other)
    <2>1. Finished(other)' <=> Finished(other)
        BY <1>3, <1>5 DEF Finished, Running
    <2>2. Finished(other) =>
              page_dir[other] \in Directory /\ page_dir[other] # dir
        BY <1>1 DEF IInv, ProcessInv, DirectoryInv, Pcb
    <2> QED
        BY <1>3, <1>4, <2>1, <2>2, SameMemory
<1> QED
    BY <1>6 DEF mappedMemory

\* The end of a creation starts the process in its slot, unless that slot is
\* beyond the list.
LEMMA LoadProgramImplements ==
    ASSUME IInv, PrivateMemory', LoadProgram, UNCHANGED schedulerVars
    PROVE  Table!Next \/ mappedMemory' = mappedMemory
<1>0. PICK slot \in Pcb : slot = creation.p_index
    BY DEF IInv, ProcessInv, ProcessTypeOK
<1>1. /\ pc = "allocate" /\ pc' \in {"enter", "user"}
      /\ page_dir' = [page_dir EXCEPT ![slot] = creation.page_dir]
      /\ UNCHANGED <<table, state, a_certain_magical_index>>
    BY <1>0 DEF LoadProgram, ReturnPoint, schedulerVars
<1>2. Running(slot)
    BY <1>0, <1>1 DEF IInv, ProcessInv, CreationInv
<1>3. ~Finished(slot) /\ Finished(slot)'
    BY <1>0, <1>1, <1>2 DEF Finished, Running
<1>4. ASSUME NEW other \in Slot, other # slot
      PROVE  Memory(other)' = Memory(other)
    <2>1. Finished(other)' <=> Finished(other)
        BY <1>0, <1>1, <1>4 DEF Finished, Running
    <2>2. page_dir'[other] = page_dir[other]
        BY <1>1, <1>4 DEF IInv, ProcessInv, ProcessTypeOK, Pcb
    <2> QED
        BY <1>1, <2>1, <2>2, SameMemory
<1>5. CASE slot \notin Slot
    BY <1>4, <1>5 DEF mappedMemory
<1>6. CASE slot \in Slot
    <2> DEFINE frames == Memory(slot)'
    <2>1. Memory(slot) = {}
        BY <1>3 DEF Memory
    <2>2. frames # {}
        BY <1>3 DEF PrivateMemory
    <2>3. ASSUME NEW frame \in frames
          PROVE  /\ frame \in Frame \ {KernelFrame}
                 /\ \A other \in Slot : frame \notin Memory(other)
        <3>1. /\ frame \in Frame \ {KernelFrame}
              /\ \A other \in Pcb : other # slot => frame \notin Memory(other)'
            BY <2>3 DEF PrivateMemory
        <3> QED
            BY <1>4, <2>1, <3>1 DEF Pcb
    <2>4. mappedMemory' = [mappedMemory EXCEPT ![slot] = frames]
        BY <1>4, <1>6 DEF mappedMemory
    <2>5. frames \in (SUBSET Table!Free) \ {{}}
        BY <2>2, <2>3 DEF Table!Free
    <2>6. Table!Start(slot)
        BY <1>1, <1>6, <2>1, <2>4, <2>5 DEF Table!Start, mappedMemory, current
    <2> QED
        BY <1>6, <2>6 DEF Table!Next
<1> QED
    BY <1>5, <1>6

\* The context switch gives a process its turn.
LEMMA SwitchImplements ==
    ASSUME IInv, scheduler_switch_to_next_process
    PROVE  Table!Next
<1>1. PICK slot \in Slot : NextSlot(slot) /\ SwitchTo(slot)
    BY DEF scheduler_switch_to_next_process
<1>2. pc = "user" /\ UNCHANGED <<table, state, page_dir, pc, creation>>
    BY DEF scheduler_switch_to_next_process
<1>3. Finished(slot) /\ slot \in Pcb
    BY <1>1, <1>2 DEF NextSlot, Runnable, Finished, Running, Pcb
<1>4. Memory(slot) # {}
    BY <1>3, ProcessHasMemory
<1>5. mappedMemory' = mappedMemory
    BY <1>2 DEF mappedMemory, Memory, Finished, Running, UserEntry
<1>6. current' = slot
    BY <1>1 DEF SwitchTo, current
<1> QED
    BY <1>4, <1>5, <1>6 DEF Table!Next, Table!Switch, mappedMemory

\* A kill ends the process in its slot and leaves every other as it is.
LEMMA KillImplements ==
    ASSUME IInv, Kill
    PROVE  Table!Next \/ mappedMemory' = mappedMemory
<1>1. PICK slot \in Pcb : process_omae_wa_mou_shindeiru(slot)
    BY DEF Kill
<1>2. pc = "user" /\ UNCHANGED a_certain_magical_index
    BY DEF Kill, schedulerVars
<1>3. CASE state[slot] = "UNUSED"
    BY <1>1, <1>3
    DEF process_omae_wa_mou_shindeiru, pagingVars, processVars, mappedMemory,
        Memory, Finished, Running, UserEntry
<1>4. CASE state[slot] # "UNUSED"
    <2>1. /\ state' = [state EXCEPT ![slot] = "UNUSED"]
          /\ table' = [table EXCEPT ![page_dir[slot]] = EmptyTable]
          /\ UNCHANGED <<page_dir, pc, creation>>
        BY <1>1, <1>4
        DEF process_omae_wa_mou_shindeiru, paging_free_page_directory
    <2>2. Finished(slot)
        BY <1>2, <1>4 DEF Finished, Running, IInv, ProcessInv, ProcessTypeOK
    <2>3. ~Finished(slot)'
        BY <2>1 DEF Finished, Running, IInv, ProcessInv, ProcessTypeOK
    <2>4. ASSUME NEW other \in Slot, other # slot
          PROVE  Memory(other)' = Memory(other)
        <3>1. Finished(other)' <=> Finished(other)
            BY <2>1, <2>4 DEF Finished, Running, IInv, ProcessInv, ProcessTypeOK, Pcb
        <3>2. Finished(other) =>
                  page_dir[other] \in Directory /\ page_dir[other] # page_dir[slot]
            BY <2>2, <2>4 DEF IInv, ProcessInv, DirectoryInv, Pcb
        <3>3. Finished(other) => table'[page_dir[other]] = table[page_dir[other]]
            BY <2>1, <3>2 DEF IInv, MemoryInv, PagingTypeOK
        <3> QED
            BY <2>1, <3>1, <3>3, SameMemory
    <2>5. CASE slot \notin Slot
        BY <2>4, <2>5 DEF mappedMemory
    <2>6. CASE slot \in Slot
        <3>1. Memory(slot) # {} /\ Memory(slot)' = {}
            BY <2>2, <2>3, ProcessHasMemory DEF Memory
        <3>2. mappedMemory' = [mappedMemory EXCEPT ![slot] = {}]
            BY <2>4, <2>6, <3>1 DEF mappedMemory
        <3>3. Table!End(slot)
            BY <1>2, <2>6, <3>1, <3>2 DEF Table!End, mappedMemory, current
        <3> QED
            BY <2>6, <3>3 DEF Table!Next
    <2> QED
        BY <2>5, <2>6
<1> QED
    BY <1>3, <1>4

-----------------------------------------------------------------------------

\* Every step of the kernel is one of the table's or shows nothing.
LEMMA NextImplements ==
    ASSUME IInv, PrivateMemory', [Next]_vars
    PROVE  [Table!Next]_<<mappedMemory, current>>
<1>1. CASE BootShell
    BY <1>1, BeginCreationImplements DEF BootShell, schedulerVars, current
<1>2. CASE Create
    <2>1. UNCHANGED schedulerVars /\ current' = current
        BY <1>2 DEF Create, schedulerVars, current
    <2> QED
        BY <1>2, <2>1, AllocateFrameImplements, LoadProgramImplements DEF Create
<1>3. CASE scheduler_init
    BY <1>3
    DEF scheduler_init, mappedMemory, Memory, Finished, Running, UserEntry,
        current, IInv, ProcessInv
<1>4. CASE scheduler_switch_to_next_process
    BY <1>4, SwitchImplements
<1>5. CASE SchedulerSpins
    BY <1>5
    DEF SchedulerSpins, pagingVars, schedulerVars, mappedMemory, Memory,
        Finished, Running, UserEntry, current
<1>6. CASE Exec
    <2>1. CASE HasRoom(ExecFrames)
        BY <1>6, <2>1, BeginCreationImplements DEF Exec, current
    <2>2. CASE ~HasRoom(ExecFrames)
        BY <1>6, <2>2
        DEF Exec, vars, pagingVars, processVars, schedulerVars, mappedMemory,
            Memory, Finished, Running, UserEntry, current
    <2> QED
        BY <2>1, <2>2
<1>7. CASE Kill
    BY <1>7, KillImplements DEF Kill, schedulerVars, current
<1>8. CASE UNCHANGED vars
    BY <1>8
    DEF vars, pagingVars, processVars, schedulerVars, mappedMemory, Memory,
        Finished, Running, UserEntry, current
<1> QED
    BY <1>1, <1>2, <1>3, <1>4, <1>5, <1>6, <1>7, <1>8 DEF Next

\* The kernel's process management implements the table of processes.
THEOREM Implements == Spec => TableSpec
<1>1. Init => Table!Init
    BY InitImplements
<1>2. IInv => PrivateMemory
    BY MemoryIsPrivate
<1>3. IInv /\ PrivateMemory' /\ [Next]_vars
          => [Table!Next]_<<mappedMemory, current>>
    BY NextImplements
<1> QED
    BY <1>1, <1>2, <1>3, Inductive, PTL DEF Spec, TableSpec, Table!Spec, mappedMemory

=============================================================================
