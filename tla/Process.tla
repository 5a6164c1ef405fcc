------------------------------ MODULE Process -------------------------------
(***************************************************************************)
(* The process list of src/src/process/process.c: creating a process for a *)
(* program on disk and killing one.  Both run inside the kernel with       *)
(* interrupts masked (system calls come through an interrupt gate), so no  *)
(* other action interleaves with them; creation is nevertheless split at   *)
(* the loop that allocates its frames, because that loop has an early      *)
(* return that leaves the process half made.                               *)
(*                                                                         *)
(* A process image is abstracted to the number of its occupant: the n-th   *)
(* process created in a slot is generation n of that slot.  The saved      *)
(* instruction pointer (and, with it, the general registers) is abstracted *)
(* to the thread that was executing when it was saved; the zeroed          *)
(* registers of a slot nothing ever ran in are generation 0, the entry     *)
(* point.                                                                  *)
(***************************************************************************)
EXTENDS Paging

CONSTANTS PROCESS_COUNT_MAX,            \* slots of _process_list (16)
          PROCESS_PAGE_FRAME_COUNT_MAX  \* frames a process may ask for (8)

ASSUME ProcessAssumption ==
    /\ PROCESS_COUNT_MAX \in 1 .. 255
    /\ PROCESS_PAGE_FRAME_COUNT_MAX \in 2 .. KERNEL_ENTRY

Slot == 0 .. (PROCESS_COUNT_MAX - 1)

\* process_list_get_inactive_index returns -1 as a uint8_t; the element of the
\* list with this index lies beyond its end, in zeroed kernel memory.  What other
\* data the kernel keeps there is not said: the element is one of its own.
OverrunSlot == 255
Pcb == Slot \cup {OverrunSlot}

ShellFrames == 2    \* frames for kernel_setup's buffer_size of 0x100000
ExecFrames == 1     \* frames for system call 11's buffer_size of 0

VARIABLES state,       \* metadata.state of each slot
          page_dir,    \* context.page_dir of each slot
          generation,  \* how many processes were created in the slot
          context,     \* whose registers context.cpu and context.eip hold
          pc,          \* what the CPU is doing
          creation     \* the locals of let_there_be_a_new_process

processVars == <<state, page_dir, generation, context, pc, creation>>

NoCreation == [p_index |-> 0, page_dir |-> 0, frames |-> 0, i |-> 0,
               old_page_dir |-> God_PageDir]

Thread == [slot : Pcb, generation : Nat]

ProcessTypeOK ==
    /\ state \in [Pcb -> {"UNUSED", "RUNNING"}]
    /\ page_dir \in [Pcb -> Directory \cup {God_PageDir}]
    /\ generation \in [Pcb -> Nat]
    /\ context \in [Pcb -> Thread]
    /\ pc \in {"boot", "allocate", "enter", "user", "spin"}
    /\ creation \in [p_index : Pcb, page_dir : Directory,
                     frames : 0 .. PROCESS_PAGE_FRAME_COUNT_MAX,
                     i : 0 .. PROCESS_PAGE_FRAME_COUNT_MAX,
                     old_page_dir : Directory \cup {God_PageDir}]

\* initialize_process_list; the rest of the list is zeroed memory.
ProcessInit ==
    /\ state = [slot \in Pcb |-> "UNUSED"]
    /\ page_dir = [slot \in Pcb |-> God_PageDir]
    /\ generation = [slot \in Pcb |-> 0]
    /\ context = [slot \in Pcb |-> [slot |-> slot, generation |-> 0]]
    /\ pc = "boot"
    /\ creation = NoCreation

-----------------------------------------------------------------------------
(* Creation *)

Inactive == {slot \in Slot : state[slot] = "UNUSED"}

\* The first UNUSED slot, or 255 when there is none: the caller compares it
\* with -1, which it never equals, so creation goes on with slot 255.
process_list_get_inactive_index(slot) ==
    IF Inactive = {}
    THEN slot = OverrunSlot
    ELSE slot \in Inactive /\ \A other \in Inactive : slot <= other

\* Creation that relies on the allocation loop to notice that memory is full.
HasRoom_Unchecked(frames) == UnusedDirectory # {}

\* The checks that return NOT_ENOUGH_MEMORY and NULL_PAGE_DIR.
HasRoom(frames) ==
    /\ paging_allocate_check(frames)
    /\ frames <= PROCESS_PAGE_FRAME_COUNT_MAX
    /\ UnusedDirectory # {}

\* let_there_be_a_new_process up to its allocation loop.  The slot is RUNNING
\* from here on, before it has a directory or a single frame.
BeginCreation(frames) ==
    \E slot \in Pcb, dir \in Directory :
        /\ process_list_get_inactive_index(slot)
        /\ paging_create_new_page_directory(dir)
        /\ state' = [state EXCEPT ![slot] = "RUNNING"]
        /\ generation' = [generation EXCEPT ![slot] = @ + 1]
        /\ pc' = "allocate"
        /\ creation' = [p_index |-> slot, page_dir |-> dir, frames |-> frames,
                        i |-> 0, old_page_dir |-> cr3]
        /\ UNCHANGED <<page_dir, context>>

\* kernel_setup starts the shell on its own page directory and goes on to enter
\* it; system call 11 returns to the user program that made it.
ReturnPoint == IF creation.old_page_dir = God_PageDir THEN "enter" ELSE "user"

\* One turn of the allocation loop; CANT_FIT_MEMORY returns at once and leaves
\* the slot RUNNING without context.page_dir.
AllocateFrame ==
    /\ pc = "allocate"
    /\ creation.i < creation.frames
    /\ IF AllocateSucceeds(creation.page_dir, creation.i)
       THEN /\ paging_allocate_user_page_frame(creation.page_dir, creation.i)
            /\ creation' = [creation EXCEPT !.i = @ + 1]
            /\ pc' = pc
       ELSE /\ pc' = ReturnPoint
            /\ creation' = NoCreation
            /\ UNCHANGED pagingVars
    /\ UNCHANGED <<state, page_dir, generation, context>>

\* A creation that does not give the directory back.
LoadProgram_KeepsDirectory ==
    /\ pc = "allocate"
    /\ creation.i = creation.frames
    /\ paging_use_page_directory(creation.page_dir)
    /\ page_dir' = [page_dir EXCEPT ![creation.p_index] = creation.page_dir]
    /\ pc' = ReturnPoint
    /\ creation' = NoCreation
    /\ UNCHANGED <<page_frame_map, free_page_frame_count, page_directory_used,
                   table, state, generation, context>>

\* The rest of the function: the program is read into the new address space,
\* the caller's directory comes back, and the slot gets its directory, esp, cs,
\* eflags and segments.  context.eip and the general registers are not written.
LoadProgram ==
    /\ pc = "allocate"
    /\ creation.i = creation.frames
    /\ paging_use_page_directory(creation.old_page_dir)
    /\ page_dir' = [page_dir EXCEPT ![creation.p_index] = creation.page_dir]
    /\ pc' = ReturnPoint
    /\ creation' = NoCreation
    /\ UNCHANGED <<page_frame_map, free_page_frame_count, page_directory_used,
                   table, state, generation, context>>

-----------------------------------------------------------------------------
(* Destruction *)

\* A kill that frees the directory of the process that asks for it.
process_omae_wa_mou_shindeiru_OwnDirectory(slot) ==
    IF state[slot] = "UNUSED"
    THEN UNCHANGED <<pagingVars, processVars>>
    ELSE /\ state' = [state EXCEPT ![slot] = "UNUSED"]
         /\ paging_free_page_directory(cr3)
         /\ UNCHANGED <<page_dir, generation, context, pc, creation>>

\* context.page_dir keeps pointing to the freed directory.
process_omae_wa_mou_shindeiru(slot) ==
    IF state[slot] = "UNUSED"
    THEN UNCHANGED <<pagingVars, processVars>>
    ELSE /\ state' = [state EXCEPT ![slot] = "UNUSED"]
         /\ paging_free_page_directory(page_dir[slot])
         /\ UNCHANGED <<page_dir, generation, context, pc, creation>>

=============================================================================
