----------------------------- MODULE Scheduler ------------------------------
(***************************************************************************)
(* The kernel's process management as one system: booting into the shell   *)
(* (src/src/kernel.c), the round-robin context switch on the timer         *)
(* interrupt (src/src/scheduler/scheduler.c, schedulerprocess.s) and the   *)
(* system calls exec and kill (src/src/interrupt/interrupt.c) that user    *)
(* programs make at any moment of their time slice.                        *)
(***************************************************************************)
EXTENDS Process

ASSUME ShellFits == ShellFrames < PAGE_FRAME_MAX_COUNT

VARIABLES a_certain_magical_index,  \* the slot the kernel takes as current
          cpu,                      \* history: the thread the CPU executes
          waited                    \* history: switches a slot has sat out

schedulerVars == <<a_certain_magical_index, cpu, waited>>
vars == <<pagingVars, processVars, schedulerVars>>

current == a_certain_magical_index

SchedulerTypeOK ==
    /\ a_certain_magical_index \in Slot
    /\ cpu \in Thread
    /\ waited \in [Slot -> Nat]

TypeOK == PagingTypeOK /\ ProcessTypeOK /\ SchedulerTypeOK

Init ==
    /\ PagingInit
    /\ ProcessInit
    /\ a_certain_magical_index = 0
    /\ cpu = [slot |-> 0, generation |-> 0]
    /\ waited = [slot \in Slot |-> 0]

-----------------------------------------------------------------------------
(* The timer interrupt *)

Runnable == {slot \in Slot : state[slot] = "RUNNING"}

\* Turns of the repeat-until loop that lead from one slot to another, 1 to
\* PROCESS_COUNT_MAX: the current slot is the last one to be looked at.
Distance(from, to) ==
    IF to > from THEN to - from ELSE to - from + PROCESS_COUNT_MAX

\* A search that starts from slot 0 at every tick.
NextSlot_FromZero(slot) ==
    /\ slot \in Runnable
    /\ \A other \in Runnable : slot <= other

NextSlot(slot) ==
    /\ slot \in Runnable
    /\ \A other \in Runnable : Distance(current, slot) <= Distance(current, other)

\* The thread that runs once the registers of a context are loaded: zeroed
\* registers start the slot's program at its entry, others resume their owner.
Resumed(slot, registers) ==
    IF registers.generation = 0
    THEN [slot |-> slot, generation |-> generation[slot]]
    ELSE registers

\* A switch that looks up the old process after moving the index.
SwitchTo_SavesIntoNext(slot) ==
    /\ a_certain_magical_index' = slot
    /\ paging_use_page_directory(page_dir[slot])
    /\ context' = [context EXCEPT ![slot] = cpu]
    /\ cpu' = Resumed(slot, context'[slot])

\* The frame of the interrupted thread goes into the old slot, then the new
\* slot's context, which may be the one just saved, is copied and loaded.
SwitchTo(slot) ==
    /\ a_certain_magical_index' = slot
    /\ paging_use_page_directory(page_dir[slot])
    /\ context' = [context EXCEPT ![current] = cpu]
    /\ cpu' = Resumed(slot, context'[slot])

\* The history of a wait stops at the bound that BoundedWait says it never gets to.
OneMore(switches) ==
    IF switches < PROCESS_COUNT_MAX THEN switches + 1 ELSE switches

scheduler_switch_to_next_process ==
    /\ pc = "user"
    /\ \E slot \in Slot :
        /\ NextSlot(slot)
        /\ SwitchTo(slot)
        /\ waited' = [other \in Slot |->
              IF other # slot /\ other \in Runnable THEN OneMore(waited[other])
                                                    ELSE 0]
    /\ UNCHANGED <<page_frame_map, free_page_frame_count, page_directory_used,
                   table, state, page_dir, generation, pc, creation>>

\* With no slot RUNNING the loop of the switch never ends, and interrupts stay
\* masked: the machine stops here.
SchedulerSpins ==
    /\ pc = "user"
    /\ Runnable = {}
    /\ pc' = "spin"
    /\ UNCHANGED <<pagingVars, state, page_dir, generation, context, creation,
                   schedulerVars>>

-----------------------------------------------------------------------------
(* Boot and system calls *)

\* kernel_setup creates the shell, for which an empty memory has room, and does
\* not look at the return code.
BootShell ==
    /\ pc = "boot"
    /\ BeginCreation(ShellFrames)
    /\ UNCHANGED schedulerVars

\* kernel_setup's paging_use_page_directory, then scheduler_init.
scheduler_init ==
    /\ pc = "enter"
    /\ paging_use_page_directory(page_dir[current])
    /\ cpu' = Resumed(current, context[current])
    /\ pc' = "user"
    /\ UNCHANGED <<page_frame_map, free_page_frame_count, page_directory_used,
                   table, state, page_dir, generation, context, creation,
                   a_certain_magical_index, waited>>

\* System call 11 on a program that exists.  The answer to the caller is 0
\* whether or not the process was made.
Exec ==
    /\ pc = "user"
    /\ IF HasRoom(ExecFrames)
       THEN /\ BeginCreation(ExecFrames)
            /\ waited' = [slot \in Slot |->
                  IF slot = creation'.p_index THEN 0 ELSE waited[slot]]
            /\ UNCHANGED <<a_certain_magical_index, cpu>>
       ELSE UNCHANGED vars

\* System call 13.  Pids outside Pcb read memory that is no process.
Kill ==
    /\ pc = "user"
    /\ \E pid \in Pcb : process_omae_wa_mou_shindeiru(pid)
    /\ UNCHANGED schedulerVars

Create == (AllocateFrame \/ LoadProgram) /\ UNCHANGED schedulerVars

Next ==
    \/ BootShell
    \/ Create
    \/ scheduler_init
    \/ scheduler_switch_to_next_process
    \/ SchedulerSpins
    \/ Exec
    \/ Kill

\* The kernel's own steps go on once started, and the timer keeps ticking; that
\* a program ever calls exec or kill is not assumed.
Fairness ==
    /\ WF_vars(BootShell)
    /\ WF_vars(Create)
    /\ WF_vars(scheduler_init)
    /\ WF_vars(scheduler_switch_to_next_process)
    /\ WF_vars(SchedulerSpins)

Spec == Init /\ [][Next]_vars /\ Fairness

-----------------------------------------------------------------------------
(* Properties *)

Running(slot) == state[slot] = "RUNNING"

\* Creation is all or nothing: while a user program runs, every RUNNING slot has
\* a directory taken from the pool with the kernel and at least the program's
\* first frame mapped.  The early return that leaves a RUNNING slot without a
\* directory (CANT_FIT_MEMORY) is therefore never taken.
RunningIsComplete ==
    pc = "user" =>
        \A slot \in Pcb : Running(slot) =>
            /\ page_dir[slot] \in Directory
            /\ page_directory_used[page_dir[slot]]
            /\ table[page_dir[slot]][KERNEL_ENTRY] = KernelFrame
            /\ table[page_dir[slot]][0] # NotPresent

\* Two RUNNING processes never share a directory, so killing one cannot unmap
\* the other, although the pool hands freed directories out again and killed
\* slots keep their stale pointers.
PrivateDirectories ==
    pc = "user" =>
        \A slot1, slot2 \in Pcb :
            Running(slot1) /\ Running(slot2) /\ page_dir[slot1] = page_dir[slot2]
            => slot1 = slot2

\* While the current slot's own process executes, the CPU translates with that
\* process's directory: creating another process, which borrows cr3 to load the
\* program, gives it back.
RunsInOwnAddressSpace ==
    (/\ pc = "user"
     /\ Running(current)
     /\ cpu = [slot |-> current, generation |-> generation[current]])
    => cr3 = page_dir[current]

\* Registers never migrate: what a slot's context holds was saved by a thread of
\* that slot, and the CPU executes a thread of the current slot.
ContextStaysInSlot ==
    /\ \A slot \in Pcb : context[slot].slot = slot
    /\ cpu.slot = current

\* Round robin: a RUNNING process sits out fewer switches than there are slots,
\* whatever is created and killed meanwhile.
BoundedWait ==
    \A slot \in Slot : Running(slot) => waited[slot] < PROCESS_COUNT_MAX

\* Every process that is RUNNING in a slot of the list gets the CPU or is
\* killed.
RunnableGetsCpu ==
    \A slot \in Slot : Running(slot) ~> (current = slot \/ ~Running(slot))

\* What paging.h says of page_frame_map, "True when the page frame is currently
\* used": a marked frame is the kernel's or mapped by some directory.
MarkedFramesAreUsed ==
    pc = "user" =>
        \A frame \in Frame : page_frame_map[frame] =>
            \/ frame = KernelFrame
            \/ \E dir \in Directory, page \in Page :
                   UserEntry(dir, page) /\ table[dir][page] = frame

\* The slot is RUNNING and its creation is over.
Finished(slot) == Running(slot) /\ ~(pc = "allocate" /\ slot = creation.p_index)

\* The frames that the process in a slot can reach.
Memory(slot) ==
    IF Finished(slot)
    THEN {table[page_dir[slot]][page] :
             page \in {p \in Page : UserEntry(page_dir[slot], p)}}
    ELSE {}

Table == INSTANCE ProcessTable WITH
    Frame <- Frame \ {KernelFrame},
    memory <- [slot \in Slot |-> Memory(slot)],
    turn <- current

\* Step by step, exec, kill and the timer do to the slots of the list what
\* ProcessTable allows: a process starts in an empty slot with frames that nobody
\* has, all at once however many turns the allocation loop takes, keeps exactly
\* those until it is killed, and only a process gets the CPU at a switch.
TableSpec == Table!Spec

=============================================================================
