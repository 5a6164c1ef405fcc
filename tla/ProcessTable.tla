---------------------------- MODULE ProcessTable ----------------------------
(***************************************************************************)
(* What the kernel's process management promises: slots that hold          *)
(* processes, each with memory of its own from its start to its end,       *)
(* whatever is started, ended or scheduled meanwhile.  Starting and ending *)
(* a process are single steps here, and there are no directories, counters *)
(* or registers.                                                           *)
(***************************************************************************)
CONSTANTS Slot,   \* where a process can be
          Frame   \* the frames of memory that a process can be given

VARIABLES memory,  \* the frames of the process in each slot, none if it is empty
          turn     \* whose turn it is

Free == {frame \in Frame : \A slot \in Slot : frame \notin memory[slot]}

Start(slot) ==
    /\ memory[slot] = {}
    /\ \E frames \in (SUBSET Free) \ {{}} :
          memory' = [memory EXCEPT ![slot] = frames]
    /\ UNCHANGED turn

End(slot) ==
    /\ memory[slot] # {}
    /\ memory' = [memory EXCEPT ![slot] = {}]
    /\ UNCHANGED turn

Switch(slot) ==
    /\ memory[slot] # {}
    /\ turn' = slot
    /\ UNCHANGED memory

Init ==
    /\ memory = [slot \in Slot |-> {}]
    /\ turn \in Slot

Next == \E slot \in Slot : Start(slot) \/ End(slot) \/ Switch(slot)

Spec == Init /\ [][Next]_<<memory, turn>>

=============================================================================
